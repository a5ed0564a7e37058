-------------------------- MODULE HashTable_proofs --------------------------
(***************************************************************************)
(* Proofs about hashtable.c, for any keys, values, number of buckets and   *)
(* number of cells, and for visits whose visitor removes and adds entries: *)
(* the buckets stay disjoint chains, the table is the map its header       *)
(* promises, and when a visit reaches every entry exactly once.            *)
(***************************************************************************)
EXTENDS HashTable, FiniteSetTheorems, WellFoundedInduction, TLAPS

\* A non-empty set of numbers has a least member: what inductions below rest on.
LEMMA LeastNumber ==
    ASSUME NEW T \in SUBSET Nat, T # {}
    PROVE  \E m \in T : \A n \in T : m <= n
<1>1. PICK m \in T : \A n \in T : ~ (<<n, m>> \in OpToRel(<, Nat))
  BY WFMin, NatLessThanWellFounded
<1>2. \A n \in T : ~ (n < m)
  BY <1>1 DEF OpToRel
<1> QED
  BY <1>2

\* Induction: a set that has 0 and, below n, the successors of its members reaches n.
LEMMA Reaches ==
    ASSUME NEW n \in Nat, NEW S, 0 \in S, \A m \in 0 .. n - 1 : m \in S => m + 1 \in S
    PROVE  n \in S
<1> DEFINE T == (0 .. n) \ S
<1> SUFFICES ASSUME n \notin S PROVE FALSE
  OBVIOUS
<1>0. T \in SUBSET Nat /\ T # {}
  OBVIOUS
<1> HIDE DEF T
<1>1. PICK m \in T : \A k \in T : m <= k
  BY <1>0, LeastNumber
<1>2. m \in 0 .. n /\ m \notin S
  BY <1>1 DEF T
<1>3. m # 0
  BY <1>2
<1>4. m - 1 \in 0 .. n /\ m - 1 \in 0 .. n - 1 /\ (m - 1) + 1 = m /\ ~(m <= m - 1)
  BY <1>2, <1>3
<1>5. m - 1 \in S
  BY <1>1, <1>4 DEF T
<1> QED
  BY <1>2, <1>4, <1>5

-----------------------------------------------------------------------------
(* The cells of a bucket, one by one *)

\* The cell behind c.
Behind(c) == IF c = NULL THEN NULL ELSE el[c].next

\* f[k] is the k-th cell of bucket b, for k up to n.
IsPath(f, b, n) == f = [k \in 0 .. n |-> IF k = 0 THEN b ELSE Behind(f[k - 1])]

\* The recursion that CellAt is defined by has a solution.
LEMMA PathExists ==
    ASSUME NEW b, NEW n \in Nat
    PROVE  \E f : IsPath(f, b, n)
<1> DEFINE S == {m \in Nat : \E f : IsPath(f, b, m)}
<1>1. 0 \in S
  <2>1. IsPath([k \in 0 .. 0 |-> b], b, 0)
    BY DEF IsPath
  <2> QED
    BY <2>1
<1>2. ASSUME NEW m \in 0 .. n - 1, m \in S PROVE m + 1 \in S
  <2>1. PICK f : IsPath(f, b, m)
    BY <1>2
  <2> DEFINE g == [k \in 0 .. m + 1 |-> IF k <= m THEN f[k] ELSE Behind(f[m])]
  <2>2. \A k \in 0 .. m : g[k] = f[k]
    OBVIOUS
  <2>3. g[m + 1] = Behind(f[m]) /\ DOMAIN g = 0 .. m + 1
    OBVIOUS
  <2>4. g = [k \in DOMAIN g |-> g[k]]
    OBVIOUS
  <2> HIDE DEF g
  <2>5. f[0] = b /\ \A k \in 0 .. m : k # 0 => f[k] = Behind(f[k - 1])
    BY <2>1 DEF IsPath
  <2>6. ASSUME NEW k \in 0 .. m + 1 PROVE g[k] = IF k = 0 THEN b ELSE Behind(g[k - 1])
    <3>1. CASE k = 0
      BY <2>2, <2>5, <3>1
    <3>2. CASE k \in 1 .. m
      <4>1. k \in 0 .. m /\ k - 1 \in 0 .. m /\ k # 0
        BY <3>2
      <4> QED
        BY <2>2, <2>5, <4>1
    <3>3. CASE k = m + 1
      <4>1. k - 1 = m /\ m \in 0 .. m /\ k # 0
        BY <3>3
      <4> QED
        BY <2>2, <2>3, <3>3, <4>1
    <3> QED
      BY <3>1, <3>2, <3>3
  <2>7. IsPath(g, b, m + 1)
    BY <2>3, <2>4, <2>6 DEF IsPath
  <2> QED
    BY <2>7
<1> HIDE DEF S
<1>3. n \in S
  BY <1>1, <1>2, Reaches
<1> QED
  BY <1>3 DEF S

\* CellAt follows the links, one by one.
LEMMA CellAtIsPath ==
    ASSUME NEW b, NEW n \in Nat
    PROVE  \E f : IsPath(f, b, n) /\ CellAt(b, n) = f[n]
<1> DEFINE P(g) == g = [k \in 0 .. n |-> IF k = 0 THEN b
                                        ELSE IF g[k - 1] = NULL THEN NULL ELSE el[g[k - 1]].next]
           at == CHOOSE g : P(g)
<1>1. PICK f : IsPath(f, b, n)
  BY PathExists
<1>2. P(f)
  BY <1>1 DEF IsPath, Behind
<1>3. P(at)
  BY <1>2
<1>4. CellAt(b, n) = at[n]
  BY DEF CellAt
<1> HIDE DEF at
<1>5. IsPath(at, b, n)
  BY <1>3 DEF IsPath, Behind
<1> QED
  BY <1>4, <1>5

\* The first cell CellAt gives, and each next one from the one before.
LEMMA CellAtStep ==
    ASSUME NEW b
    PROVE  /\ CellAt(b, 0) = b
           /\ \A n \in Nat : CellAt(b, n + 1) = Behind(CellAt(b, n))
<1>1. CellAt(b, 0) = b
  <2>1. PICK f : IsPath(f, b, 0) /\ CellAt(b, 0) = f[0]
    BY CellAtIsPath
  <2> QED
    BY <2>1 DEF IsPath
<1>2. ASSUME NEW n \in Nat PROVE CellAt(b, n + 1) = Behind(CellAt(b, n))
  <2>1. PICK f : IsPath(f, b, n) /\ CellAt(b, n) = f[n]
    BY CellAtIsPath
  <2>2. PICK g : IsPath(g, b, n + 1) /\ CellAt(b, n + 1) = g[n + 1]
    BY CellAtIsPath
  <2>3. f[0] = b /\ \A k \in 1 .. n : f[k] = Behind(f[k - 1])
    BY <2>1 DEF IsPath
  <2>4. g[0] = b /\ \A k \in 1 .. n + 1 : g[k] = Behind(g[k - 1])
    BY <2>2 DEF IsPath
  <2> DEFINE S == {m \in Nat : f[m] = g[m]}
  <2>5. 0 \in S
    BY <2>3, <2>4
  <2>6. ASSUME NEW m \in 0 .. n - 1, m \in S PROVE m + 1 \in S
    <3>1. m + 1 \in 1 .. n /\ m + 1 \in 1 .. n + 1 /\ (m + 1) - 1 = m
      OBVIOUS
    <3> QED
      BY <2>3, <2>4, <2>6, <3>1
  <2> HIDE DEF S
  <2>7. n \in S
    BY <2>5, <2>6, Reaches
  <2>8. n + 1 \in 1 .. n + 1 /\ (n + 1) - 1 = n
    OBVIOUS
  <2> QED
    BY <2>1, <2>2, <2>4, <2>7, <2>8 DEF S
<1> QED
  BY <1>1, <1>2
-----------------------------------------------------------------------------
(* The layout of the table *)

Live == Buckets \cup alloc

\* own[c] is the bucket that cell c is in, rank[c] its place there: links lead to the
\* next place of the same bucket, every allocated cell is linked from some cell, and
\* no place of a bucket is taken twice.
Layout(own, rank) ==
    /\ alloc \subseteq Nodes
    /\ own \in [Cells -> Buckets] /\ rank \in [Cells -> Nat]
    /\ \A b \in Buckets : own[b] = b /\ rank[b] = 0
    /\ \A c \in Live : el[c].next # NULL =>
          el[c].next \in alloc /\ own[el[c].next] = own[c] /\ rank[el[c].next] = rank[c] + 1
    /\ \A c \in alloc : \E p \in Live : el[p].next = c
    /\ \A c, d \in Live : own[c] = own[d] /\ rank[c] = rank[d] => c = d

\* Cells are no NULL pointers; first cells and allocated cells are different.
LEMMA CellKinds == /\ Buckets \subseteq Nat /\ Buckets \cap Nodes = {} /\ NULL \notin Cells
                   /\ (alloc \subseteq Nodes => Live \subseteq Cells)
  BY TableAssumption DEF Buckets, Cells, Live

\* A cell behind the first one is linked from the place before.
LEMMA Predecessor ==
    ASSUME NEW own, NEW rank, Layout(own, rank), NEW c \in Live, rank[c] # 0
    PROVE  /\ c \in alloc
           /\ \E p \in Live : el[p].next = c /\ own[p] = own[c] /\ rank[p] = rank[c] - 1
<1>1. c \in alloc
  BY DEF Layout, Live
<1>2. PICK p \in Live : el[p].next = c
  BY <1>1 DEF Layout
<1>3. c # NULL
  BY <1>1, CellKinds DEF Layout, Live
<1>4. own[c] = own[p] /\ rank[c] = rank[p] + 1
  BY <1>2, <1>3 DEF Layout
<1>5. rank[p] \in Nat
  BY CellKinds DEF Layout
<1>6. rank[p] = rank[c] - 1
  BY <1>4, <1>5
<1> QED
  BY <1>1, <1>2, <1>4, <1>6

\* No place before a cell is free.
LEMMA PlacesBefore ==
    ASSUME NEW own, NEW rank, Layout(own, rank), NEW c \in Live, NEW k \in 0 .. rank[c]
    PROVE  \E d \in Live : own[d] = own[c] /\ rank[d] = k
<1> DEFINE S == {m \in Nat : \E d \in Live : own[d] = own[c] /\ rank[d] = rank[c] - m}
<1>0. rank[c] \in Nat
  BY CellKinds DEF Layout
<1>1. 0 \in S
  BY <1>0
<1>2. ASSUME NEW m \in 0 .. (rank[c] - k) - 1, m \in S PROVE m + 1 \in S
  <2>1. PICK d \in Live : own[d] = own[c] /\ rank[d] = rank[c] - m
    BY <1>2
  <2>2. rank[d] # 0
    BY <1>0, <2>1
  <2>3. PICK p \in Live : own[p] = own[d] /\ rank[p] = rank[d] - 1
    BY <2>2, Predecessor
  <2>4. rank[p] = rank[c] - (m + 1)
    BY <1>0, <2>1, <2>3
  <2> QED
    BY <2>1, <2>3, <2>4
<1> HIDE DEF S
<1>3. rank[c] - k \in Nat /\ rank[c] - (rank[c] - k) = k
  BY <1>0
<1>4. rank[c] - k \in S
  BY <1>1, <1>2, <1>3, Reaches
<1> QED
  BY <1>3, <1>4 DEF S

\* The cell CellAt finds at a place of a bucket is the one there, and it finds all.
LEMMA CellAtPlace ==
    ASSUME NEW own, NEW rank, Layout(own, rank), NEW b \in Buckets, NEW n \in Nat
    PROVE  LET c == CellAt(b, n) IN c # NULL => c \in Live /\ own[c] = b /\ rank[c] = n
<1> DEFINE S == {m \in Nat : LET c == CellAt(b, m) IN
                             c # NULL => c \in Live /\ own[c] = b /\ rank[c] = m}
<1>1. 0 \in S
  BY CellAtStep DEF Layout, Live
<1>2. ASSUME NEW m \in 0 .. n - 1, m \in S PROVE m + 1 \in S
  <2> DEFINE c == CellAt(b, m)
             d == CellAt(b, m + 1)
  <2>0. m \in Nat
    OBVIOUS
  <2>1. d = Behind(c)
    BY ONLY <2>0, CellAtStep
  <2>2. c # NULL => c \in Live /\ own[c] = b /\ rank[c] = m
    BY <1>2
  <2> HIDE DEF c, d
  <2>3. ASSUME d # NULL PROVE d \in Live /\ own[d] = b /\ rank[d] = m + 1
    <3>1. c # NULL /\ d = el[c].next
      BY <2>1, <2>3 DEF Behind
    <3>2. d \in alloc /\ own[d] = own[c] /\ rank[d] = rank[c] + 1
      BY <2>2, <2>3, <3>1 DEF Layout
    <3> QED
      BY <2>2, <3>1, <3>2 DEF Live
  <2> QED
    BY <2>3 DEF d
<1> HIDE DEF S
<1>3. n \in S
  BY <1>1, <1>2, Reaches
<1> QED
  BY <1>3 DEF S

\* Every cell in use is found at its place.
LEMMA CellAtFinds ==
    ASSUME NEW own, NEW rank, Layout(own, rank), NEW c \in Live
    PROVE  CellAt(own[c], rank[c]) = c
<1> DEFINE b == own[c]
           S == {m \in Nat : \A d \in Live : own[d] = b /\ rank[d] = m => CellAt(b, m) = d}
<1>0. b \in Buckets /\ rank[c] \in Nat
  BY CellKinds DEF Layout
<1> HIDE DEF b
<1>1. 0 \in S
  <2>1. b \in Live /\ own[b] = b /\ rank[b] = 0 /\ CellAt(b, 0) = b
    BY <1>0, CellAtStep DEF Layout, Live
  <2> QED
    BY <2>1 DEF Layout
<1>2. ASSUME NEW m \in 0 .. rank[c] - 1, m \in S PROVE m + 1 \in S
  <2> SUFFICES ASSUME NEW d \in Live, own[d] = b, rank[d] = m + 1
               PROVE  CellAt(b, m + 1) = d
    BY <1>0
  <2>1. rank[d] # 0 /\ rank[d] - 1 = m
    BY <1>0
  <2>2. PICK p \in Live : el[p].next = d /\ own[p] = b /\ rank[p] = m
    BY <2>1, Predecessor
  <2>3. CellAt(b, m) = p
    BY <1>2, <2>2
  <2>4. CellAt(b, m + 1) = Behind(p)
    BY <2>3, CellAtStep
  <2>5. p # NULL
    BY <2>2, CellKinds DEF Layout
  <2> QED
    BY <2>2, <2>4, <2>5 DEF Behind
<1> HIDE DEF S
<1>3. rank[c] \in S
  BY <1>0, <1>1, <1>2, Reaches
<1> QED
  BY <1>3 DEF S, b

\* A bucket has no more cells behind the first than calloc can return.
LEMMA RankBound ==
    ASSUME NEW own, NEW rank, Layout(own, rank), NEW c \in Live
    PROVE  rank[c] \in 0 .. Cardinality(Nodes)
<1> DEFINE r == rank[c]
           b == own[c]
           f == [k \in 1 .. r |-> CellAt(b, k)]
<1>0. r \in Nat /\ b \in Buckets
  BY CellKinds DEF Layout
<1> HIDE DEF r, b
<1>1. ASSUME NEW k \in 1 .. r
      PROVE  CellAt(b, k) \in Nodes /\ rank[CellAt(b, k)] = k
  <2>1. k \in 0 .. r
    BY <1>0
  <2>2. PICK d \in Live : own[d] = b /\ rank[d] = k
    BY <2>1, PlacesBefore DEF b, r
  <2>3. CellAt(b, k) = d
    BY <2>2, CellAtFinds
  <2>4. rank[d] # 0
    BY <2>2
  <2>5. d \in alloc
    BY <2>4, Predecessor
  <2> QED
    BY <2>2, <2>3, <2>5 DEF Layout
<1>2. f \in [1 .. r -> Nodes]
  BY <1>1
<1>3. \A j, k \in 1 .. r : f[j] = f[k] => j = k
  BY <1>1
<1> HIDE DEF f
<1>4. f \in Injection(1 .. r, Nodes)
  BY <1>2, <1>3 DEF Injection, IsInjective
<1>5. Cardinality(1 .. r) <= Cardinality(Nodes)
  BY <1>4, FS_Injection, TableAssumption
<1>6. Cardinality(1 .. r) = r
  BY <1>0, FS_Interval
<1>7. Cardinality(Nodes) \in Nat
  BY FS_CardinalityType, TableAssumption
<1> QED
  BY <1>0, <1>5, <1>6, <1>7 DEF r

\* The chain of a bucket is the set of its cells.
LEMMA ChainIs ==
    ASSUME NEW own, NEW rank, Layout(own, rank), NEW b \in Buckets
    PROVE  Chain(b) = {c \in Live : own[c] = b}
<1>1. ASSUME NEW c \in Chain(b) PROVE c \in Live /\ own[c] = b
  <2>1. PICK n \in 0 .. Cardinality(Nodes) : c = CellAt(b, n)
    BY DEF Chain
  <2>2. c # NULL
    BY DEF Chain
  <2>3. Cardinality(Nodes) \in Nat
    BY FS_CardinalityType, TableAssumption
  <2> QED
    BY <2>1, <2>2, <2>3, CellAtPlace
<1>2. ASSUME NEW c \in Live, own[c] = b PROVE c \in Chain(b)
  <2>1. rank[c] \in 0 .. Cardinality(Nodes) /\ CellAt(b, rank[c]) = c
    BY <1>2, RankBound, CellAtFinds
  <2>2. c # NULL
    BY CellKinds DEF Layout
  <2> QED
    BY <2>1, <2>2 DEF Chain
<1> QED
  BY <1>1, <1>2

\* A bucket has a last cell.
LEMMA LastExists ==
    ASSUME NEW own, NEW rank, Layout(own, rank), NEW b \in Buckets
    PROVE  \E c \in Live : own[c] = b /\ el[c].next = NULL
<1> SUFFICES ASSUME \A c \in Live : own[c] = b => el[c].next # NULL PROVE FALSE
  OBVIOUS
<1> DEFINE N == Cardinality(Nodes)
           S == {m \in Nat : \E d \in Live : own[d] = b /\ rank[d] = m}
<1>0. N \in Nat
  BY FS_CardinalityType, TableAssumption
<1> HIDE DEF N
<1>1. 0 \in S
  BY DEF Layout, Live
<1>2. ASSUME NEW m \in 0 .. (N + 1) - 1, m \in S PROVE m + 1 \in S
  <2>1. PICK d \in Live : own[d] = b /\ rank[d] = m
    BY <1>2
  <2>2. el[d].next \in alloc /\ own[el[d].next] = b /\ rank[el[d].next] = m + 1
    BY <2>1 DEF Layout
  <2> QED
    BY <1>0, <2>2 DEF Live
<1> HIDE DEF S
<1>3. N + 1 \in S
  BY <1>0, <1>1, <1>2, Reaches
<1>4. PICK d \in Live : rank[d] = N + 1
  BY <1>3 DEF S
<1>5. rank[d] \in 0 .. N
  BY RankBound DEF N
<1> QED
  BY <1>0, <1>4, <1>5

-----------------------------------------------------------------------------
(* Changes of the layout *)

\* No link changes.
LEMMA LayoutKept ==
    ASSUME NEW own, NEW rank, Layout(own, rank),
           alloc' = alloc, \A c \in Live : el'[c].next = el[c].next
    PROVE  Layout(own, rank)'
<1>1. Live' = Live
  BY DEF Live
<1> QED
  BY <1>1 DEF Layout

\* An allocated cell is put behind the last cell of a bucket.
LEMMA LayoutAppended ==
    ASSUME NEW own, NEW rank, Layout(own, rank),
           NEW last \in Live, el[last].next = NULL, NEW new \in Nodes \ alloc,
           el'[last].next = new, el'[new].next = NULL,
           \A c \in Live \ {last} : el'[c].next = el[c].next,
           alloc' = alloc \cup {new}
    PROVE  Layout([own EXCEPT ![new] = own[last]], [rank EXCEPT ![new] = rank[last] + 1])'
<1> DEFINE o == [own EXCEPT ![new] = own[last]]
           r == [rank EXCEPT ![new] = rank[last] + 1]
<1>1. /\ Live \subseteq Cells /\ new \in Cells /\ new \notin Live /\ new # NULL
      /\ Live' = Live \cup {new} /\ last # new
  BY CellKinds DEF Layout, Live, Cells
<1>2. own[last] \in Buckets /\ rank[last] \in Nat
  BY <1>1 DEF Layout
<1>3. /\ o \in [Cells -> Buckets] /\ r \in [Cells -> Nat]
      /\ o[new] = own[last] /\ r[new] = rank[last] + 1
      /\ \A c \in Live : o[c] = own[c] /\ r[c] = rank[c]
  BY <1>1, <1>2 DEF Layout
<1> HIDE DEF o, r
<1>4. alloc' \subseteq Nodes
  BY DEF Layout
<1>5. \A b \in Buckets : o[b] = b /\ r[b] = 0
  BY <1>3 DEF Layout, Live
<1>6. ASSUME NEW c \in Live', el'[c].next # NULL
      PROVE  /\ el'[c].next \in alloc' /\ o[el'[c].next] = o[c]
             /\ r[el'[c].next] = r[c] + 1
  <2>1. CASE c = last
    BY <1>3, <2>1
  <2>2. CASE c = new
    BY <1>6, <2>2
  <2>3. CASE c \in Live \ {last}
    <3>1. /\ el'[c].next = el[c].next
          /\ el[c].next \in alloc /\ own[el[c].next] = own[c] /\ rank[el[c].next] = rank[c] + 1
      BY <1>6, <2>3 DEF Layout
    <3> QED
      BY <1>3, <2>3, <3>1 DEF Live
  <2> QED
    BY <1>1, <2>1, <2>2, <2>3
<1>7. ASSUME NEW c \in alloc' PROVE \E p \in Live' : el'[p].next = c
  <2>1. CASE c = new
    BY <1>1, <2>1
  <2>2. CASE c \in alloc
    <3>1. PICK p \in Live : el[p].next = c
      BY <2>2 DEF Layout
    <3>2. p # last
      BY <1>1, <2>2, <3>1, CellKinds DEF Layout, Live
    <3> QED
      BY <1>1, <3>1, <3>2
  <2> QED
    BY <2>1, <2>2
<1>8. \A d \in Live : ~(own[d] = own[last] /\ rank[d] = rank[last] + 1)
  <2> SUFFICES ASSUME NEW d \in Live, own[d] = own[last], rank[d] = rank[last] + 1
               PROVE  FALSE
    OBVIOUS
  <2>1. rank[d] # 0 /\ rank[d] - 1 = rank[last]
    BY <1>2
  <2>2. PICK p \in Live : el[p].next = d /\ own[p] = own[d] /\ rank[p] = rank[last]
    BY <2>1, Predecessor
  <2>3. p = last
    BY <2>2 DEF Layout
  <2> QED
    BY <1>1, <2>2, <2>3, CellKinds DEF Layout
<1>9. ASSUME NEW c \in Live', NEW d \in Live', o[c] = o[d], r[c] = r[d] PROVE c = d
  <2>1. CASE c \in Live /\ d \in Live
    BY <1>3, <1>9, <2>1 DEF Layout
  <2>2. CASE c = new /\ d \in Live
    BY <1>3, <1>8, <1>9, <2>2
  <2>3. CASE c \in Live /\ d = new
    BY <1>3, <1>8, <1>9, <2>3
  <2> QED
    BY <1>1, <2>1, <2>2, <2>3
<1> QED
  BY <1>3, <1>4, <1>5, <1>6, <1>7, <1>9 DEF Layout, o, r

\* The places when cell c has left its bucket.
Closed(own, rank, c) ==
    [d \in Cells |-> IF own[d] = own[c] /\ rank[d] > rank[c] THEN rank[d] - 1 ELSE rank[d]]

\* A cell is unlinked.
LEMMA LayoutUnlinked ==
    ASSUME NEW own, NEW rank, Layout(own, rank),
           NEW c \in alloc, NEW p \in Live, el[p].next = c,
           el'[p].next = el[c].next,
           \A d \in Live \ {c, p} : el'[d].next = el[d].next,
           alloc' = alloc \ {c}
    PROVE  Layout(own, Closed(own, rank, c))'
<1> DEFINE r == Closed(own, rank, c)
<1>1. /\ Live \subseteq Cells /\ c \in Live /\ c \notin Buckets /\ c # NULL
      /\ Live' = Live \ {c} /\ \A b \in Buckets : b \in Live /\ b # c
  BY CellKinds DEF Layout, Live
<1>2. /\ \A d \in Cells : own[d] \in Buckets /\ rank[d] \in Nat
      /\ own[c] = own[p] /\ rank[c] = rank[p] + 1
  BY <1>1 DEF Layout
<1>3. p # c
  BY <1>1, <1>2
<1>4. \A d \in Cells : r[d] = IF own[d] = own[c] /\ rank[d] > rank[c] THEN rank[d] - 1 ELSE rank[d]
  BY DEF Closed
<1>5. r \in [Cells -> Nat]
  <2>1. \A d \in Cells : (IF own[d] = own[c] /\ rank[d] > rank[c] THEN rank[d] - 1 ELSE rank[d]) \in Nat
    BY <1>1, <1>2
  <2> QED
    BY <2>1 DEF Closed
<1> HIDE DEF r
<1>6. \A b \in Buckets : own[b] = b /\ r[b] = 0
  BY <1>1, <1>2, <1>4 DEF Layout
<1>7. \A d \in Live : own[d] = own[c] /\ rank[d] = rank[c] => d = c
  BY <1>1 DEF Layout
<1>8. \A d \in Live \ {p} : el[d].next # c
  BY <1>1, <1>2 DEF Layout
<1>9. ASSUME NEW d \in Live', el'[d].next # NULL
      PROVE  /\ el'[d].next \in alloc' /\ own[el'[d].next] = own[d]
             /\ r[el'[d].next] = r[d] + 1
  <2>1. CASE d = p
    <3> DEFINE n == el[c].next
    <3>1. /\ el'[d].next = n /\ n \in alloc /\ own[n] = own[c] /\ rank[n] = rank[c] + 1
      BY <1>1, <1>9, <2>1 DEF Layout
    <3> HIDE DEF n
    <3>2. n \in Cells /\ rank[n] \in Nat /\ rank[p] \in Nat /\ p \in Cells /\ rank[c] \in Nat
      BY <1>1, <1>2, <3>1 DEF Live
    <3>3. n # c /\ rank[n] > rank[c] /\ rank[n] - 1 = rank[p] + 1 /\ ~(rank[p] > rank[c])
      BY <1>2, <3>1, <3>2
    <3>4. r[n] = rank[n] - 1 /\ r[p] = rank[p]
      BY <1>2, <1>4, <3>1, <3>2, <3>3
    <3> QED
      BY <1>2, <2>1, <3>1, <3>3, <3>4
  <2>2. CASE d # p
    <3> DEFINE n == el[d].next
    <3>1. d \in Live /\ d # c /\ el'[d].next = n
      BY <1>1, <1>9, <2>2
    <3>2. n \in alloc /\ own[n] = own[d] /\ rank[n] = rank[d] + 1 /\ n # c
      BY <1>8, <1>9, <2>2, <3>1 DEF Layout
    <3> HIDE DEF n
    <3>3. n \in Cells /\ d \in Cells /\ rank[n] \in Nat /\ rank[d] \in Nat /\ rank[c] \in Nat
      BY <1>1, <1>2, <3>1, <3>2 DEF Live
    <3>4. own[d] = own[c] => rank[d] # rank[c]
      BY <1>7, <3>1
    <3>5. r[n] = r[d] + 1
      <4>1. CASE own[d] = own[c] /\ rank[d] > rank[c]
        <5>1. rank[n] > rank[c] /\ rank[n] - 1 = (rank[d] - 1) + 1
          BY <3>2, <3>3, <4>1
        <5> QED
          BY <1>4, <3>2, <3>3, <4>1, <5>1
      <4>2. CASE own[d] = own[c] /\ ~(rank[d] > rank[c])
        <5>1. ~(rank[n] > rank[c])
          BY <3>2, <3>3, <3>4, <4>2
        <5> QED
          BY <1>4, <3>2, <3>3, <4>2, <5>1
      <4>3. CASE own[d] # own[c]
        BY <1>4, <3>2, <3>3, <4>3
      <4> QED
        BY <4>1, <4>2, <4>3
    <3> QED
      BY <3>1, <3>2, <3>5
  <2> QED
    BY <2>1, <2>2
<1>10. ASSUME NEW d \in alloc' PROVE \E q \in Live' : el'[q].next = d
  <2>1. d \in alloc /\ d # c
    OBVIOUS
  <2>2. PICK q \in Live : el[q].next = d
    BY <2>1 DEF Layout
  <2>3. q # p
    BY <2>1, <2>2
  <2>4. CASE q = c
    BY <1>1, <1>3, <2>2, <2>4
  <2>5. CASE q # c
    BY <1>1, <2>2, <2>3, <2>5
  <2> QED
    BY <2>4, <2>5
<1>11. ASSUME NEW d \in Live', NEW x \in Live', own[d] = own[x], r[d] = r[x] PROVE d = x
  <2>1. /\ d \in Live /\ x \in Live /\ d # c /\ x # c /\ d \in Cells /\ x \in Cells
        /\ rank[d] \in Nat /\ rank[x] \in Nat /\ rank[c] \in Nat
    BY <1>1, <1>2
  <2>2. own[d] = own[c] => rank[d] # rank[c] /\ rank[x] # rank[c]
    BY <1>7, <1>11, <2>1
  <2>3. rank[d] = rank[x]
    <3>1. /\ r[d] = IF own[d] = own[c] /\ rank[d] > rank[c] THEN rank[d] - 1 ELSE rank[d]
          /\ r[x] = IF own[d] = own[c] /\ rank[x] > rank[c] THEN rank[x] - 1 ELSE rank[x]
      BY <1>4, <1>11, <2>1
    <3>2. \A a, b, k \in Nat : a # k /\ b # k /\
             (IF a > k THEN a - 1 ELSE a) = (IF b > k THEN b - 1 ELSE b) => a = b
      OBVIOUS
    <3>3. CASE own[d] = own[c]
      <4>1. /\ r[d] = IF rank[d] > rank[c] THEN rank[d] - 1 ELSE rank[d]
            /\ r[x] = IF rank[x] > rank[c] THEN rank[x] - 1 ELSE rank[x]
            /\ r[d] = r[x]
        BY <1>11, <3>1, <3>3
      <4>2. rank[d] # rank[c] /\ rank[x] # rank[c]
        BY <2>2, <3>3
      <4> QED
        BY <2>1, <3>2, <4>1, <4>2
    <3>4. CASE own[d] # own[c]
      BY <1>11, <3>1, <3>4
    <3> QED
      BY <3>3, <3>4
  <2> QED
    BY <1>11, <2>1, <2>3 DEF Layout
<1>12. alloc' \subseteq Nodes /\ own \in [Cells -> Buckets]
  BY DEF Layout
<1> QED
  BY <1>5, <1>6, <1>9, <1>10, <1>11, <1>12 DEF Layout, r

-----------------------------------------------------------------------------
(* The entries of the table *)

Element == [key : Keys \cup {0}, val : Vals \cup {NULL}, next : Nodes \cup {NULL}]

\* Every cell in use but an empty first one holds an entry, in the bucket of its
\* key, and no two hold the same key.  Even a freed cell that has a value has a key.
Entries(own) ==
    /\ el \in [Cells -> Element]
    /\ \A c \in Cells : el[c].val # NULL => el[c].key \in Keys
    /\ \A c \in alloc : el[c].val # NULL
    /\ \A b \in Buckets : el[b].val = NULL => el[b] = Empty
    /\ \A c \in Live : el[c].val # NULL => Bucket(el[c].key) = own[c]
    /\ \A c, d \in Live : el[c].key = el[d].key /\ own[c] = own[d] => c = d

Table(own, rank) == Layout(own, rank) /\ Entries(own)

\* Cell c is in use and holds the entry of key k.
HoldsKey(c, k) == c \in Live /\ el[c].key = k

\* A key is no 0, and it has a bucket, whose first cell is always in use.
LEMMA KeyFacts == \A k \in Keys : k \in Nat /\ k # 0 /\ Bucket(k) \in Buckets /\ Bucket(k) \in Live
<1> SUFFICES ASSUME NEW k \in Keys
             PROVE  k \in Nat /\ k # 0 /\ Bucket(k) \in Buckets /\ Bucket(k) \in Live
  OBVIOUS
<1>1. k \in Nat /\ k # 0 /\ NumBuckets \in Nat /\ NumBuckets > 0
  BY TableAssumption
<1>2. k % NumBuckets \in 0 .. NumBuckets - 1
  BY <1>1
<1> QED
  BY <1>1, <1>2 DEF Bucket, Buckets, Live

\* The cell of a key has a value and is in the key's bucket, and there is only one.
LEMMA CellOfKey ==
    ASSUME NEW own, NEW rank, Table(own, rank), NEW k \in Keys, NEW c, HoldsKey(c, k)
    PROVE  /\ c \in Cells /\ el[c].val \in Vals /\ own[c] = Bucket(k)
           /\ \A d : HoldsKey(d, k) => d = c
<1>1. Live \subseteq Cells /\ k # 0
  BY CellKinds, KeyFacts DEF Table, Layout
<1>2. ASSUME NEW d, HoldsKey(d, k) PROVE el[d].val # NULL /\ own[d] = Bucket(k)
  <2>1. el[d].val # NULL
    BY <1>1, <1>2 DEF HoldsKey, Table, Entries, Live, Empty
  <2> QED
    BY <1>2, <2>1 DEF HoldsKey, Table, Entries
<1>3. el[c].val \in Vals
  <2>1. c \in Cells /\ el[c] \in Element
    BY <1>1 DEF HoldsKey, Table, Entries
  <2> QED
    BY <1>2, <2>1 DEF Element
<1>4. ASSUME NEW d, HoldsKey(d, k) PROVE d = c
  BY <1>2, <1>4 DEF HoldsKey, Table, Entries
<1> QED
  BY <1>1, <1>2, <1>3, <1>4 DEF HoldsKey

\* What the functions of hashtable.c find when they follow a chain.
LEMMA MatchesIs ==
    ASSUME NEW own, NEW rank, Table(own, rank), NEW k \in Keys
    PROVE  Matches(k) = {c \in Live : el[c].key = k}
<1>1. Chain(Bucket(k)) = {c \in Live : own[c] = Bucket(k)}
  BY ChainIs, KeyFacts DEF Table
<1>2. \A c \in Live : el[c].key = k => own[c] = Bucket(k)
  BY CellOfKey DEF HoldsKey
<1> QED
  BY <1>1, <1>2 DEF Matches

\* An empty first cell is alone in its bucket.
LEMMA AloneInBucket ==
    ASSUME NEW own, NEW rank, Layout(own, rank), NEW b \in Buckets, el[b].next = NULL,
           NEW c \in Live, own[c] = b
    PROVE  c = b
<1> SUFFICES ASSUME c # b PROVE FALSE
  OBVIOUS
<1>1. rank[c] \in Nat /\ rank[c] # 0 /\ b \in Live /\ own[b] = b /\ rank[b] = 0
  BY CellKinds DEF Layout, Live
<1>2. 1 \in 0 .. rank[c]
  BY <1>1
<1>3. PICK d \in Live : own[d] = b /\ rank[d] = 1
  BY <1>2, PlacesBefore
<1>4. PICK p \in Live : el[p].next = d /\ own[p] = b /\ rank[p] = 1 - 1
  BY <1>3, Predecessor
<1>5. p = b
  BY <1>1, <1>4 DEF Layout
<1> QED
  BY <1>3, <1>4, <1>5, CellKinds DEF Layout

\* What a lookup finds.
ContentsExact ==
    \A k \in Keys : /\ \A c : HoldsKey(c, k) => Contents[k] = el[c].val /\ ht_find(k) = el[c].val
                    /\ (\A c : ~HoldsKey(c, k)) => Contents[k] = NULL /\ ht_find(k) = NULL

\* Lookups return the value of the key's cell, and NULL if it has none.
LEMMA ContentsIs == \A own, rank : Table(own, rank) => ContentsExact
<1> SUFFICES ASSUME NEW own, NEW rank, Table(own, rank), NEW k \in Keys
             PROVE  /\ \A c : HoldsKey(c, k) => Contents[k] = el[c].val /\ ht_find(k) = el[c].val
                    /\ (\A c : ~HoldsKey(c, k)) => Contents[k] = NULL /\ ht_find(k) = NULL
  BY DEF ContentsExact
<1>1. Matches(k) = {c \in Live : el[c].key = k}
  BY MatchesIs
<1>2. Contents[k] = IF Matches(k) # {} THEN el[CHOOSE c \in Chain(Bucket(k)) : el[c].key = k].val ELSE NULL
  BY DEF Contents, Matches
<1>3. ASSUME NEW c, HoldsKey(c, k) PROVE Contents[k] = el[c].val /\ ht_find(k) = el[c].val
  <2>1. c \in Matches(k) /\ \A d \in Matches(k) : d = c
    BY <1>1, <1>3, CellOfKey DEF HoldsKey
  <2>2. (CHOOSE d \in Matches(k) : TRUE) = c
    BY <2>1
  <2>3. (CHOOSE d \in Chain(Bucket(k)) : el[d].key = k) = c
    <3>1. c \in Chain(Bucket(k)) /\ el[c].key = k
      BY <2>1 DEF Matches
    <3>2. \A d \in Chain(Bucket(k)) : el[d].key = k => d = c
      BY <2>1 DEF Matches
    <3> QED
      BY <3>1, <3>2
  <2> QED
    BY <1>2, <2>1, <2>2, <2>3 DEF ht_find
<1>4. ASSUME \A c : ~HoldsKey(c, k) PROVE Contents[k] = NULL /\ ht_find(k) = NULL
  <2>1. Matches(k) = {}
    BY <1>1, <1>4 DEF HoldsKey
  <2> QED
    BY <1>2, <2>1 DEF ht_find
<1> QED
  BY <1>3, <1>4

\* The same in the next state.
LEMMA ContentsIsPrimed == (\E own, rank : Table(own, rank)')  => ContentsExact'
<1>1. (\A own, rank : Table(own, rank) => ContentsExact)'
  BY ContentsIs, PTL
<1> QED
  BY <1>1

-----------------------------------------------------------------------------
(* What ht_upsert does *)

\* Entry k has value v; every other entry is where it was, with its value, and no
\* place has changed.
Upserted(own, rank, own2, rank2, k, v) ==
    /\ Table(own2, rank2)'
    /\ alloc \subseteq alloc'
    /\ \A c \in Live : own2[c] = own[c] /\ rank2[c] = rank[c]
    /\ \A c \in Live : \A j \in Keys : el[c].key = j =>
          el'[c].key = j /\ (j # k => el'[c].val = el[c].val)
    /\ \E c \in Live' : el'[c].key = k /\ el'[c].val = v
    /\ \A c \in Live' : \A j \in Keys : j # k /\ el'[c].key = j => c \in Live /\ el[c].key = j

\* What ht_upsert makes of an empty first cell.
LEMMA EmptyFilled ==
    ASSUME NEW k, NEW v
    PROVE  [Empty EXCEPT !.key = k, !.val = v] = [key |-> k, val |-> v, next |-> NULL]
<1>1. [Empty EXCEPT !.key = k] = [key |-> k, val |-> NULL, next |-> NULL]
  BY DEF Empty
<1>2. [[key |-> k, val |-> NULL, next |-> NULL] EXCEPT !.val = v]
        = [key |-> k, val |-> v, next |-> NULL]
  OBVIOUS
<1>3. [Empty EXCEPT !.key = k, !.val = v] = [[Empty EXCEPT !.key = k] EXCEPT !.val = v]
  OBVIOUS
<1> QED
  BY <1>1, <1>2, <1>3

\* The first cell of the bucket is free.
LEMMA UpsertFirst ==
    ASSUME NEW own, NEW rank, Table(own, rank), NEW k \in Keys, NEW v \in Vals,
           el[Bucket(k)].val = NULL, alloc' = alloc,
           el' = [el EXCEPT ![Bucket(k)].key = k, ![Bucket(k)].val = v]
    PROVE  Upserted(own, rank, own, rank, k, v)
<1> DEFINE h == Bucket(k)
<1>1. h \in Buckets /\ h \in Live /\ h \in Cells /\ k # 0 /\ Live \subseteq Cells /\ Live' = Live
  BY KeyFacts, CellKinds DEF Table, Layout, Live
<1>2. el \in [Cells -> Element] /\ el[h] = Empty
  BY <1>1 DEF Table, Entries
<1>3. /\ \A c \in Cells : c # h => el'[c] = el[c]
      /\ el'[h] = [el[h] EXCEPT !.key = k, !.val = v]
      /\ DOMAIN el' = Cells /\ el' = [c \in Cells |-> el'[c]]
  BY <1>1, <1>2
<1> HIDE DEF h
<1>4. el'[h].key = k /\ el'[h].val = v /\ el'[h].next = NULL /\ el[h].next = NULL /\ el[h].key = 0
      /\ el'[h] \in Element
  <2>1. [Empty EXCEPT !.key = k, !.val = v] = [key |-> k, val |-> v, next |-> NULL]
    BY EmptyFilled
  <2>2. el'[h] = [key |-> k, val |-> v, next |-> NULL]
    BY <1>2, <1>3, <2>1
  <2>3. el'[h] \in Element
    BY <2>2 DEF Element
  <2> QED
    BY <1>2, <2>2, <2>3 DEF Empty
<1>6. el' \in [Cells -> Element]
  BY <1>2, <1>3, <1>4
<1>7. v # NULL
  BY TableAssumption
<1>8. Layout(own, rank)'
  BY <1>1, <1>3, <1>4, LayoutKept DEF Table
<1>9. own[h] = h
  BY <1>1 DEF Table, Layout
<1>10. \A c \in Live : own[c] = h => c = h
  BY <1>1, <1>4, AloneInBucket DEF Table
<1>11. Entries(own)'
  <2>1. \A c \in Cells : el'[c].val # NULL => el'[c].key \in Keys
    BY <1>3, <1>4 DEF Table, Entries
  <2>2. \A c \in alloc' : el'[c].val # NULL
    BY <1>1, <1>3, <1>4, <1>7 DEF Table, Entries, Live
  <2>3. \A b \in Buckets : el'[b].val = NULL => el'[b] = Empty
    BY <1>1, <1>3, <1>4, <1>7 DEF Table, Entries, Live
  <2>4. \A c \in Live' : el'[c].val # NULL => Bucket(el'[c].key) = own[c]
    BY <1>1, <1>3, <1>4, <1>9 DEF Table, Entries, h
  <2>5. ASSUME NEW c \in Live', NEW d \in Live', el'[c].key = el'[d].key, own[c] = own[d]
        PROVE  c = d
    <3>1. CASE c = h \/ d = h
      BY <1>1, <1>9, <1>10, <2>5, <3>1
    <3>2. CASE c # h /\ d # h
      <4>1. c \in Live /\ d \in Live /\ el'[c] = el[c] /\ el'[d] = el[d]
        BY <1>1, <1>3, <3>2
      <4>2. el[c].key = el[d].key
        BY <2>5, <4>1
      <4> QED
        BY <2>5, <4>1, <4>2 DEF Table, Entries
    <3> QED
      BY <3>1, <3>2
  <2> QED
    BY <1>6, <2>1, <2>2, <2>3, <2>4, <2>5 DEF Entries
<1>12. \A j \in Keys : j # 0
  BY KeyFacts
<1>13. \A c \in Live : \A j \in Keys : el[c].key = j => c # h /\ el'[c] = el[c]
  BY <1>1, <1>3, <1>4, <1>12
<1>14. \A c \in Live : \A j \in Keys : j # k /\ el'[c].key = j => el'[c] = el[c]
  BY <1>1, <1>3, <1>4
<1> QED
  BY <1>1, <1>4, <1>8, <1>11, <1>13, <1>14 DEF Upserted, Table

\* The key is there.
LEMMA UpsertMatch ==
    ASSUME NEW own, NEW rank, Table(own, rank), NEW k \in Keys, NEW v \in Vals,
           Matches(k) # {}, alloc' = alloc,
           el' = [c \in Cells |-> IF c \in Matches(k) THEN [el[c] EXCEPT !.val = v] ELSE el[c]]
    PROVE  Upserted(own, rank, own, rank, k, v)
<1>1. Matches(k) = {c \in Live : el[c].key = k} /\ Live \subseteq Cells /\ Live' = Live
  BY MatchesIs, CellKinds DEF Table, Layout, Live
<1>2. PICK m \in Live : el[m].key = k
  BY <1>1
<1>3. \A c \in Cells : c \in Matches(k) => c = m
  BY <1>1, <1>2, CellOfKey DEF HoldsKey
<1>4. m \in Matches(k) /\ m \in Cells
  BY <1>1, <1>2
<1>5. el \in [Cells -> Element]
  BY DEF Table, Entries
<1>6. /\ \A c \in Cells : c # m => el'[c] = el[c]
      /\ el'[m] = [el[m] EXCEPT !.val = v]
      /\ el' = [c \in Cells |-> el'[c]]
  BY <1>3, <1>4
<1>7. el[m] \in Element
  BY <1>4, <1>5
<1>8. /\ el'[m].key = k /\ el'[m].val = v /\ el'[m].next = el[m].next
      /\ el'[m] \in Element
  BY <1>2, <1>6, <1>7 DEF Element
<1>9. el' \in [Cells -> Element]
  BY <1>5, <1>6, <1>8
<1>10. v # NULL /\ el[m].val # NULL
  BY <1>2, CellOfKey, TableAssumption DEF HoldsKey
<1>11. Layout(own, rank)'
  BY <1>1, <1>6, <1>8, LayoutKept DEF Table
<1>12. \A c \in Cells : el'[c].key = el[c].key /\ (el'[c].val = NULL <=> el[c].val = NULL)
  BY <1>2, <1>6, <1>8, <1>10
<1>13. Entries(own)'
  <2>1. \A b \in Buckets : el'[b].val = NULL => el'[b] = Empty
    BY <1>1, <1>6, <1>8, <1>10 DEF Table, Entries, Live
  <2>2. alloc \subseteq Cells
    BY <1>1 DEF Live
  <2>3. /\ \A c \in Cells : el'[c].val # NULL => el'[c].key \in Keys
        /\ \A c \in alloc' : el'[c].val # NULL
    BY <1>12, <2>2 DEF Table, Entries
  <2>4. /\ \A c \in Live' : el'[c].val # NULL => Bucket(el'[c].key) = own[c]
        /\ \A c, d \in Live' : el'[c].key = el'[d].key /\ own[c] = own[d] => c = d
    BY <1>1, <1>12 DEF Table, Entries
  <2> QED
    BY <1>9, <2>1, <2>3, <2>4 DEF Entries
<1>14. \A c \in Live : \A j \in Keys : el[c].key = j =>
          el'[c].key = j /\ (j # k => el'[c].val = el[c].val)
  BY <1>1, <1>2, <1>6, <1>12
<1>15. \A c \in Live' : \A j \in Keys : j # k /\ el'[c].key = j => c \in Live /\ el[c].key = j
  BY <1>1, <1>12
<1> QED
  BY <1>1, <1>4, <1>8, <1>11, <1>13, <1>14, <1>15 DEF Upserted, Table

\* The key is new, and goes to a new cell behind the last.
LEMMA UpsertLast ==
    ASSUME NEW own, NEW rank, Table(own, rank), NEW k \in Keys, NEW v \in Vals,
           Matches(k) = {}, NEW new \in Nodes \ alloc, el[Bucket(k)].val # NULL,
           el' = [el EXCEPT ![Last(Bucket(k))].next = new,
                            ![new] = [key |-> k, val |-> v, next |-> NULL]],
           alloc' = alloc \cup {new}
    PROVE  \E own2, rank2 : Upserted(own, rank, own2, rank2, k, v)
<1>0. PICK last : last = Last(Bucket(k))
  OBVIOUS
<1> DEFINE o == [own EXCEPT ![new] = own[last]]
           r == [rank EXCEPT ![new] = rank[last] + 1]
<1>1. Bucket(k) \in Buckets /\ Chain(Bucket(k)) = {c \in Live : own[c] = Bucket(k)}
  BY ChainIs, KeyFacts DEF Table
<1>2. last \in Live /\ own[last] = Bucket(k) /\ el[last].next = NULL
  <2>1. \E c \in Chain(Bucket(k)) : el[c].next = NULL
    BY <1>1, LastExists DEF Table
  <2>2. last \in Chain(Bucket(k)) /\ el[last].next = NULL
    BY <1>0, <2>1 DEF Last
  <2> QED
    BY <1>1, <2>2
<1>3. /\ Live \subseteq Cells /\ new \in Cells /\ new \notin Live /\ new \notin Buckets
      /\ Live' = Live \cup {new} /\ last # new /\ last \in Cells
  BY <1>2, CellKinds DEF Table, Layout, Live, Cells
<1>4. el \in [Cells -> Element] /\ el[last] \in Element
  BY <1>3 DEF Table, Entries
<1>5. /\ \A c \in Cells : c # last /\ c # new => el'[c] = el[c]
      /\ el'[new] = [key |-> k, val |-> v, next |-> NULL]
      /\ el'[last] = [el[last] EXCEPT !.next = new]
      /\ el' = [c \in Cells |-> el'[c]]
  BY <1>0, <1>3, <1>4
<1>6. /\ el'[last].key = el[last].key /\ el'[last].val = el[last].val /\ el'[last].next = new
      /\ el'[last] \in Element
      /\ el'[new].key = k /\ el'[new].val = v /\ el'[new].next = NULL /\ el'[new] \in Element
  BY <1>4, <1>5 DEF Element
<1>7. el' \in [Cells -> Element]
  BY <1>4, <1>5, <1>6
<1>8. Layout(o, r)'
  <2>1. \A c \in Live \ {last} : el'[c].next = el[c].next
    BY <1>3, <1>5
  <2>2. Layout(own, rank) /\ el'[last].next = new /\ el'[new].next = NULL
    BY <1>6 DEF Table
  <2> QED
    BY <1>2, <2>1, <2>2, LayoutAppended
<1>9. /\ o[new] = Bucket(k)
      /\ \A c \in Live : o[c] = own[c] /\ r[c] = rank[c]
  BY <1>2, <1>3 DEF Table, Layout
<1> HIDE DEF o, r
<1>10. v # NULL
  BY TableAssumption
<1>11. \A c \in Live : el[c].key # k
  BY MatchesIs
<1>12. \A c \in Cells : c # new => el'[c].key = el[c].key /\ el'[c].val = el[c].val
  BY <1>5, <1>6
<1>13. Entries(o)'
  <2>1. \A c \in Cells : el'[c].val # NULL => el'[c].key \in Keys
    BY <1>6, <1>12 DEF Table, Entries
  <2>2. \A c \in alloc' : el'[c].val # NULL
    <3>1. \A c \in alloc : c \in Cells /\ c # new /\ el[c].val # NULL
      BY <1>3 DEF Table, Entries, Live
    <3> QED
      BY <1>6, <1>10, <1>12, <3>1
  <2>3. ASSUME NEW b \in Buckets, el'[b].val = NULL PROVE el'[b] = Empty
    <3>1. b \in Live /\ b \in Cells /\ b # new
      BY <1>3 DEF Live
    <3>2. el[b] = Empty
      BY <1>12, <2>3, <3>1 DEF Table, Entries
    <3>3. CASE b = last
      \* the bucket of k is not empty
      <4>1. own[b] = b
        BY DEF Table, Layout
      <4>2. b = Bucket(k)
        BY <1>2, <3>3, <4>1
      <4> QED
        BY <3>2, <4>2 DEF Empty
    <3>4. CASE b # last
      BY <1>5, <3>1, <3>2, <3>4
    <3> QED
      BY <3>3, <3>4
  <2>4. \A c \in Live' : el'[c].val # NULL => Bucket(el'[c].key) = o[c]
    BY <1>3, <1>6, <1>9, <1>12 DEF Table, Entries
  <2>5. ASSUME NEW c \in Live', NEW d \in Live', el'[c].key = el'[d].key, o[c] = o[d] PROVE c = d
    <3>1. CASE c \in Live /\ d \in Live
      BY <1>3, <1>9, <1>12, <2>5, <3>1 DEF Table, Entries
    <3>2. CASE c = new /\ d \in Live
      <4>1. el'[d].key = el[d].key /\ el[d].key # k
        BY <1>3, <1>11, <1>12, <3>2
      <4> QED
        BY <1>6, <2>5, <3>2, <4>1
    <3>3. CASE c \in Live /\ d = new
      <4>1. el'[c].key = el[c].key /\ el[c].key # k
        BY <1>3, <1>11, <1>12, <3>3
      <4> QED
        BY <1>6, <2>5, <3>3, <4>1
    <3> QED
      BY <1>3, <3>1, <3>2, <3>3
  <2>6. \A c, d \in Live' : el'[c].key = el'[d].key /\ o[c] = o[d] => c = d
    BY <2>5
  <2> QED
    BY <1>7, <2>1, <2>2, <2>3, <2>4, <2>6 DEF Entries
<1>14. \A c \in Live : el'[c].key = el[c].key /\ el'[c].val = el[c].val
  BY <1>3, <1>12
<1>15. \A c \in Live' : \A j \in Keys : j # k /\ el'[c].key = j => c \in Live /\ el[c].key = j
  BY <1>3, <1>6, <1>14
<1>16. \E c \in Live' : el'[c].key = k /\ el'[c].val = v
  BY <1>3, <1>6
<1>17. Upserted(own, rank, o, r, k, v)
  BY <1>8, <1>9, <1>13, <1>14, <1>15, <1>16 DEF Upserted, Table
<1> QED
  BY <1>17

\* The three cases of ht_upsert.
LEMMA UpsertEffect ==
    ASSUME NEW own, NEW rank, Table(own, rank), NEW k \in Keys, NEW v \in Vals, ht_upsert(k, v)
    PROVE  \E own2, rank2 : Upserted(own, rank, own2, rank2, k, v)
<1>1. CASE el[Bucket(k)].val = NULL
  BY <1>1, UpsertFirst DEF ht_upsert
<1>2. CASE el[Bucket(k)].val # NULL /\ Matches(k) # {}
  BY <1>2, UpsertMatch DEF ht_upsert
<1>3. CASE el[Bucket(k)].val # NULL /\ Matches(k) = {}
  <2>1. PICK new \in Nodes \ alloc :
           /\ el' = [el EXCEPT ![Last(Bucket(k))].next = new,
                               ![new] = [key |-> k, val |-> v, next |-> NULL]]
           /\ alloc' = alloc \cup {new}
    BY <1>3 DEF ht_upsert
  <2> QED
    BY <1>3, <2>1, UpsertLast
<1> QED
  BY <1>1, <1>2, <1>3

-----------------------------------------------------------------------------
(* What ht_remove does *)

\* Cells that stay keep their entries and their order.
InPlace(own, rank, rank2, k) ==
    /\ alloc' \subseteq alloc
    /\ \A c \in alloc : el[c].key # k => c \in alloc'
    /\ \A c \in Live : \A j \in Keys : j # k /\ el[c].key = j => el'[c].key = j
    /\ \A c, d \in Live' : own[c] = own[d] => (rank2[c] >= rank2[d] <=> rank[c] >= rank[d])

\* Entry k is gone and every other is there, with its value; unless an entry was
\* moved to the first cell, it is where it was.
Removed(own, rank, rank2, k) ==
    /\ Table(own, rank2)'
    /\ \A c \in Live' : el'[c].key # k
    /\ \A c \in Live : \A j \in Keys : j # k /\ el[c].key = j =>
          \E d \in Live' : el'[d].key = j /\ el'[d].val = el[c].val
    /\ \A d \in Live' : \A j \in Keys : el'[d].key = j => \E c \in Live : el[c].key = j
    /\ ~Moves(k) => InPlace(own, rank, rank2, k)

\* Unlinking a cell keeps the order of the others.
LEMMA OrderKept ==
    ASSUME NEW own, NEW rank, Layout(own, rank), NEW c \in Live, NEW a \in Live \ {c},
           NEW b \in Live \ {c}, own[a] = own[b]
    PROVE  Closed(own, rank, c)[a] >= Closed(own, rank, c)[b] <=> rank[a] >= rank[b]
<1>1. /\ a \in Cells /\ b \in Cells /\ c \in Cells
      /\ rank[a] \in Nat /\ rank[b] \in Nat /\ rank[c] \in Nat
  BY CellKinds DEF Layout
<1>2. own[a] = own[c] => rank[a] # rank[c] /\ rank[b] # rank[c]
  BY DEF Layout
<1>3. /\ Closed(own, rank, c)[a] =
            IF own[a] = own[c] /\ rank[a] > rank[c] THEN rank[a] - 1 ELSE rank[a]
      /\ Closed(own, rank, c)[b] =
            IF own[a] = own[c] /\ rank[b] > rank[c] THEN rank[b] - 1 ELSE rank[b]
  BY <1>1 DEF Closed
<1>4. \A x, y, z \in Nat : x # z /\ y # z =>
         ((IF x > z THEN x - 1 ELSE x) >= (IF y > z THEN y - 1 ELSE y) <=> x >= y)
  OBVIOUS
<1>5. CASE own[a] = own[c]
  BY <1>1, <1>2, <1>3, <1>4, <1>5
<1>6. CASE own[a] # own[c]
  BY <1>3, <1>6
<1> QED
  BY <1>5, <1>6

\* The entry is alone in its bucket.
LEMMA RemoveAlone ==
    ASSUME NEW own, NEW rank, Table(own, rank), NEW k \in Keys,
           Bucket(k) \in Matches(k), el[Bucket(k)].next = NULL,
           el' = [el EXCEPT ![Bucket(k)] = Empty], alloc' = alloc
    PROVE  Removed(own, rank, rank, k)
<1> DEFINE h == Bucket(k)
<1>1. /\ h \in Buckets /\ h \in Live /\ h \in Cells /\ k # 0 /\ Live \subseteq Cells
      /\ Live' = Live /\ alloc \subseteq Cells /\ h \notin alloc
  BY KeyFacts, CellKinds DEF Table, Layout, Live
<1>2. HoldsKey(h, k)
  BY <1>1, MatchesIs DEF HoldsKey
<1>3. el \in [Cells -> Element]
  BY DEF Table, Entries
<1>4. /\ \A c \in Cells : c # h => el'[c] = el[c]
      /\ el'[h] = Empty /\ el' = [c \in Cells |-> el'[c]]
  BY <1>1, <1>3
<1>5. Empty \in Element /\ Empty.key = 0 /\ Empty.val = NULL /\ Empty.next = NULL
  BY DEF Empty, Element
<1>6. \A c \in Live : el[c].key = k => c = h
  BY <1>2, CellOfKey DEF HoldsKey
<1>7. el[h].next = NULL /\ own[h] = h
  BY <1>1 DEF Table, Layout
<1>8. \A c \in Live : own[c] = h => c = h
  BY <1>1, <1>7, AloneInBucket DEF Table
<1> HIDE DEF h
<1>9. el' \in [Cells -> Element]
  BY <1>3, <1>4, <1>5
<1>10. Layout(own, rank)'
  BY <1>1, <1>4, <1>5, <1>7, LayoutKept DEF Table
<1>11. Entries(own)'
  <2>1. \A c \in Cells : el'[c].val # NULL => el'[c].key \in Keys
    BY <1>4, <1>5 DEF Table, Entries
  <2>2. \A c \in alloc' : el'[c].val # NULL
    BY <1>1, <1>4 DEF Table, Entries
  <2>3. \A b \in Buckets : el'[b].val = NULL => el'[b] = Empty
    BY <1>1, <1>4 DEF Table, Entries, Live
  <2>4. \A c \in Live' : el'[c].val # NULL => Bucket(el'[c].key) = own[c]
    BY <1>1, <1>4, <1>5 DEF Table, Entries
  <2>5. ASSUME NEW c \in Live', NEW d \in Live', el'[c].key = el'[d].key, own[c] = own[d]
        PROVE  c = d
    <3>1. CASE c = h \/ d = h
      BY <1>1, <1>7, <1>8, <2>5, <3>1
    <3>2. CASE c # h /\ d # h
      <4>1. c \in Live /\ d \in Live /\ el'[c] = el[c] /\ el'[d] = el[d]
        BY <1>1, <1>4, <3>2
      <4>2. el[c].key = el[d].key
        BY <2>5, <4>1
      <4> QED
        BY <2>5, <4>1, <4>2 DEF Table, Entries
    <3> QED
      BY <3>1, <3>2
  <2>6. \A c, d \in Live' : el'[c].key = el'[d].key /\ own[c] = own[d] => c = d
    BY <2>5
  <2> QED
    BY <1>9, <2>1, <2>2, <2>3, <2>4, <2>6 DEF Entries
<1>12. \A c \in Live' : el'[c].key # k
  BY <1>1, <1>4, <1>5, <1>6
<1>13. \A c \in Live : \A j \in Keys : j # k /\ el[c].key = j => c \in Live' /\ el'[c] = el[c]
  BY <1>1, <1>2, <1>4 DEF HoldsKey
<1>14. \A j \in Keys : j # 0
  BY KeyFacts
<1>15. \A d \in Live' : \A j \in Keys : el'[d].key = j => d \in Live /\ el[d].key = j
  BY <1>1, <1>4, <1>5, <1>14
<1>16. InPlace(own, rank, rank, k)
  BY <1>13 DEF InPlace
<1> QED
  BY <1>10, <1>11, <1>12, <1>13, <1>15, <1>16 DEF Removed, Table

\* The first cell takes over the second.
LEMMA RemoveFirst ==
    ASSUME NEW own, NEW rank, Table(own, rank), NEW k \in Keys,
           Bucket(k) \in Matches(k), el[Bucket(k)].next # NULL,
           MoveToFirst(Bucket(k))
    PROVE  \E rank2 : Removed(own, rank, rank2, k)
<1> DEFINE h == Bucket(k)
<1>0. PICK s : s = el[h].next
  OBVIOUS
<1>1. /\ h \in Buckets /\ h \in Live /\ h \in Cells /\ k # 0 /\ Live \subseteq Cells
      /\ alloc \subseteq Cells /\ h \notin alloc
  BY KeyFacts, CellKinds DEF Table, Layout, Live
<1>2. HoldsKey(h, k)
  BY <1>1, MatchesIs DEF HoldsKey
<1>3. el \in [Cells -> Element]
  BY DEF Table, Entries
<1>4. s \in alloc /\ own[s] = own[h] /\ own[h] = h /\ s \in Live
  BY <1>0, <1>1 DEF Table, Layout, Live
<1>5. el' = [el EXCEPT ![h] = el[s]] /\ alloc' = alloc \ {s}
  BY <1>0 DEF MoveToFirst
<1>6. Moves(k)
  BY DEF Moves
<1> HIDE DEF h
<1>7. Live' = Live \ {s} /\ s # h /\ \A b \in Buckets : b # s
  BY <1>1, <1>4, <1>5, CellKinds DEF Live, Table, Layout
<1>8. /\ \A c \in Cells : c # h => el'[c] = el[c]
      /\ el'[h] = el[s] /\ el' = [c \in Cells |-> el'[c]]
  BY <1>1, <1>3, <1>5
<1>9. el' \in [Cells -> Element]
  BY <1>1, <1>3, <1>4, <1>8
<1>10. Layout(own, Closed(own, rank, s))'
  <2>1. \A d \in Live \ {s, h} : el'[d].next = el[d].next
    BY <1>1, <1>8
  <2>2. Layout(own, rank) /\ el'[h].next = el[s].next
    BY <1>8 DEF Table
  <2> QED
    BY <1>0, <1>1, <1>4, <1>5, <2>1, <2>2, LayoutUnlinked
<1>11. el[s].val # NULL /\ el[s].key \in Keys /\ Bucket(el[s].key) = h
  BY <1>1, <1>4 DEF Table, Entries
<1>12. \A c \in Live : el[c].key = k => c = h
  BY <1>2, CellOfKey DEF HoldsKey
<1>13. el[s].key # k
  BY <1>4, <1>7, <1>12
<1>14. \A c \in Live : el[c].key = el[s].key /\ own[c] = h => c = s
  BY <1>4 DEF Table, Entries
<1>15. Entries(own)'
  <2>1. \A c \in Cells : el'[c].val # NULL => el'[c].key \in Keys
    BY <1>8, <1>11 DEF Table, Entries
  <2>2. \A c \in alloc' : el'[c].val # NULL
    BY <1>1, <1>5, <1>8 DEF Table, Entries
  <2>3. \A b \in Buckets : el'[b].val = NULL => el'[b] = Empty
    BY <1>1, <1>8, <1>11 DEF Table, Entries, Live
  <2>4. \A c \in Live' : el'[c].val # NULL => Bucket(el'[c].key) = own[c]
    BY <1>1, <1>4, <1>7, <1>8, <1>11 DEF Table, Entries
  <2>5. ASSUME NEW c \in Live', NEW d \in Live', el'[c].key = el'[d].key, own[c] = own[d]
        PROVE  c = d
    <3>0. c \in Live /\ d \in Live /\ c # s /\ d # s /\ c \in Cells /\ d \in Cells
      BY <1>1, <1>7
    <3>1. CASE c = h /\ d # h
      BY <1>4, <1>8, <1>14, <2>5, <3>0, <3>1
    <3>2. CASE d = h /\ c # h
      BY <1>4, <1>8, <1>14, <2>5, <3>0, <3>2
    <3>3. CASE c # h /\ d # h
      <4>1. el[c].key = el[d].key
        BY <1>8, <2>5, <3>0, <3>3
      <4> QED
        BY <2>5, <3>0, <4>1 DEF Table, Entries
    <3> QED
      BY <3>1, <3>2, <3>3
  <2>6. \A c, d \in Live' : el'[c].key = el'[d].key /\ own[c] = own[d] => c = d
    BY <2>5
  <2> QED
    BY <1>9, <2>1, <2>2, <2>3, <2>4, <2>6 DEF Entries
<1>16. \A c \in Live' : el'[c].key # k
  BY <1>1, <1>7, <1>8, <1>12, <1>13
<1>17. ASSUME NEW c \in Live, NEW j \in Keys, j # k, el[c].key = j
       PROVE  \E d \in Live' : el'[d].key = j /\ el'[d].val = el[c].val
  <2>1. c # h
    BY <1>2, <1>17 DEF HoldsKey
  <2>2. CASE c = s
    BY <1>1, <1>7, <1>8, <1>17, <2>2
  <2>3. CASE c # s
    BY <1>1, <1>7, <1>8, <1>17, <2>1, <2>3
  <2> QED
    BY <2>2, <2>3
<1>18. ASSUME NEW d \in Live', NEW j \in Keys, el'[d].key = j
       PROVE  \E c \in Live : el[c].key = j
  BY <1>1, <1>4, <1>7, <1>8, <1>18
<1>19. Removed(own, rank, Closed(own, rank, s), k)
  BY <1>6, <1>10, <1>15, <1>16, <1>17, <1>18 DEF Removed, Table
<1> QED
  BY <1>19

\* A cell behind the first is unlinked and freed.
LEMMA RemoveBehind ==
    ASSUME NEW own, NEW rank, Table(own, rank), NEW k \in Keys,
           Bucket(k) \notin Matches(k), NEW s \in Matches(k),
           NEW p \in Chain(Bucket(k)), el[p].next = s,
           el' = [el EXCEPT ![p].next = el[s].next],
           alloc' = alloc \ {s}
    PROVE  \E rank2 : Removed(own, rank, rank2, k)
<1>1. /\ Bucket(k) \in Buckets /\ k # 0 /\ Live \subseteq Cells /\ alloc \subseteq Cells
      /\ p \in Live /\ own[p] = Bucket(k)
  BY KeyFacts, CellKinds, ChainIs DEF Table, Layout, Live
<1>2. HoldsKey(s, k) /\ own[s] = Bucket(k)
  BY MatchesIs, CellOfKey DEF HoldsKey
<1>3. s \in alloc /\ s \in Live /\ s \notin Buckets
  <2>1. s \notin Buckets
    BY <1>2 DEF Table, Layout
  <2> QED
    BY <1>2, <2>1 DEF HoldsKey, Live
<1>4. Live' = Live \ {s} /\ \A b \in Buckets : b # s
  BY <1>3 DEF Live
<1>5. p # s
  <2>1. s # NULL
    BY <1>1, <1>3, CellKinds
  <2>2. rank[s] = rank[p] + 1 /\ rank[p] \in Nat
    BY <1>1, <2>1 DEF Table, Layout
  <2> QED
    BY <2>2
<1>6. el \in [Cells -> Element]
  BY DEF Table, Entries
<1>7. p \in Cells /\ s \in Cells /\ el[p] \in Element /\ el[s] \in Element
  BY <1>1, <1>3, <1>6
<1>8. /\ \A c \in Cells : c # p => el'[c] = el[c]
      /\ el'[p] = [el[p] EXCEPT !.next = el[s].next]
      /\ el' = [c \in Cells |-> el'[c]]
  BY <1>6, <1>7
<1>9. /\ el'[p].key = el[p].key /\ el'[p].val = el[p].val /\ el'[p].next = el[s].next
      /\ el'[p] \in Element
  BY <1>7, <1>8 DEF Element
<1>10. el' \in [Cells -> Element]
  BY <1>6, <1>8, <1>9
<1>11. \A c \in Cells : el'[c].key = el[c].key /\ el'[c].val = el[c].val
  BY <1>8, <1>9
<1>12. Layout(own, Closed(own, rank, s))'
  <2>1. \A d \in Live \ {s, p} : el'[d].next = el[d].next
    BY <1>1, <1>8
  <2>2. Layout(own, rank)
    BY DEF Table
  <2> QED
    BY <1>1, <1>3, <1>9, <2>1, <2>2, LayoutUnlinked
<1>13. \A c \in Live : el[c].key = k => c = s
  BY <1>2, CellOfKey DEF HoldsKey
<1>14. Entries(own)'
  <2>1. /\ \A c \in Cells : el'[c].val # NULL => el'[c].key \in Keys
        /\ \A c \in alloc' : el'[c].val # NULL
    BY <1>1, <1>11 DEF Table, Entries
  <2>2. ASSUME NEW b \in Buckets, el'[b].val = NULL PROVE el'[b] = Empty
    <3>1. b \in Live /\ b \in Cells
      BY <1>1 DEF Live
    <3>2. el[b] = Empty
      BY <1>11, <2>2, <3>1 DEF Table, Entries
    <3>3. b # p
      BY <1>1, <1>3, <3>2, CellKinds DEF Empty
    <3> QED
      BY <1>8, <3>1, <3>2, <3>3
  <2>3. /\ \A c \in Live' : el'[c].val # NULL => Bucket(el'[c].key) = own[c]
        /\ \A c, d \in Live' : el'[c].key = el'[d].key /\ own[c] = own[d] => c = d
    BY <1>1, <1>4, <1>11 DEF Table, Entries
  <2> QED
    BY <1>10, <2>1, <2>2, <2>3 DEF Entries
<1>15. \A c \in Live' : c \in Live /\ c # s /\ c \in Cells /\ el'[c].key # k
  BY <1>1, <1>4, <1>11, <1>13
<1>16. \A c \in Live : \A j \in Keys : j # k /\ el[c].key = j =>
          c \in Live' /\ el'[c].key = j /\ el'[c].val = el[c].val
  BY <1>1, <1>2, <1>4, <1>11 DEF HoldsKey
<1>17. InPlace(own, rank, Closed(own, rank, s), k)
  <2>1. \A c \in alloc : el[c].key # k => c \in alloc'
    BY <1>2 DEF HoldsKey
  <2>2. \A c, d \in Live' : own[c] = own[d] =>
           (Closed(own, rank, s)[c] >= Closed(own, rank, s)[d] <=> rank[c] >= rank[d])
    BY <1>3, <1>15, OrderKept DEF Table
  <2> QED
    BY <1>16, <2>1, <2>2 DEF InPlace
<1>18. \A d \in Live' : \A j \in Keys : el'[d].key = j => \E c \in Live : el[c].key = j
  BY <1>11, <1>15
<1>19. Removed(own, rank, Closed(own, rank, s), k)
  BY <1>12, <1>14, <1>15, <1>16, <1>17, <1>18 DEF Removed, Table
<1> QED
  BY <1>19

\* The cases of ht_remove.
LEMMA RemoveEffect ==
    ASSUME NEW own, NEW rank, Table(own, rank), NEW k \in Keys, ht_remove(k)
    PROVE  \E rank2 : Removed(own, rank, rank2, k)
<1>1. CASE Bucket(k) \in Matches(k) /\ el[Bucket(k)].next = NULL
  BY <1>1, RemoveAlone DEF ht_remove
<1>2. CASE Bucket(k) \in Matches(k) /\ el[Bucket(k)].next # NULL
  BY <1>2, RemoveFirst DEF ht_remove
<1>3. CASE Bucket(k) \notin Matches(k) /\ Matches(k) = {}
  <2>1. el' = el /\ alloc' = alloc
    BY <1>3 DEF ht_remove
  <2>2. Live' = Live /\ Table(own, rank)'
    BY <2>1 DEF Live, Table, Layout, Entries
  <2>3. \A c \in Live : el[c].key # k
    BY <1>3, MatchesIs
  <2>4. InPlace(own, rank, rank, k)
    BY <2>1 DEF InPlace
  <2>5. Removed(own, rank, rank, k)
    BY <2>1, <2>2, <2>3, <2>4 DEF Removed
  <2> QED
    BY <2>5
<1>4. CASE Bucket(k) \notin Matches(k) /\ Matches(k) # {}
  <2>1. PICK s \in Matches(k) :
           /\ \E p \in Chain(Bucket(k)) :
                 el[p].next = s /\ el' = [el EXCEPT ![p].next = el[s].next]
           /\ alloc' = alloc \ {s}
    BY <1>4 DEF ht_remove
  <2>2. PICK p \in Chain(Bucket(k)) : el[p].next = s /\ el' = [el EXCEPT ![p].next = el[s].next]
    BY <2>1
  <2> QED
    BY <1>4, <2>1, <2>2, RemoveBehind
<1> QED
  BY <1>1, <1>2, <1>3, <1>4

-----------------------------------------------------------------------------
(* A visit *)

\* The cells ht_visit has still to come to.
Remaining(own, rank) ==
    {c \in Live : \/ own[c] > visit.bucket
                  \/ visit.next # NULL /\ own[c] = visit.bucket /\ rank[c] >= rank[visit.next]}

\* The cells ht_visit comes to after cell n.
After(own, rank, n) ==
    {c \in Live : own[c] > own[n] \/ (own[c] = own[n] /\ rank[c] > rank[n])}

\* Of the cells of a bucket, those behind cell n begin with the one n links to.
LEMMA BehindCell ==
    ASSUME NEW own, NEW rank, Layout(own, rank), NEW n \in Live, NEW c \in Live, own[c] = own[n]
    PROVE  (el[n].next # NULL /\ rank[c] >= rank[el[n].next]) <=> rank[c] > rank[n]
<1>1. rank[n] \in Nat /\ rank[c] \in Nat
  BY CellKinds DEF Layout
<1>2. CASE el[n].next # NULL
  <2>1. rank[el[n].next] = rank[n] + 1
    BY <1>2 DEF Layout
  <2> QED
    BY <1>1, <1>2, <2>1
<1>3. CASE el[n].next = NULL
  <2> SUFFICES ASSUME rank[c] > rank[n] PROVE FALSE
    BY <1>3
  <2>1. rank[n] + 1 \in 0 .. rank[c] /\ rank[n] + 1 # 0 /\ (rank[n] + 1) - 1 = rank[n]
    BY <1>1
  <2>2. PICK d \in Live : own[d] = own[c] /\ rank[d] = rank[n] + 1
    BY <2>1, PlacesBefore
  <2>3. PICK p \in Live : el[p].next = d /\ own[p] = own[d] /\ rank[p] = rank[n]
    BY <2>1, <2>2, Predecessor
  <2>4. p = n
    BY <2>2, <2>3 DEF Layout
  <2> QED
    BY <1>3, <2>2, <2>3, <2>4, CellKinds DEF Layout
<1> QED
  BY <1>2, <1>3

\* When ht_visit calls the visitor for cell n, it has still to come to those after n.
LEMMA RemainingAt ==
    ASSUME NEW own, NEW rank, Layout(own, rank), NEW n \in Live,
           visit' = At(own[n], n), el' = el, alloc' = alloc
    PROVE  Remaining(own, rank)' = After(own, rank, n)
<1>1. visit'.bucket = own[n] /\ visit'.next = el[n].next /\ Live' = Live
  BY DEF At, Live
<1>2. \A c \in Live : own[c] = own[n] =>
         ((el[n].next # NULL /\ rank[c] >= rank[el[n].next]) <=> rank[c] > rank[n])
  BY BehindCell
<1>3. Remaining(own, rank)' =
        {c \in Live : \/ own[c] > own[n]
                      \/ el[n].next # NULL /\ own[c] = own[n] /\ rank[c] >= rank[el[n].next]}
  BY <1>1 DEF Remaining
<1>4. \A c \in Live :
         (\/ own[c] > own[n]
          \/ el[n].next # NULL /\ own[c] = own[n] /\ rank[c] >= rank[el[n].next])
         <=> (own[c] > own[n] \/ (own[c] = own[n] /\ rank[c] > rank[n]))
  BY <1>2
<1> QED
  BY <1>3, <1>4 DEF After

\* The entries of the buckets from a on are in NextBucket(a) and those behind it.
LEMMA NextBucketIs ==
    ASSUME NEW own, NEW rank, Table(own, rank), NEW a \in Nat
    PROVE  LET b == NextBucket(a) IN
           /\ b = NULL => \A c \in Live : el[c].key \in Keys => ~(own[c] >= a)
           /\ b # NULL => /\ b \in Buckets /\ b >= a /\ el[b].key \in Keys
                          /\ el[b].val # NULL
                          /\ \A c \in Live : el[c].key \in Keys /\ own[c] >= a => own[c] >= b
<1> DEFINE full == {i \in Buckets : i >= a /\ el[i].val # NULL}
           b == NextBucket(a)
<1>1. b = IF full = {} THEN NULL ELSE CHOOSE i \in full : \A j \in full : i <= j
  BY DEF NextBucket
<1>2. Live \subseteq Cells /\ NULL \notin Cells /\ Buckets \subseteq Nat /\ Buckets \subseteq Live
  BY CellKinds DEF Table, Layout, Live
<1>3. ASSUME NEW c \in Live, el[c].key \in Keys, own[c] >= a PROVE own[c] \in full
  <2>1. own[c] \in Buckets
    BY <1>2 DEF Table, Layout
  <2>2. ASSUME el[own[c]].val = NULL PROVE FALSE
    <3>1. el[own[c]] = Empty
      BY <2>1, <2>2 DEF Table, Entries
    <3>2. c = own[c]
      BY <2>1, <3>1, AloneInBucket DEF Table, Empty
    <3>3. el[c].key = 0
      BY <3>1, <3>2 DEF Empty
    <3> QED
      BY <1>3, <3>3, KeyFacts
  <2> QED
    BY <1>3, <2>1, <2>2
<1>4. CASE full = {}
  BY <1>1, <1>3, <1>4
<1>5. CASE full # {}
  <2>1. full \in SUBSET Nat
    BY <1>2
  <2>2. \A i \in full : i \in Buckets /\ i >= a /\ el[i].val # NULL
    OBVIOUS
  <2> HIDE DEF full
  <2>3. \E m \in full : \A n \in full : m <= n
    BY <1>5, <2>1, LeastNumber
  <2>4. b \in full /\ \A j \in full : b <= j
    BY <1>1, <1>5, <2>3
  <2>5. b \in Buckets /\ b >= a /\ el[b].val # NULL
    BY <2>2, <2>4
  <2>6. b # NULL /\ el[b].key \in Keys /\ b \in Nat
    BY <1>2, <2>5 DEF Table, Entries
  <2>7. \A c \in Live : el[c].key \in Keys /\ own[c] >= a => own[c] >= b
    BY <1>3, <2>1, <2>4, <2>6
  <2> QED
    BY <2>5, <2>6, <2>7
<1> QED
  BY <1>4, <1>5

\* No cell after the last one of NextBucket's result is left out.
LEMMA AfterFirst ==
    ASSUME NEW own, NEW rank, Table(own, rank), NEW a \in Nat, NextBucket(a) # NULL,
           NEW c \in Live, el[c].key \in Keys, own[c] >= a, c # NextBucket(a)
    PROVE  c \in After(own, rank, NextBucket(a))
<1>0. PICK b : b = NextBucket(a)
  OBVIOUS
<1>1. b \in Buckets /\ own[c] >= b
  BY <1>0, NextBucketIs
<1>2. own[b] = b /\ rank[b] = 0 /\ b \in Live /\ own[c] \in Nat /\ b \in Nat /\ rank[c] \in Nat
  BY <1>1, CellKinds DEF Table, Layout, Live
<1>3. CASE own[c] = b
  <2>1. rank[c] # 0
    BY <1>0, <1>2, <1>3 DEF Table, Layout
  <2>2. rank[c] > rank[b]
    BY <1>2, <2>1
  <2> QED
    BY <1>0, <1>2, <1>3, <2>2 DEF After
<1>4. CASE own[c] # b
  <2>1. own[c] > own[b]
    BY <1>1, <1>2, <1>4
  <2> QED
    BY <1>0, <2>1 DEF After
<1> QED
  BY <1>3, <1>4

-----------------------------------------------------------------------------
(* The inductive invariant *)

Kinds == /\ ret \in (Keys \X (Vals \cup {NULL})) \cup {NULL}
         /\ visit \in [bucket : Buckets, next : Nodes \cup {NULL},
                       key : Keys \cup {0}, val : Vals \cup {NULL}]
         /\ stage \in {"none", "call", "removed", "added"}
         /\ crashed \in BOOLEAN /\ moved \in BOOLEAN /\ again \in BOOLEAN
         /\ visited \subseteq Keys /\ stays \subseteq Keys /\ missed \subseteq Keys

\* A visit in progress was called for an entry; without one nothing is kept about it.
Underway == /\ stage # "none" => visit.key \in Keys /\ visit.val \in Vals
            /\ stage = "none" => visited = {} /\ stays = {}

\* While no entry has been moved to a first cell, the saved link is one to a cell of
\* this bucket that is in use, the entries visited are not among those ht_visit has
\* still to come to, and those it has to visit are.
OnCourse(own, rank) ==
    stage # "none" /\ ~moved =>
        /\ visit.next # NULL => visit.next \in alloc /\ own[visit.next] = visit.bucket
        /\ \A k \in visited : \E c \in Live \ Remaining(own, rank) : el[c].key = k
        /\ \A k \in stays \ visited : \E c \in Remaining(own, rank) : el[c].key = k
        /\ stage = "call" => visit.key \in visited

IInv == /\ Kinds /\ Underway /\ VisitsExactly
        /\ \E own, rank : Table(own, rank) /\ OnCourse(own, rank)

\* Apart from it: whether ht_remove brought the process down.
DownOK == down \in BOOLEAN

LEMMA DownStaysOK == /\ Init => DownOK
                     /\ DownOK /\ [Next]_vars => DownOK'
<1>1. Init => DownOK
  BY DEF Init, DownOK
<1>2. ASSUME NEW k, Survives(k) PROVE DownOK'
  <2>1. ReadsFreed(k) \in BOOLEAN
    BY DEF ReadsFreed
  <2> QED
    BY <1>2, <2>1 DEF Survives, DownOK
<1>3. ASSUME DownOK, [Next]_vars PROVE DownOK'
  <2>1. CASE \E k \in Keys : Remove(k)
    BY <1>2, <2>1 DEF Remove
  <2>2. CASE ReadsToEnd
    BY <1>2, <2>2 DEF ReadsToEnd
  <2>3. CASE down' = down
    BY <1>3, <2>3 DEF DownOK
  <2> QED
    BY <1>3, <2>1, <2>2, <2>3 DEF Next, Find, Upsert, Reopens, VisitBegins, Advances, vars
<1> QED
  BY <1>1, <1>3

\* ht_create: every bucket is its empty first cell.
LEMMA InitIInv == Init => IInv
<1> SUFFICES ASSUME Init PROVE IInv
  OBVIOUS
<1> DEFINE own == [c \in Cells |-> IF c \in Buckets THEN c ELSE 0]
           rank == [c \in Cells |-> 0]
<1>1. NumBuckets \in Nat /\ NumBuckets > 0 /\ 0 \in Buckets /\ Buckets \subseteq Cells
  BY TableAssumption DEF Buckets, Cells
<1>2. /\ own \in [Cells -> Buckets] /\ rank \in [Cells -> Nat]
      /\ \A b \in Buckets : own[b] = b /\ rank[b] = 0
  BY <1>1
<1>3. Live = Buckets /\ alloc = {}
  BY DEF Init, Live
<1>4. Empty \in Element /\ Empty.key = 0 /\ Empty.val = NULL /\ Empty.next = NULL
  BY DEF Empty, Element
<1>5. \A c \in Cells : el[c] = Empty
  BY DEF Init
<1> HIDE DEF own, rank
<1>6. Layout(own, rank)
  BY <1>1, <1>2, <1>3, <1>4, <1>5 DEF Layout
<1>7. el \in [Cells -> Element]
  BY <1>4 DEF Init
<1>8. Entries(own)
  BY <1>1, <1>2, <1>3, <1>4, <1>5, <1>7 DEF Entries
<1>9. Kinds
  BY <1>1 DEF Init, Kinds, NoVisit
<1>10. Underway /\ VisitsExactly /\ OnCourse(own, rank)
  BY DEF Init, Underway, VisitsExactly, OnCourse
<1> QED
  BY <1>6, <1>8, <1>9, <1>10 DEF IInv, Table

\* What the invariant says of the chains, cell by cell.
LEMMA IInvSuffices == IInv /\ DownOK => ChainsExact
<1> SUFFICES ASSUME IInv, DownOK PROVE ChainsExact
  OBVIOUS
<1>1. PICK own, rank : Table(own, rank)
  BY DEF IInv
<1>2. TypeOK
  BY <1>1 DEF IInv, DownOK, Kinds, Table, Layout, Entries, Element, TypeOK
<1>3. \A b \in Buckets : Chain(b) = {c \in Live : own[c] = b}
  BY <1>1, ChainIs DEF Table
<1>4. /\ \A b \in Buckets : own[b] = b
      /\ \A c \in Live : own[c] \in Buckets
      /\ Buckets \cap alloc = {}
  BY <1>1, CellKinds DEF Table, Layout, Live
<1>5. ASSUME NEW b \in Buckets
      PROVE  /\ Chain(b) \subseteq {b} \cup alloc
             /\ \E c \in Chain(b) : el[c].next = NULL
             /\ el[b].val = NULL => el[b] = Empty
             /\ \A c \in Chain(b) : el[c].val # NULL => Bucket(el[c].key) = b
             /\ \A c, d \in Chain(b) : el[c].key = el[d].key => c = d
  <2>1. Chain(b) \subseteq {b} \cup alloc
    BY <1>3, <1>4 DEF Live
  <2>2. \E c \in Chain(b) : el[c].next = NULL
    BY <1>1, <1>3, LastExists DEF Table
  <2> QED
    BY <1>1, <1>3, <2>1, <2>2 DEF Table, Entries
<1>6. \A b, c \in Buckets : b # c => Chain(b) \cap Chain(c) = {}
  BY <1>3
<1>7. alloc = (UNION {Chain(b) : b \in Buckets}) \ Buckets
  <2>1. UNION {Chain(b) : b \in Buckets} = Live
    BY <1>3, <1>4
  <2>2. alloc = Live \ Buckets
    BY <1>4 DEF Live
  <2> QED
    BY <2>1, <2>2
<1> QED
  BY <1>2, <1>5, <1>6, <1>7 DEF ChainsExact

\* Kinds and Underway are about the visit; calls outside a visit leave it alone.
LEMMA OutsideVisit ==
    ASSUME IInv, Ready, UNCHANGED visitVars, ret' \in (Keys \X (Vals \cup {NULL})) \cup {NULL},
           \E own, rank : Table(own, rank)'
    PROVE  IInv'
<1>1. /\ visit' = visit /\ stage' = stage /\ crashed' = crashed /\ moved' = moved
      /\ visited' = visited /\ again' = again /\ stays' = stays /\ missed' = missed
      /\ stage = "none"
  BY DEF visitVars, Ready
<1>2. Kinds'
  BY <1>1 DEF IInv, Kinds
<1>3. Underway' /\ VisitsExactly'
  BY <1>1 DEF IInv, Underway, VisitsExactly
<1>4. PICK own, rank : Table(own, rank)'
  OBVIOUS
<1>5. OnCourse(own, rank)'
  BY <1>1 DEF OnCourse
<1> QED
  BY <1>2, <1>3, <1>4, <1>5 DEF IInv

\* ht_upsert outside a visit.
LEMMA UpsertKeeps ==
    ASSUME IInv, NEW k \in Keys, NEW v \in Vals, Upsert(k, v)
    PROVE  IInv'
<1>1. PICK own, rank : Table(own, rank)
  BY DEF IInv
<1>2. \E own2, rank2 : Upserted(own, rank, own2, rank2, k, v)
  BY <1>1, UpsertEffect DEF Upsert
<1>3. \E own2, rank2 : Table(own2, rank2)'
  BY <1>2 DEF Upserted
<1> QED
  BY <1>3, OutsideVisit DEF Upsert

\* ht_remove outside a visit.
LEMMA RemoveKeeps ==
    ASSUME IInv, NEW k \in Keys, Remove(k)
    PROVE  IInv'
<1>1. PICK own, rank : Table(own, rank)
  BY DEF IInv
<1>2. \E rank2 : Removed(own, rank, rank2, k)
  BY <1>1, RemoveEffect DEF Remove
<1>3. \E own2, rank2 : Table(own2, rank2)'
  BY <1>2 DEF Removed
<1> QED
  BY <1>3, OutsideVisit DEF Remove

\* What a lookup returns.
LEMMA FindReturns ==
    ASSUME NEW own, NEW rank, Table(own, rank), NEW k \in Keys
    PROVE  ht_find(k) = Contents[k] /\ ht_find(k) \in Vals \cup {NULL}
<1>1. ContentsExact
  BY ContentsIs
<1>2. CASE \E c : HoldsKey(c, k)
  <2>1. PICK c : HoldsKey(c, k)
    BY <1>2
  <2> QED
    BY <1>1, <2>1, CellOfKey DEF ContentsExact
<1>3. CASE \A c : ~HoldsKey(c, k)
  BY <1>1, <1>3 DEF ContentsExact
<1> QED
  BY <1>2, <1>3

\* ht_find changes no cell, and returns a value or NULL.
LEMMA FindKeeps ==
    ASSUME IInv, NEW k \in Keys, Find(k)
    PROVE  IInv'
<1>1. PICK own, rank : Table(own, rank)
  BY DEF IInv
<1>2. el' = el /\ alloc' = alloc
  BY DEF Find
<1>3. Table(own, rank)'
  BY <1>1, <1>2 DEF Table, Layout, Entries, Live
<1>4. ret' \in Keys \X (Vals \cup {NULL})
  BY <1>1, FindReturns DEF Find
<1> QED
  BY <1>3, <1>4, OutsideVisit DEF Find

-----------------------------------------------------------------------------
(* The steps of a visit keep the invariant *)

\* Only the cells of the entries change: the visit goes on as it was.
LEMMA ReopensKeeps ==
    ASSUME IInv, NEW k \in Keys, Reopens(k)
    PROVE  IInv'
<1>1. PICK own, rank : Table(own, rank) /\ OnCourse(own, rank)
  BY DEF IInv
<1>2. /\ ht_upsert(k, visit.val) /\ stage = "removed" /\ stage' = "added" /\ ret' = NULL
      /\ visit' = visit /\ crashed' = crashed /\ moved' = moved /\ visited' = visited
      /\ again' = again /\ stays' = stays /\ missed' = missed
  BY DEF Reopens
<1>3. visit.key \in Keys /\ visit.val \in Vals
  BY <1>2 DEF IInv, Underway
<1>4. PICK own2, rank2 : Upserted(own, rank, own2, rank2, k, visit.val)
  BY <1>1, <1>2, <1>3, UpsertEffect
<1>5. Kinds'
  BY <1>2 DEF IInv, Kinds
<1>6. Underway' /\ VisitsExactly'
  BY <1>2, <1>3 DEF IInv, Underway, VisitsExactly
<1>7. ASSUME ~moved
      PROVE  /\ visit.next # NULL => visit.next \in alloc' /\ own2[visit.next] = visit.bucket
             /\ \A j \in visited : \E c \in Live' \ Remaining(own2, rank2)' : el'[c].key = j
             /\ \A j \in stays \ visited : \E c \in Remaining(own2, rank2)' : el'[c].key = j
  <2>1. /\ visit.next # NULL => visit.next \in alloc /\ own[visit.next] = visit.bucket
        /\ \A j \in visited : \E c \in Live \ Remaining(own, rank) : el[c].key = j
        /\ \A j \in stays \ visited : \E c \in Remaining(own, rank) : el[c].key = j
    BY <1>1, <1>2, <1>7 DEF OnCourse
  <2>2. /\ alloc \subseteq alloc' /\ Live \subseteq Live' /\ alloc \subseteq Live
        /\ \A c \in Live : own2[c] = own[c] /\ rank2[c] = rank[c]
        /\ \A c \in Live : \A j \in Keys : el[c].key = j => el'[c].key = j
    BY <1>4 DEF Upserted, Live
  <2>3. visit.next # NULL => visit.next \in alloc' /\ own2[visit.next] = visit.bucket
    BY <2>1, <2>2
  <2>4. \A c \in Live : c \in Remaining(own2, rank2)' <=> c \in Remaining(own, rank)
    BY <1>2, <2>1, <2>2 DEF Remaining
  <2>5. visited \subseteq Keys /\ stays \subseteq Keys
    BY DEF IInv, Kinds
  <2>6. \A j \in visited : \E c \in Live' \ Remaining(own2, rank2)' : el'[c].key = j
    BY <2>1, <2>2, <2>4, <2>5
  <2>7. \A c \in Remaining(own, rank) : c \in Live
    BY DEF Remaining
  <2>8. \A j \in stays \ visited : \E c \in Remaining(own2, rank2)' : el'[c].key = j
    BY <2>1, <2>2, <2>4, <2>5, <2>7
  <2> QED
    BY <2>3, <2>6, <2>8
<1>8. OnCourse(own2, rank2)'
  BY <1>2, <1>7 DEF OnCourse
<1> QED
  BY <1>4, <1>5, <1>6, <1>8 DEF IInv, Upserted

\* The entry that leaves is not among those ht_visit has still to come to, so the cell
\* that follows next is not freed; unless the first of several entries leaves.
LEMMA ReadsToEndKeeps == IInv /\ ReadsToEnd => IInv'
<1> SUFFICES ASSUME IInv, ReadsToEnd PROVE IInv'
  OBVIOUS
<1>0. PICK k : k = visit.key
  OBVIOUS
<1>1. PICK own, rank : Table(own, rank) /\ OnCourse(own, rank)
  BY DEF IInv
<1>2. /\ ht_remove(k) /\ stage = "call" /\ stage' = "removed" /\ ret' = NULL
      /\ visit' = visit /\ crashed' = crashed /\ again' = again /\ missed' = missed
      /\ visited' = visited \ {k} /\ stays' = stays \ {k}
  BY <1>0 DEF ReadsToEnd
<1>3. moved' = (moved \/ Moves(k))
  BY <1>0 DEF ReadsToEnd
<1>4. k \in Keys /\ visit.val \in Vals
  BY <1>0, <1>2 DEF IInv, Underway
<1>5. PICK rank2 : Removed(own, rank, rank2, k)
  BY <1>1, <1>2, <1>4, RemoveEffect
<1>6. moved' \in BOOLEAN
  BY <1>3 DEF IInv, Kinds
<1>7. Kinds'
  BY <1>2, <1>6 DEF IInv, Kinds
<1>8. ~moved' => ~moved /\ ~Moves(k)
  BY <1>3
<1>9. Underway'
  BY <1>0, <1>2, <1>4 DEF Underway
<1>10. VisitsExactly'
  BY <1>2, <1>8 DEF IInv, VisitsExactly
<1>11. ASSUME ~moved'
       PROVE  /\ visit.next # NULL => visit.next \in alloc' /\ own[visit.next] = visit.bucket
              /\ \A j \in visited \ {k} : \E c \in Live' \ Remaining(own, rank2)' : el'[c].key = j
              /\ \A j \in (stays \ {k}) \ (visited \ {k}) :
                    \E c \in Remaining(own, rank2)' : el'[c].key = j
  <2>1. /\ visit.next # NULL => visit.next \in alloc /\ own[visit.next] = visit.bucket
        /\ \A j \in visited : \E c \in Live \ Remaining(own, rank) : el[c].key = j
        /\ \A j \in stays \ visited : \E c \in Remaining(own, rank) : el[c].key = j
        /\ k \in visited
    BY <1>0, <1>1, <1>2, <1>8, <1>11 DEF OnCourse
  <2>2. InPlace(own, rank, rank2, k)
    BY <1>5, <1>8, <1>11 DEF Removed
  <2>3. /\ alloc' \subseteq alloc
        /\ \A c \in alloc : el[c].key # k => c \in alloc'
        /\ \A c \in Live : \A j \in Keys : j # k /\ el[c].key = j => el'[c].key = j
        /\ \A c, d \in Live' : own[c] = own[d] => (rank2[c] >= rank2[d] <=> rank[c] >= rank[d])
    BY <2>2 DEF InPlace
  <2>4. \A c \in Live : el[c].key # k => c \in Live'
    BY <2>3 DEF Live
  <2>5. PICK cell \in Live \ Remaining(own, rank) : el[cell].key = k
    BY <2>1
  <2>6. \A c \in Live : el[c].key = k => c = cell
    BY <1>1, <1>4, <2>5, CellOfKey DEF HoldsKey
  <2>7. alloc \subseteq Live /\ Live \subseteq Cells /\ alloc' \subseteq Live' /\ Live' \subseteq Live
    BY <1>1, <2>3, CellKinds DEF Live, Table, Layout
  <2>8. ASSUME visit.next # NULL
        PROVE  visit.next \in alloc' /\ own[visit.next] = visit.bucket
    <3>1. visit.next \in alloc /\ own[visit.next] = visit.bucket /\ visit.next \in Live
      BY <2>1, <2>7, <2>8
    <3>2. rank[visit.next] \in Nat
      BY <1>1, <2>7, <3>1 DEF Table, Layout
    <3>3. visit.next \in Remaining(own, rank)
      BY <2>8, <3>1, <3>2 DEF Remaining
    <3>4. el[visit.next].key # k
      BY <2>5, <2>6, <3>1, <3>3
    <3> QED
      BY <2>3, <3>1, <3>4
  <2>9. ASSUME NEW c \in Live' PROVE c \in Remaining(own, rank2)' <=> c \in Remaining(own, rank)
    <3>1. CASE visit.next = NULL
      BY <1>2, <2>7, <3>1 DEF Remaining
    <3>2. CASE visit.next # NULL
      <4>1. visit.next \in Live' /\ own[visit.next] = visit.bucket
        BY <2>7, <2>8, <3>2
      <4>2. own[c] = visit.bucket =>
               (rank2[c] >= rank2[visit.next] <=> rank[c] >= rank[visit.next])
        BY <2>3, <4>1
      <4> QED
        BY <1>2, <2>7, <4>2 DEF Remaining
    <3> QED
      BY <3>1, <3>2
  <2>10. visited \subseteq Keys /\ stays \subseteq Keys
    BY DEF IInv, Kinds
  <2>11. ASSUME NEW j \in visited \ {k}
         PROVE  \E c \in Live' \ Remaining(own, rank2)' : el'[c].key = j
    <3>1. PICK c \in Live \ Remaining(own, rank) : el[c].key = j
      BY <2>1
    <3>2. c \in Live' /\ el'[c].key = j
      BY <2>3, <2>4, <2>10, <3>1
    <3> QED
      BY <2>9, <3>1, <3>2
  <2>12. ASSUME NEW j \in (stays \ {k}) \ (visited \ {k})
         PROVE  \E c \in Remaining(own, rank2)' : el'[c].key = j
    <3>0. j \in stays \ visited /\ j # k /\ j \in Keys
      BY <2>10
    <3>1. PICK c \in Remaining(own, rank) : el[c].key = j
      BY <2>1, <3>0
    <3>2. c \in Live
      BY <3>1 DEF Remaining
    <3>3. c \in Live' /\ el'[c].key = j
      BY <2>3, <2>4, <3>0, <3>1, <3>2
    <3> QED
      BY <2>9, <3>1, <3>3
  <2> QED
    BY <2>8, <2>11, <2>12
<1>12. OnCourse(own, rank2)'
  BY <1>2, <1>11 DEF OnCourse
<1> QED
  BY <1>5, <1>7, <1>9, <1>10, <1>12 DEF IInv, Removed

VisitKinds == [bucket : Buckets, next : Nodes \cup {NULL}, key : Keys \cup {0},
               val : Vals \cup {NULL}]

\* The visitor is called with a key and a value, even for a cell that was freed.
LEMMA AtKinds ==
    ASSUME NEW own, NEW rank, Table(own, rank), NEW b \in Buckets, NEW n \in Cells,
           el[n].val # NULL
    PROVE  /\ At(b, n) \in VisitKinds
           /\ At(b, n).key = el[n].key /\ el[n].key \in Keys /\ At(b, n).val \in Vals
<1>1. el[n] \in Element /\ el[n].key \in Keys
  BY DEF Table, Entries
<1>2. el[n].val \in Vals /\ el[n].next \in Nodes \cup {NULL}
  BY <1>1 DEF Element
<1> QED
  BY <1>1, <1>2 DEF At, VisitKinds

\* The first call is for the first cell of the first bucket that is not empty.
LEMMA VisitBeginsKeeps == IInv /\ VisitBegins => IInv'
<1> SUFFICES ASSUME IInv, VisitBegins PROVE IInv'
  OBVIOUS
<1>0. PICK b : b = NextBucket(0)
  OBVIOUS
<1>1. PICK own, rank : Table(own, rank)
  BY DEF IInv
<1>2. /\ visit' = At(b, b) /\ visited' = {el[b].key} /\ stage' = "call" /\ stays' = Present
      /\ missed' = {} /\ el' = el /\ alloc' = alloc /\ ret' = ret /\ crashed' = crashed
      /\ Present # {}
  BY <1>0 DEF VisitBegins
<1>3. ~moved' /\ ~again' /\ ~crashed /\ moved' \in BOOLEAN /\ again' \in BOOLEAN
  BY DEF VisitBegins, Ready, Alive
<1>4. Live \subseteq Cells /\ Buckets \subseteq Live /\ \A c \in Live : own[c] \in Nat
  BY <1>1, CellKinds DEF Table, Layout, Live
<1>5. ASSUME NEW k \in Present PROVE k \in Keys /\ \E c \in Live : el[c].key = k
  BY <1>1, MatchesIs DEF Present
<1>6. b # NULL
  <2>1. PICK k \in Present : TRUE
    BY <1>2
  <2>2. PICK c \in Live : el[c].key = k /\ k \in Keys
    BY <1>5
  <2>3. own[c] >= 0 /\ 0 \in Nat
    BY <1>4
  <2> QED
    BY <1>0, <1>1, <2>2, <2>3, NextBucketIs
<1>7. b \in Buckets /\ el[b].key \in Keys /\ el[b].val # NULL
  BY <1>0, <1>1, <1>6, NextBucketIs
<1>8. own[b] = b /\ b \in Live /\ b \in Cells /\ rank[b] = 0
  BY <1>1, <1>4, <1>7 DEF Table, Layout
<1>9. /\ visit' \in VisitKinds /\ visit'.key = el[b].key /\ visit'.val \in Vals
      /\ visit'.bucket = b /\ visit'.next = el[b].next
  <2>1. At(b, b) \in VisitKinds /\ At(b, b).key = el[b].key /\ At(b, b).val \in Vals
    BY <1>1, <1>7, <1>8, AtKinds
  <2> QED
    BY <1>2, <2>1 DEF At
<1>10. Kinds'
  BY <1>2, <1>3, <1>5, <1>7, <1>9 DEF IInv, Kinds, VisitKinds
<1>11. Underway' /\ VisitsExactly'
  BY <1>2, <1>3, <1>7, <1>9 DEF Underway, VisitsExactly
<1>12. Table(own, rank)'
  BY <1>1, <1>2 DEF Table, Layout, Entries, Live
<1>13. Remaining(own, rank)' = After(own, rank, b) /\ Live' = Live
  BY <1>1, <1>2, <1>8, RemainingAt DEF Table, Live
<1>14. el[b].next # NULL => el[b].next \in alloc /\ own[el[b].next] = b
  BY <1>1, <1>8 DEF Table, Layout
<1>15. b \notin After(own, rank, b)
  BY <1>7, <1>8, CellKinds DEF After
<1>16. ASSUME NEW k \in Present \ {el[b].key}
       PROVE  \E c \in After(own, rank, b) : el[c].key = k
  <2>1. PICK c \in Live : el[c].key = k /\ k \in Keys
    BY <1>5
  <2>2. own[c] >= 0 /\ 0 \in Nat
    BY <1>4
  <2>3. c # b
    BY <2>1
  <2>4. c \in After(own, rank, b)
    BY <1>0, <1>1, <1>6, <2>1, <2>2, <2>3, AfterFirst
  <2> QED
    BY <2>1, <2>4
<1>17. OnCourse(own, rank)'
  <2>1. visit'.next # NULL => visit'.next \in alloc' /\ own[visit'.next] = visit'.bucket
    BY <1>2, <1>9, <1>14
  <2>2. \A k \in visited' : \E c \in Live' \ Remaining(own, rank)' : el'[c].key = k
    BY <1>2, <1>8, <1>13, <1>15
  <2>3. \A k \in stays' \ visited' : \E c \in Remaining(own, rank)' : el'[c].key = k
    BY <1>2, <1>13, <1>16
  <2>4. visit'.key \in visited'
    BY <1>2, <1>9
  <2> QED
    BY <2>1, <2>2, <2>3, <2>4 DEF OnCourse
<1> QED
  BY <1>10, <1>11, <1>12, <1>17 DEF IInv

\* The visitor is called for cell n, the next that holds an entry.
LEMMA CallsKeeps ==
    ASSUME IInv, NEW own, NEW rank, Table(own, rank), OnCourse(own, rank), stage # "none",
           NEW n \in Cells, el[n].val # NULL, NEW b \in Buckets, Calls(b, n),
           el' = el, alloc' = alloc, ret' = ret, moved' = moved, crashed' = crashed,
           ~moved => /\ n \in Remaining(own, rank) /\ own[n] = b
                     /\ After(own, rank, n) \subseteq Remaining(own, rank)
                     /\ \A c \in Remaining(own, rank) : el[c].key \in Keys /\ c # n =>
                           c \in After(own, rank, n)
    PROVE  IInv'
<1>0. PICK k : k = el[n].key
  OBVIOUS
<1>1. /\ visit' = At(b, n) /\ stage' = "call" /\ visited' = visited \cup {k}
      /\ stays' = stays /\ missed' = missed
  BY <1>0 DEF Calls
<1>2. again' = (again \/ k \in visited)
  BY <1>0 DEF Calls
<1>3. again' \in BOOLEAN
  BY <1>2 DEF IInv, Kinds
<1>4. /\ visit' \in VisitKinds /\ visit'.key = k /\ k \in Keys /\ visit'.val \in Vals
      /\ visit'.bucket = b /\ visit'.next = el[n].next
  <2>1. At(b, n) \in VisitKinds /\ At(b, n).key = k /\ k \in Keys /\ At(b, n).val \in Vals
    BY <1>0, AtKinds
  <2> QED
    BY <1>1, <2>1 DEF At
<1>5. Kinds'
  BY <1>1, <1>3, <1>4 DEF IInv, Kinds, VisitKinds
<1>6. Underway'
  BY <1>1, <1>4 DEF Underway
<1>7. Table(own, rank)' /\ Live' = Live
  BY DEF Table, Layout, Entries, Live
<1>8. ASSUME ~moved
      PROVE  /\ k \notin visited
             /\ visit'.next # NULL => visit'.next \in alloc' /\ own[visit'.next] = visit'.bucket
             /\ \A j \in visited' : \E c \in Live' \ Remaining(own, rank)' : el'[c].key = j
             /\ \A j \in stays' \ visited' : \E c \in Remaining(own, rank)' : el'[c].key = j
  <2>1. /\ n \in Live /\ own[n] = b
    BY <1>8 DEF Remaining
  <2>2. Remaining(own, rank)' = After(own, rank, n)
    BY <1>1, <2>1, RemainingAt DEF Table
  <2>3. /\ \A j \in visited : \E c \in Live \ Remaining(own, rank) : el[c].key = j
        /\ \A j \in stays \ visited : \E c \in Remaining(own, rank) : el[c].key = j
    BY <1>8 DEF OnCourse
  <2>4. \A c \in Live : el[c].key = k => c = n
    BY <1>0, <1>4, <2>1, CellOfKey DEF HoldsKey
  <2>5. k \notin visited
    BY <1>8, <2>3, <2>4
  <2>6. n \notin After(own, rank, n)
    <3>1. own[n] \in Nat /\ rank[n] \in Nat
      BY CellKinds DEF Table, Layout
    <3>2. ~(own[n] > own[n]) /\ ~(rank[n] > rank[n])
      BY <3>1
    <3> QED
      BY <3>2 DEF After
  <2>7. \A j \in visited' : \E c \in Live' \ Remaining(own, rank)' : el'[c].key = j
    <3>1. \E c \in Live \ After(own, rank, n) : el[c].key = k
      BY <1>0, <2>1, <2>6
    <3>2. \A j \in visited : \E c \in Live \ After(own, rank, n) : el[c].key = j
      BY <1>8, <2>3
    <3> QED
      BY <1>1, <1>7, <2>2, <3>1, <3>2
  <2>8. ASSUME NEW j \in stays \ (visited \cup {k})
        PROVE  \E c \in After(own, rank, n) : el[c].key = j
    <3>1. PICK c \in Remaining(own, rank) : el[c].key = j
      BY <2>3
    <3>2. c # n /\ j \in Keys
      BY <1>0, <3>1 DEF IInv, Kinds
    <3> QED
      BY <1>8, <3>1, <3>2
  <2>9. el[n].next # NULL => el[n].next \in alloc /\ own[el[n].next] = b
    BY <2>1 DEF Table, Layout
  <2> QED
    BY <1>1, <1>4, <2>2, <2>5, <2>7, <2>8, <2>9
<1>9. VisitsExactly'
  <2>1. ~moved => missed' = {} /\ ~crashed'
    BY <1>1 DEF IInv, VisitsExactly
  <2>2. ~moved => ~again /\ k \notin visited
    BY <1>8 DEF IInv, VisitsExactly
  <2>3. ~moved => ~again'
    BY <1>2, <2>2
  <2> QED
    BY <2>1, <2>3 DEF VisitsExactly
<1>10. OnCourse(own, rank)'
  <2>1. visit'.key \in visited'
    BY <1>1, <1>4
  <2> QED
    BY <1>8, <2>1 DEF OnCourse
<1> QED
  BY <1>5, <1>6, <1>7, <1>9, <1>10 DEF IInv

\* The saved link leads to the next cell.
LEMMA FollowsLink ==
    ASSUME IInv, NEW own, NEW rank, Table(own, rank), OnCourse(own, rank), stage # "none",
           visit.next # NULL, el[visit.next].val # NULL, Calls(visit.bucket, visit.next),
           el' = el, alloc' = alloc, ret' = ret, moved' = moved, crashed' = crashed
    PROVE  IInv'
<1>0. PICK n, b : n = visit.next /\ b = visit.bucket
  OBVIOUS
<1>1. n \in Cells /\ b \in Buckets
  BY <1>0 DEF IInv, Kinds, Cells
<1>2. ASSUME ~moved
      PROVE  /\ n \in Remaining(own, rank) /\ own[n] = b
             /\ After(own, rank, n) \subseteq Remaining(own, rank)
             /\ \A c \in Remaining(own, rank) : el[c].key \in Keys /\ c # n =>
                   c \in After(own, rank, n)
  <2>1. n \in alloc /\ own[n] = b
    BY <1>0, <1>2 DEF OnCourse
  <2>2. n \in Live /\ \A c \in Live : rank[c] \in Nat
    BY <2>1, CellKinds DEF Live, Table, Layout
  <2>3. Remaining(own, rank) = {c \in Live : own[c] > b \/ (own[c] = b /\ rank[c] >= rank[n])}
    BY <1>0 DEF Remaining
  <2>4. After(own, rank, n) = {c \in Live : own[c] > b \/ (own[c] = b /\ rank[c] > rank[n])}
    BY <2>1 DEF After
  <2>5. n \in Remaining(own, rank)
    BY <2>1, <2>2, <2>3
  <2>6. \A c \in Live : own[c] = b /\ rank[c] = rank[n] => c = n
    BY <2>1, <2>2 DEF Table, Layout
  <2>7. \A c \in Live : /\ rank[c] > rank[n] => rank[c] >= rank[n]
                        /\ rank[c] >= rank[n] => rank[c] > rank[n] \/ rank[c] = rank[n]
    BY <2>2
  <2> QED
    BY <2>1, <2>3, <2>4, <2>5, <2>6, <2>7
<1>3. el[n].val # NULL /\ Calls(b, n)
  BY <1>0
<1> QED
  BY <1>1, <1>2, <1>3, CallsKeeps

\* Without a saved link, the visit goes on in the next bucket that is not empty.
LEMMA FollowsBuckets ==
    ASSUME IInv, NEW own, NEW rank, Table(own, rank), OnCourse(own, rank), stage # "none",
           visit.next = NULL \/ el[visit.next].val = NULL,
           NEW b, b = NextBucket(visit.bucket + 1), b # NULL, Calls(b, b),
           el' = el, alloc' = alloc, ret' = ret, moved' = moved, crashed' = crashed
    PROVE  IInv'
<1>0. PICK a : a = visit.bucket
  OBVIOUS
<1>1. a \in Nat /\ a + 1 \in Nat /\ b = NextBucket(a + 1)
  <2>1. a \in Nat
    BY <1>0, CellKinds DEF IInv, Kinds
  <2> QED
    BY <1>0, <2>1
<1>2. b \in Buckets /\ b >= a + 1 /\ el[b].val # NULL
  BY <1>1, NextBucketIs
<1>3. b \in Cells /\ b \in Live /\ b \in Nat /\ own[b] = b /\ \A c \in Live : own[c] \in Nat
  BY <1>2, CellKinds DEF Cells, Live, Table, Layout
<1>4. ASSUME ~moved
      PROVE  /\ b \in Remaining(own, rank) /\ own[b] = b
             /\ After(own, rank, b) \subseteq Remaining(own, rank)
             /\ \A c \in Remaining(own, rank) : el[c].key \in Keys /\ c # b =>
                   c \in After(own, rank, b)
  <2>1. visit.next = NULL
    BY <1>4 DEF OnCourse, Table, Entries
  <2>2. Remaining(own, rank) = {c \in Live : own[c] > a}
    BY <1>0, <2>1 DEF Remaining
  <2>3. b \in Remaining(own, rank)
    BY <1>1, <1>2, <1>3, <2>2
  <2>4. ASSUME NEW c \in After(own, rank, b) PROVE c \in Remaining(own, rank)
    <3>1. c \in Live /\ (own[c] > b \/ own[c] = b)
      BY <1>3 DEF After
    <3>2. own[c] > a
      BY <1>1, <1>2, <1>3, <3>1
    <3> QED
      BY <2>2, <3>1, <3>2
  <2>5. ASSUME NEW c \in Remaining(own, rank), el[c].key \in Keys, c # b
        PROVE  c \in After(own, rank, b)
    <3>0. c \in Live /\ own[c] > a
      BY <2>2
    <3>1. c \in Live /\ own[c] >= a + 1
      BY <1>1, <1>3, <3>0
    <3> QED
      BY <1>1, <2>5, <3>1, AfterFirst
  <2> QED
    BY <1>3, <2>3, <2>4, <2>5
<1> QED
  BY <1>2, <1>3, <1>4, CallsKeeps

\* When neither is there, every entry that stayed was visited.
LEMMA EndsKeeps ==
    ASSUME IInv, NEW own, NEW rank, Table(own, rank), OnCourse(own, rank), stage # "none",
           visit.next = NULL \/ el[visit.next].val = NULL,
           NextBucket(visit.bucket + 1) = NULL, Ends,
           el' = el, alloc' = alloc, ret' = ret, moved' = moved, crashed' = crashed
    PROVE  IInv'
<1>1. /\ visit' = NoVisit /\ stage' = "none" /\ missed' = stays \ visited
      /\ visited' = {} /\ stays' = {} /\ again' = again
  BY DEF Ends
<1>2. NoVisit \in VisitKinds
  BY TableAssumption DEF NoVisit, VisitKinds, Buckets
<1>3. Kinds'
  BY <1>1, <1>2 DEF IInv, Kinds, VisitKinds
<1>4. Underway'
  BY <1>1 DEF Underway
<1>5. Table(own, rank)'
  BY DEF Table, Layout, Entries, Live
<1>6. OnCourse(own, rank)'
  BY <1>1 DEF OnCourse
<1>7. ASSUME ~moved PROVE stays \ visited = {}
  <2> SUFFICES ASSUME NEW k \in stays \ visited PROVE FALSE
    OBVIOUS
  <2>1. visit.next = NULL
    BY <1>7 DEF OnCourse, Table, Entries
  <2>2. PICK c \in Remaining(own, rank) : el[c].key = k
    BY <1>7 DEF OnCourse
  <2>3. c \in Live /\ own[c] > visit.bucket /\ k \in Keys
    BY <2>1, <2>2 DEF Remaining, IInv, Kinds
  <2>4. own[c] \in Nat /\ visit.bucket \in Nat
    BY <2>3, CellKinds DEF IInv, Kinds, Table, Layout
  <2>5. own[c] >= visit.bucket + 1 /\ visit.bucket + 1 \in Nat
    BY <2>3, <2>4
  <2> QED
    BY <2>2, <2>3, <2>5, NextBucketIs
<1>8. VisitsExactly'
  BY <1>1, <1>7 DEF IInv, VisitsExactly
<1> QED
  BY <1>3, <1>4, <1>5, <1>6, <1>8 DEF IInv

\* The visitor returns and ht_visit goes on, or follows freed memory.
LEMMA AdvancesKeeps == IInv /\ Advances => IInv'
<1> SUFFICES ASSUME IInv, Advances PROVE IInv'
  OBVIOUS
<1>1. PICK own, rank : Table(own, rank) /\ OnCourse(own, rank)
  BY DEF IInv
<1>2. /\ stage # "none" /\ el' = el /\ alloc' = alloc /\ ret' = ret /\ moved' = moved
  BY DEF Advances
<1>3. CASE /\ NextSaved \in Nodes \ alloc /\ crashed' = TRUE
           /\ UNCHANGED <<visit, stage, visited, again, stays, missed>>
  <2>1. /\ visit' = visit /\ stage' = stage /\ visited' = visited /\ again' = again
        /\ stays' = stays /\ missed' = missed /\ visit.next \in Nodes \ alloc
    BY <1>3 DEF NextSaved
  <2>2. visit.next # NULL
    BY <2>1, TableAssumption
  <2>3. moved
    BY <1>1, <1>2, <2>1, <2>2 DEF OnCourse
  <2>4. crashed' \in BOOLEAN
    BY <1>3
  <2>5. Kinds'
    BY <1>2, <2>1, <2>4 DEF IInv, Kinds
  <2>6. Underway' /\ VisitsExactly' /\ OnCourse(own, rank)'
    BY <1>2, <2>1, <2>3 DEF IInv, Underway, VisitsExactly, OnCourse
  <2>7. Table(own, rank)'
    BY <1>1, <1>2 DEF Table, Layout, Entries, Live
  <2> QED
    BY <2>5, <2>6, <2>7 DEF IInv
<1>4. CASE /\ crashed' = crashed
           /\ LET b == NextBucket(visit.bucket + 1) IN
                IF NextSaved # NULL /\ el[NextSaved].val # NULL
                THEN Calls(visit.bucket, NextSaved)
                ELSE IF b # NULL THEN Calls(b, b) ELSE Ends
  <2>0. PICK b : b = NextBucket(visit.bucket + 1)
    OBVIOUS
  <2>1. CASE visit.next # NULL /\ el[visit.next].val # NULL
    <3>1. Calls(visit.bucket, visit.next)
      BY <1>4, <2>1 DEF NextSaved
    <3> QED
      BY <1>1, <1>2, <1>4, <2>1, <3>1, FollowsLink
  <2>2. CASE (visit.next = NULL \/ el[visit.next].val = NULL) /\ b # NULL
    <3>1. Calls(b, b)
      BY <1>4, <2>0, <2>2 DEF NextSaved
    <3> QED
      BY <1>1, <1>2, <1>4, <2>0, <2>2, <3>1, FollowsBuckets
  <2>3. CASE (visit.next = NULL \/ el[visit.next].val = NULL) /\ b = NULL
    <3>1. Ends
      BY <1>4, <2>0, <2>3 DEF NextSaved
    <3> QED
      BY <1>1, <1>2, <1>4, <2>0, <2>3, <3>1, EndsKeeps
  <2> QED
    BY <2>1, <2>2, <2>3
<1> QED
  BY <1>3, <1>4 DEF Advances

\* Every step keeps the invariant.
LEMMA NextIInv == IInv /\ [Next]_vars => IInv'
<1> SUFFICES ASSUME IInv, [Next]_vars PROVE IInv'
  OBVIOUS
<1>1. ASSUME NEW k \in Keys, Find(k) PROVE IInv'
  BY <1>1, FindKeeps
<1>2. ASSUME NEW k \in Keys, Remove(k) PROVE IInv'
  BY <1>2, RemoveKeeps
<1>3. ASSUME NEW k \in Keys, Reopens(k) PROVE IInv'
  BY <1>3, ReopensKeeps
<1>4. ASSUME NEW k \in Keys, NEW v \in Vals, Upsert(k, v) PROVE IInv'
  BY <1>4, UpsertKeeps
<1>5. CASE VisitBegins
  BY <1>5, VisitBeginsKeeps
<1>6. CASE ReadsToEnd
  BY <1>6, ReadsToEndKeeps
<1>7. CASE Advances
  BY <1>7, AdvancesKeeps
<1>8. CASE UNCHANGED vars
  <2>1. /\ el' = el /\ alloc' = alloc /\ ret' = ret /\ visit' = visit /\ stage' = stage
        /\ crashed' = crashed /\ moved' = moved /\ visited' = visited /\ again' = again
        /\ stays' = stays /\ missed' = missed
    BY <1>8 DEF vars, visitVars
  <2>2. PICK own, rank : Table(own, rank) /\ OnCourse(own, rank)
    BY DEF IInv
  <2>3. Table(own, rank)'
    BY <2>1, <2>2 DEF Table, Layout, Entries, Live
  <2>4. OnCourse(own, rank)'
    BY <2>1, <2>2 DEF OnCourse, Remaining, Live
  <2>5. Kinds' /\ Underway' /\ VisitsExactly'
    BY <2>1 DEF IInv, Kinds, Underway, VisitsExactly
  <2> QED
    BY <2>3, <2>4, <2>5 DEF IInv
<1> QED
  BY <1>1, <1>2, <1>3, <1>4, <1>5, <1>6, <1>7, <1>8 DEF Next

\* Whatever is inserted, looked up, removed and visited, and whatever the visitor
\* does: the buckets are disjoint chains of exactly the allocated cells, with every
\* entry in the bucket of its key and no key twice.
THEOREM ChainsStayExact == Spec => []ChainsExact
<1>1. Init => IInv
  BY InitIInv
<1>2. IInv /\ [Next]_vars => IInv'
  BY NextIInv
<1>3. IInv /\ DownOK => ChainsExact
  BY IInvSuffices
<1>4. /\ Init => DownOK
      /\ DownOK /\ [Next]_vars => DownOK'
  BY DownStaysOK
<1> QED
  BY <1>1, <1>2, <1>3, <1>4, PTL DEF Spec

\* Unless a visitor makes ht_remove move an entry to a first cell, ht_visit follows no
\* freed memory and calls the visitor exactly once for every entry that stays.
THEOREM EveryEntryVisited == Spec => []VisitsExactly
<1>1. Init => IInv
  BY InitIInv
<1>2. IInv /\ [Next]_vars => IInv'
  BY NextIInv
<1>3. IInv => VisitsExactly
  BY DEF IInv
<1> QED
  BY <1>1, <1>2, <1>3, PTL DEF Spec

-----------------------------------------------------------------------------
(* The table is the map its header promises *)

\* ht_create makes an empty map.
LEMMA MapInit == Init => Map!Init
<1> SUFFICES ASSUME Init PROVE Map!Init
  OBVIOUS
<1>1. IInv
  BY InitIInv
<1>2. PICK own, rank : Table(own, rank)
  BY <1>1 DEF IInv
<1>3. ContentsExact
  BY <1>2, ContentsIs
<1>4. ASSUME NEW k \in Keys, NEW c PROVE ~HoldsKey(c, k)
  <2> SUFFICES ASSUME HoldsKey(c, k) PROVE FALSE
    OBVIOUS
  <2>1. c \in Cells
    BY <1>2, CellOfKey
  <2>2. el[c].key = 0
    BY <2>1 DEF Init, Empty
  <2> QED
    BY <2>2, KeyFacts DEF HoldsKey
<1>5. \A k \in Keys : Contents[k] = NULL
  BY <1>3, <1>4 DEF ContentsExact
<1>6. Contents = [k \in Keys |-> NULL]
  BY <1>5 DEF Contents
<1> QED
  BY <1>6 DEF Init, Map!Init

\* An insertion changes the value of its key only.
LEMMA UpsertMap ==
    ASSUME NEW own, NEW rank, Table(own, rank), NEW k \in Keys, NEW v \in Vals,
           NEW own2, NEW rank2, Upserted(own, rank, own2, rank2, k, v)
    PROVE  Contents' = [Contents EXCEPT ![k] = v]
<1>1. ContentsExact /\ ContentsExact'
  <2>1. Table(own2, rank2)'
    BY DEF Upserted
  <2> QED
    BY <2>1, ContentsIs, ContentsIsPrimed
<1>2. Contents'[k] = v
  <2>1. PICK c \in Live' : el'[c].key = k /\ el'[c].val = v
    BY DEF Upserted
  <2>2. HoldsKey(c, k)'
    BY <2>1 DEF HoldsKey
  <2> QED
    BY <1>1, <2>1, <2>2 DEF ContentsExact
<1>3. ASSUME NEW j \in Keys, j # k PROVE Contents'[j] = Contents[j]
  <2>1. CASE \E c : HoldsKey(c, j)
    <3>1. PICK c : HoldsKey(c, j)
      BY <2>1
    <3>2. c \in Live /\ c \in Live' /\ el'[c].key = j /\ el'[c].val = el[c].val
      BY <1>3, <3>1 DEF HoldsKey, Upserted, Live
    <3>3. HoldsKey(c, j)'
      BY <3>2 DEF HoldsKey
    <3>4. Contents'[j] = el'[c].val
      BY <1>1, <3>3 DEF ContentsExact
    <3>5. Contents[j] = el[c].val
      BY <1>1, <3>1 DEF ContentsExact
    <3> QED
      BY <3>2, <3>4, <3>5
  <2>2. CASE \A c : ~HoldsKey(c, j)
    <3>1. ASSUME NEW c, HoldsKey(c, j)' PROVE FALSE
      <4>1. c \in Live' /\ el'[c].key = j
        BY <3>1 DEF HoldsKey
      <4>2. c \in Live /\ el[c].key = j
        BY <1>3, <4>1 DEF Upserted
      <4> QED
        BY <2>2, <4>2 DEF HoldsKey
    <3>2. Contents'[j] = NULL
      BY <1>1, <3>1 DEF ContentsExact
    <3>3. Contents[j] = NULL
      BY <1>1, <2>2 DEF ContentsExact
    <3> QED
      BY <3>2, <3>3
  <2> QED
    BY <2>1, <2>2
<1>4. Contents = [j \in Keys |-> Contents[j]] /\ Contents' = [j \in Keys |-> Contents'[j]]
  BY DEF Contents
<1> QED
  BY <1>2, <1>3, <1>4

\* A removal takes its key out of the map, and no other.
LEMMA RemoveMap ==
    ASSUME NEW own, NEW rank, Table(own, rank), NEW k \in Keys,
           NEW rank2, Removed(own, rank, rank2, k)
    PROVE  Contents' = [Contents EXCEPT ![k] = NULL]
<1>1. ContentsExact /\ ContentsExact'
  <2>1. Table(own, rank2)'
    BY DEF Removed
  <2> QED
    BY <2>1, ContentsIs, ContentsIsPrimed
<1>2. Contents'[k] = NULL
  <2>1. \A c : ~HoldsKey(c, k)'
    BY DEF HoldsKey, Removed
  <2> QED
    BY <1>1, <2>1 DEF ContentsExact
<1>3. ASSUME NEW j \in Keys, j # k PROVE Contents'[j] = Contents[j]
  <2>1. CASE \E c : HoldsKey(c, j)
    <3>1. PICK c : HoldsKey(c, j)
      BY <2>1
    <3>2. c \in Live /\ el[c].key = j
      BY <3>1 DEF HoldsKey
    <3>3. PICK d \in Live' : el'[d].key = j /\ el'[d].val = el[c].val
      BY <1>3, <3>2 DEF Removed
    <3>4. HoldsKey(d, j)'
      BY <3>3 DEF HoldsKey
    <3>5. Contents'[j] = el'[d].val
      BY <1>1, <3>4 DEF ContentsExact
    <3>6. Contents[j] = el[c].val
      BY <1>1, <3>1 DEF ContentsExact
    <3> QED
      BY <3>3, <3>5, <3>6
  <2>2. CASE \A c : ~HoldsKey(c, j)
    <3>1. ASSUME NEW d, HoldsKey(d, j)' PROVE FALSE
      <4>1. d \in Live' /\ el'[d].key = j
        BY <3>1 DEF HoldsKey
      <4>2. \E c \in Live : el[c].key = j
        BY <4>1 DEF Removed
      <4> QED
        BY <2>2, <4>2 DEF HoldsKey
    <3>2. Contents'[j] = NULL
      BY <1>1, <3>1 DEF ContentsExact
    <3>3. Contents[j] = NULL
      BY <1>1, <2>2 DEF ContentsExact
    <3> QED
      BY <3>2, <3>3
  <2> QED
    BY <2>1, <2>2
<1>4. Contents = [j \in Keys |-> Contents[j]] /\ Contents' = [j \in Keys |-> Contents'[j]]
  BY DEF Contents
<1> QED
  BY <1>2, <1>3, <1>4

\* A step that leaves the cells alone leaves the map alone.
LEMMA SameMap ==
    ASSUME IInv, el' = el, alloc' = alloc
    PROVE  Contents' = Contents
<1>1. PICK own, rank : Table(own, rank)
  BY DEF IInv
<1>2. Table(own, rank)' /\ Live' = Live
  BY <1>1 DEF Table, Layout, Entries, Live
<1>3. ContentsExact /\ ContentsExact'
  BY <1>1, <1>2, ContentsIs, ContentsIsPrimed
<1>4. ASSUME NEW j \in Keys PROVE Contents'[j] = Contents[j]
  <2>1. \A c : HoldsKey(c, j)' <=> HoldsKey(c, j)
    BY <1>2 DEF HoldsKey
  <2>2. CASE \E c : HoldsKey(c, j)
    <3>1. PICK c : HoldsKey(c, j) /\ HoldsKey(c, j)'
      BY <2>1, <2>2
    <3>2. Contents'[j] = el'[c].val
      BY <1>3, <3>1 DEF ContentsExact
    <3>3. Contents[j] = el[c].val
      BY <1>3, <3>1 DEF ContentsExact
    <3> QED
      BY <3>2, <3>3
  <2>3. CASE \A c : ~HoldsKey(c, j)
    <3>1. Contents'[j] = NULL
      BY <1>3, <2>1, <2>3 DEF ContentsExact
    <3>2. Contents[j] = NULL
      BY <1>3, <2>3 DEF ContentsExact
    <3> QED
      BY <3>1, <3>2
  <2> QED
    BY <2>2, <2>3
<1>5. Contents = [j \in Keys |-> Contents[j]] /\ Contents' = [j \in Keys |-> Contents'[j]]
  BY DEF Contents
<1> QED
  BY <1>4, <1>5

\* Every step of the table is a step of the map or leaves it alone.
LEMMA MapNext == IInv /\ [Next]_vars => [Map!Next]_(Map!vars)
<1> SUFFICES ASSUME IInv, [Next]_vars PROVE Map!Next \/ (Contents' = Contents /\ ret' = ret)
  BY DEF Map!vars
<1>1. PICK own, rank : Table(own, rank) /\ OnCourse(own, rank)
  BY DEF IInv
<1>2. ASSUME NEW k \in Keys, NEW v \in Vals, ht_upsert(k, v), ret' = NULL PROVE Map!Next
  <2>1. Contents' = [Contents EXCEPT ![k] = v]
    BY <1>1, <1>2, UpsertEffect, UpsertMap
  <2>2. Map!Upsert(k, v)
    BY <1>2, <2>1 DEF Map!Upsert
  <2> QED
    BY <2>2 DEF Map!Next
<1>3. ASSUME NEW k \in Keys, ht_remove(k), ret' = NULL PROVE Map!Next
  <2>1. Contents' = [Contents EXCEPT ![k] = NULL]
    BY <1>1, <1>3, RemoveEffect, RemoveMap
  <2>2. Map!Remove(k)
    BY <1>3, <2>1 DEF Map!Remove
  <2> QED
    BY <2>2 DEF Map!Next
<1>4. ASSUME NEW k \in Keys, Find(k) PROVE Map!Next
  <2>1. Contents' = Contents /\ ret' = <<k, Contents[k]>>
    BY <1>1, <1>4, SameMap, FindReturns DEF Find
  <2>2. Map!Find(k)
    BY <2>1 DEF Map!Find
  <2> QED
    BY <2>2 DEF Map!Next
<1>5. ASSUME NEW k \in Keys, Remove(k) PROVE Map!Next
  BY <1>3, <1>5 DEF Remove
<1>6. ASSUME NEW k \in Keys, Reopens(k) PROVE Map!Next
  <2>1. visit.val \in Vals
    BY <1>6 DEF Reopens, IInv, Underway
  <2> QED
    BY <1>2, <1>6, <2>1 DEF Reopens
<1>7. ASSUME NEW k \in Keys, NEW v \in Vals, Upsert(k, v) PROVE Map!Next
  BY <1>2, <1>7 DEF Upsert
<1>8. CASE ReadsToEnd
  <2>1. visit.key \in Keys
    BY <1>8 DEF ReadsToEnd, IInv, Underway
  <2> QED
    BY <1>3, <1>8, <2>1 DEF ReadsToEnd
<1>9. CASE VisitBegins \/ Advances \/ UNCHANGED vars
  <2>1. el' = el /\ alloc' = alloc /\ ret' = ret
    BY <1>9 DEF VisitBegins, Advances, vars
  <2> QED
    BY <2>1, SameMap
<1> QED
  BY <1>4, <1>5, <1>6, <1>7, <1>8, <1>9 DEF Next

\* hashtable.c implements the map of hashtable.h: every step of the table, those a
\* visitor causes included, is a step of the map or leaves it alone.
THEOREM TableImplementsMap == Spec => TableIsMap
<1>1. Init => IInv /\ Map!Init
  BY InitIInv, MapInit
<1>2. IInv /\ [Next]_vars => IInv' /\ [Map!Next]_(Map!vars)
  BY NextIInv, MapNext
<1> QED
  BY <1>1, <1>2, PTL DEF Spec, TableIsMap, Map!Spec
=============================================================================
