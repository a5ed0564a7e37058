------------------------- MODULE ActiveList_proofs -------------------------
(***************************************************************************)
(* Proofs about the list of active descriptors, for any number of          *)
(* descriptors of any kinds: what the TAILQ macros do to a well-formed     *)
(* list, that the list is right until one of the operations that misuse it *)
(* has happened, and what a walk that changes the list itself comes to.    *)
(***************************************************************************)
EXTENDS ActiveList, FiniteSetTheorems, TLAPS

LEMMA Constants == NULL \notin D /\ Head \notin D /\ Head # NULL
BY DescriptorsAssumption

-----------------------------------------------------------------------------
(* The TAILQ macros, field by field *)

LEMMA Stored ==
    ASSUME NEW L \in ListType, NEW link \in D \cup {Head}, NEW x \in D \cup {NULL}
    PROVE  LET M == Store(L, link, x) IN
           /\ M \in ListType
           /\ M.last = L.last /\ M.prev = L.prev
           /\ M.first = IF link = Head THEN x ELSE L.first
           /\ M.next = IF link = Head THEN L.next ELSE [L.next EXCEPT ![link] = x]
<1>1. CASE link = Head
  BY <1>1 DEF Store, ListType
<1>2. CASE link # Head
  <2>1. Store(L, link, x) = [L EXCEPT !.next[link] = x] /\ link \in D
    BY <1>2 DEF Store
  <2>2. [L.next EXCEPT ![link] = x] \in [D -> D \cup {NULL}]
    BY <2>1 DEF ListType
  <2> QED
    BY <1>2, <2>1, <2>2 DEF ListType
<1> QED
  BY <1>1, <1>2

LEMMA Inserted ==
    ASSUME NEW L \in ListType, NEW d \in D
    PROVE  LET M == InsertTail(L, d) IN
           /\ M \in ListType
           /\ M.last = d
           /\ M.prev = [L.prev EXCEPT ![d] = L.last]
           /\ M.first = IF L.last = Head THEN d ELSE L.first
           /\ M.next = IF L.last = Head THEN [L.next EXCEPT ![d] = NULL]
                       ELSE [[L.next EXCEPT ![d] = NULL] EXCEPT ![L.last] = d]
<1> DEFINE K == [L EXCEPT !.next[d] = NULL, !.prev[d] = L.last]
           N == Store(K, L.last, d)
<1>1. /\ [L.next EXCEPT ![d] = NULL] \in [D -> D \cup {NULL}]
      /\ [L.prev EXCEPT ![d] = L.last] \in [D -> D \cup {Head, NULL}]
  BY DEF ListType
<1>2. /\ K \in ListType /\ K.first = L.first
      /\ K.next = [L.next EXCEPT ![d] = NULL] /\ K.prev = [L.prev EXCEPT ![d] = L.last]
  BY <1>1 DEF ListType
<1>3. L.last \in D \cup {Head} /\ d \in D \cup {NULL}
  BY DEF ListType
<1> HIDE DEF K
<1>4. /\ N \in ListType /\ N.prev = K.prev
      /\ N.first = IF L.last = Head THEN d ELSE K.first
      /\ N.next = IF L.last = Head THEN K.next ELSE [K.next EXCEPT ![L.last] = d]
  BY <1>2, <1>3, Stored
<1>5. InsertTail(L, d) = [N EXCEPT !.last = d]
  BY DEF InsertTail, K
<1> HIDE DEF N
<1> QED
  BY <1>2, <1>4, <1>5 DEF ListType

LEMMA Removed ==
    ASSUME NEW L \in ListType, NEW d \in D, L.prev[d] # NULL
    PROVE  LET M == Remove(L, d) IN
           /\ M \in ListType
           /\ M.last = IF L.next[d] = NULL THEN L.prev[d] ELSE L.last
           /\ M.prev = IF L.next[d] = NULL THEN L.prev
                       ELSE [L.prev EXCEPT ![L.next[d]] = L.prev[d]]
           /\ M.first = IF L.prev[d] = Head THEN L.next[d] ELSE L.first
           /\ M.next = IF L.prev[d] = Head THEN L.next
                       ELSE [L.next EXCEPT ![L.prev[d]] = L.next[d]]
<1> DEFINE K == IF L.next[d] # NULL THEN [L EXCEPT !.prev[L.next[d]] = L.prev[d]]
                ELSE [L EXCEPT !.last = L.prev[d]]
<1>1. L.prev[d] \in D \cup {Head} /\ L.next[d] \in D \cup {NULL}
  BY DEF ListType
<1>2. /\ K \in ListType /\ K.first = L.first /\ K.next = L.next
      /\ K.last = IF L.next[d] = NULL THEN L.prev[d] ELSE L.last
      /\ K.prev = IF L.next[d] = NULL THEN L.prev
                  ELSE [L.prev EXCEPT ![L.next[d]] = L.prev[d]]
  <2>1. CASE L.next[d] = NULL
    BY <1>1, <2>1 DEF ListType
  <2>2. CASE L.next[d] # NULL
    <3>1. [L.prev EXCEPT ![L.next[d]] = L.prev[d]] \in [D -> D \cup {Head, NULL}]
      BY <1>1, <2>2 DEF ListType
    <3> QED
      BY <1>1, <2>2, <3>1 DEF ListType
  <2> QED
    BY <2>1, <2>2
<1>3. Remove(L, d) = Store(K, L.prev[d], L.next[d])
  BY DEF Remove
<1> HIDE DEF K
<1> DEFINE p == L.prev[d]
           x == L.next[d]
           M == Store(K, p, x)
<1>4. p \in D \cup {Head} /\ x \in D \cup {NULL}
  BY <1>1
<1> HIDE DEF p, x
<1>5. /\ M \in ListType
      /\ M.last = K.last /\ M.prev = K.prev
      /\ M.first = IF p = Head THEN x ELSE K.first
      /\ M.next = IF p = Head THEN K.next ELSE [K.next EXCEPT ![p] = x]
  BY <1>2, <1>4, Stored
<1> HIDE DEF M
<1> QED
  BY <1>2, <1>3, <1>5 DEF M, p, x

-----------------------------------------------------------------------------
(* Well-formed lists *)

\* L is the list of the elements of S, in the order f.
Lists(L, n, f, S) == /\ f \in [1 .. n -> S]
                     /\ \A d \in S : \E i \in 1 .. n : f[i] = d
                     /\ IsList(L, n, f)

\* TAILQ_INSERT_TAIL of an element that is not in the list.
LEMMA InsertList ==
    ASSUME NEW L \in ListType, NEW S \in SUBSET D, NEW n \in Nat, NEW f, Lists(L, n, f, S),
           NEW d \in D \ S
    PROVE  Lists(InsertTail(L, d), n + 1, [i \in 1 .. n + 1 |-> IF i = n + 1 THEN d ELSE f[i]],
                 S \cup {d})
<1> DEFINE M == InsertTail(L, d)
           g == [i \in 1 .. n + 1 |-> IF i = n + 1 THEN d ELSE f[i]]
<1>1. /\ M \in ListType
      /\ M.last = d
      /\ M.prev = [L.prev EXCEPT ![d] = L.last]
      /\ M.first = IF L.last = Head THEN d ELSE L.first
      /\ M.next = IF L.last = Head THEN [L.next EXCEPT ![d] = NULL]
                  ELSE [[L.next EXCEPT ![d] = NULL] EXCEPT ![L.last] = d]
  BY Inserted
<1>2. /\ \A i \in 1 .. n : f[i] \in S /\ f[i] \in D /\ f[i] # d
      /\ \A i, j \in 1 .. n : f[i] = f[j] => i = j
      /\ \A s \in S : \E i \in 1 .. n : f[i] = s
      /\ L.first = IF n = 0 THEN NULL ELSE f[1]
      /\ L.last = IF n = 0 THEN Head ELSE f[n]
      /\ \A i \in 1 .. n : /\ L.next[f[i]] = IF i = n THEN NULL ELSE f[i + 1]
                           /\ L.prev[f[i]] = IF i = 1 THEN Head ELSE f[i - 1]
  BY DEF Lists, IsList
<1>3. /\ g[n + 1] = d /\ \A i \in 1 .. n : g[i] = f[i]
      /\ \A i \in 1 .. n + 1 : i \in 1 .. n \/ i = n + 1
      /\ 1 .. n \subseteq 1 .. n + 1 /\ n + 1 \in 1 .. n + 1
      /\ n + 1 # 0 /\ \A i \in 1 .. n : i # n + 1
  OBVIOUS
<1>4. g \in [1 .. n + 1 -> S \cup {d}]
  BY <1>2, <1>3
<1> HIDE DEF M, g
<1>5. \A s \in S \cup {d} : \E i \in 1 .. n + 1 : g[i] = s
  BY <1>2, <1>3
<1>6. \A i, j \in 1 .. n + 1 : g[i] = g[j] => i = j
  BY <1>2, <1>3
<1>7. /\ L.prev \in [D -> D \cup {Head, NULL}] /\ L.next \in [D -> D \cup {NULL}]
  BY DEF ListType
<1>8. CASE n = 0
  <2>1. L.last = Head /\ 1 .. n + 1 = {1} /\ g[1] = d
    BY <1>2, <1>3, <1>8
  <2>2. M.first = d /\ M.last = d /\ M.next[d] = NULL /\ M.prev[d] = Head
    BY <1>1, <1>7, <2>1
  <2>3. IsList(M, n + 1, g)
    BY <1>6, <1>8, <2>1, <2>2 DEF IsList
  <2> QED
    BY <1>4, <1>5, <2>3 DEF Lists, M, g
<1>9. CASE n > 0
  <2>1. n \in 1 .. n /\ 1 \in 1 .. n /\ n # 0
    BY <1>9
  <2>2. L.last = f[n] /\ f[n] \in D /\ f[n] # d /\ L.last # Head /\ L.first = f[1]
    BY <1>2, <2>1, Constants
  <2>3. M.first = g[1] /\ M.last = g[n + 1]
    BY <1>1, <1>3, <2>1, <2>2
  <2>4. M.next[d] = NULL /\ M.prev[d] = g[n] /\ M.next[f[n]] = d
    BY <1>1, <1>3, <1>7, <2>1, <2>2
  <2>5. ASSUME NEW i \in 1 .. n
        PROVE  M.prev[f[i]] = L.prev[f[i]] /\ (i # n => M.next[f[i]] = L.next[f[i]])
    <3>1. f[i] \in D /\ f[i] # d /\ (i # n => f[i] # f[n])
      BY <1>2, <2>1
    <3> QED
      BY <1>1, <1>7, <2>2, <3>1
  <2>6. ASSUME NEW i \in 1 .. n
        PROVE  /\ M.next[g[i]] = g[i + 1]
               /\ M.prev[g[i]] = IF i = 1 THEN Head ELSE g[i - 1]
    <3>1. g[i] = f[i]
      BY <1>3
    <3>2. M.prev[f[i]] = IF i = 1 THEN Head ELSE g[i - 1]
      <4>1. i # 1 => i - 1 \in 1 .. n
        OBVIOUS
      <4> QED
        BY <1>2, <1>3, <2>5, <4>1
    <3>3. CASE i = n
      BY <1>3, <2>4, <3>1, <3>2, <3>3
    <3>4. CASE i # n
      <4>1. i + 1 \in 1 .. n
        BY <3>4
      <4> QED
        BY <1>2, <1>3, <2>5, <3>1, <3>2, <3>4, <4>1
    <3> QED
      BY <3>3, <3>4
  <2>7. n + 1 # 1 /\ (n + 1) - 1 = n
    BY <2>1
  <2>8. \A i \in 1 .. n + 1 : /\ M.next[g[i]] = IF i = n + 1 THEN NULL ELSE g[i + 1]
                              /\ M.prev[g[i]] = IF i = 1 THEN Head ELSE g[i - 1]
    BY <1>3, <2>4, <2>6, <2>7
  <2>9. IsList(M, n + 1, g)
    BY <1>3, <1>6, <2>3, <2>8 DEF IsList
  <2> QED
    BY <1>4, <1>5, <2>9 DEF Lists, M, g
<1> QED
  BY <1>8, <1>9

\* TAILQ_REMOVE of the k-th element.
LEMMA RemoveList ==
    ASSUME NEW L \in ListType, NEW S \in SUBSET D, NEW n \in Nat, NEW f, Lists(L, n, f, S),
           NEW k \in 1 .. n
    PROVE  /\ L.prev[f[k]] # NULL
           /\ Lists(Remove(L, f[k]), n - 1,
                    [i \in 1 .. n - 1 |-> IF i < k THEN f[i] ELSE f[i + 1]], S \ {f[k]})
<1> DEFINE d == f[k]
           M == Remove(L, d)
           g == [i \in 1 .. n - 1 |-> IF i < k THEN f[i] ELSE f[i + 1]]
<1>1. /\ \A i \in 1 .. n : f[i] \in S /\ f[i] \in D
      /\ \A i, j \in 1 .. n : f[i] = f[j] => i = j
      /\ \A s \in S : \E i \in 1 .. n : f[i] = s
      /\ L.first = IF n = 0 THEN NULL ELSE f[1]
      /\ L.last = IF n = 0 THEN Head ELSE f[n]
      /\ \A i \in 1 .. n : /\ L.next[f[i]] = IF i = n THEN NULL ELSE f[i + 1]
                           /\ L.prev[f[i]] = IF i = 1 THEN Head ELSE f[i - 1]
  BY DEF Lists, IsList
<1>2. /\ d \in D /\ L.next[d] = IF k = n THEN NULL ELSE f[k + 1]
      /\ L.prev[d] = IF k = 1 THEN Head ELSE f[k - 1]
  BY <1>1
<1>3. /\ k # n => k + 1 \in 1 .. n /\ f[k + 1] \in D /\ f[k + 1] # NULL
      /\ k # 1 => k - 1 \in 1 .. n /\ f[k - 1] \in D /\ f[k - 1] # NULL /\ f[k - 1] # Head
  <2>1. (k # n => k + 1 \in 1 .. n) /\ (k # 1 => k - 1 \in 1 .. n)
    OBVIOUS
  <2> QED
    BY <1>1, <2>1, Constants
<1>4. L.prev[d] # NULL /\ (L.prev[d] = Head <=> k = 1) /\ (L.next[d] = NULL <=> k = n)
  BY <1>2, <1>3, Constants
<1>5. /\ M \in ListType
      /\ M.last = IF k = n THEN L.prev[d] ELSE L.last
      /\ M.prev = IF k = n THEN L.prev ELSE [L.prev EXCEPT ![f[k + 1]] = L.prev[d]]
      /\ M.first = IF k = 1 THEN L.next[d] ELSE L.first
      /\ M.next = IF k = 1 THEN L.next ELSE [L.next EXCEPT ![f[k - 1]] = L.next[d]]
  <2> HIDE DEF d
  <2>1. /\ M \in ListType
        /\ M.last = IF L.next[d] = NULL THEN L.prev[d] ELSE L.last
        /\ M.prev = IF L.next[d] = NULL THEN L.prev
                    ELSE [L.prev EXCEPT ![L.next[d]] = L.prev[d]]
        /\ M.first = IF L.prev[d] = Head THEN L.next[d] ELSE L.first
        /\ M.next = IF L.prev[d] = Head THEN L.next
                    ELSE [L.next EXCEPT ![L.prev[d]] = L.next[d]]
    BY <1>2, <1>4, Removed
  <2> HIDE DEF M
  <2> QED
    BY <1>2, <1>4, <2>1
<1>6. L.prev \in [D -> D \cup {Head, NULL}] /\ L.next \in [D -> D \cup {NULL}]
  BY DEF ListType
<1>7. \A i \in 1 .. n - 1 : /\ i < k => g[i] = f[i] /\ i \in 1 .. n
                            /\ ~(i < k) => g[i] = f[i + 1] /\ i + 1 \in 1 .. n
  OBVIOUS
<1>8. g \in [1 .. n - 1 -> S \ {d}]
  <2> SUFFICES ASSUME NEW i \in 1 .. n - 1 PROVE (IF i < k THEN f[i] ELSE f[i + 1]) \in S \ {d}
    OBVIOUS
  <2>1. i \in 1 .. n /\ i + 1 \in 1 .. n /\ (i < k => i # k) /\ (~(i < k) => i + 1 # k)
    OBVIOUS
  <2> QED
    BY <1>1, <2>1
<1> HIDE DEF M, g
<1>9. \A s \in S \ {d} : \E i \in 1 .. n - 1 : g[i] = s
  <2> SUFFICES ASSUME NEW s \in S, s # d PROVE \E i \in 1 .. n - 1 : g[i] = s
    OBVIOUS
  <2>1. PICK j \in 1 .. n : f[j] = s
    BY <1>1
  <2>2. CASE j < k
    <3>1. j \in 1 .. n - 1
      BY <2>2
    <3> QED
      BY <1>7, <2>1, <2>2, <3>1
  <2>3. CASE j > k
    <3>1. j - 1 \in 1 .. n - 1 /\ ~(j - 1 < k) /\ (j - 1) + 1 = j
      BY <2>3
    <3>2. g[j - 1] = f[j]
      BY <1>7, <3>1
    <3> QED
      BY <2>1, <3>1, <3>2
  <2> QED
    BY <2>1, <2>2, <2>3
<1>10. \A i, j \in 1 .. n - 1 : g[i] = g[j] => i = j
  <2> SUFFICES ASSUME NEW i \in 1 .. n - 1, NEW j \in 1 .. n - 1, g[i] = g[j] PROVE i = j
    OBVIOUS
  <2> DEFINE a == IF i < k THEN i ELSE i + 1
             b == IF j < k THEN j ELSE j + 1
  <2>1. a \in 1 .. n /\ b \in 1 .. n /\ (a = b => i = j)
    OBVIOUS
  <2>2. g[i] = f[a] /\ g[j] = f[b]
    BY <1>7
  <2> HIDE DEF a, b
  <2>3. \A x, y \in 1 .. n : f[x] = f[y] => x = y
    BY <1>1
  <2>4. a = b
    BY <2>1, <2>2, <2>3, Zenon
  <2> QED
    BY <2>1, <2>4
<1>11. M.first = IF n - 1 = 0 THEN NULL ELSE g[1]
  <2>1. CASE n = 1
    BY <1>1, <1>2, <1>5, <2>1
  <2>2. CASE n # 1 /\ k = 1
    <3>1. 1 \in 1 .. n - 1 /\ ~(1 < k) /\ k # n /\ n - 1 # 0
      BY <2>2
    <3> QED
      BY <1>2, <1>5, <1>7, <2>2, <3>1
  <2>3. CASE n # 1 /\ k # 1
    <3>1. 1 \in 1 .. n - 1 /\ 1 < k /\ n # 0 /\ n - 1 # 0
      BY <2>3
    <3> QED
      BY <1>1, <1>5, <1>7, <2>3, <3>1
  <2> QED
    BY <2>1, <2>2, <2>3
<1>12. M.last = IF n - 1 = 0 THEN Head ELSE g[n - 1]
  <2>1. CASE n = 1
    BY <1>2, <1>5, <2>1
  <2>2. CASE n # 1 /\ k = n
    <3>1. n - 1 \in 1 .. n - 1 /\ n - 1 < k /\ k # 1 /\ n - 1 # 0
      BY <2>2
    <3>2. M.last = f[k - 1] /\ g[n - 1] = f[n - 1]
      BY <1>2, <1>5, <1>7, <2>2, <3>1
    <3> QED
      BY <2>2, <3>1, <3>2
  <2>3. CASE n # 1 /\ k # n
    <3>1. n - 1 \in 1 .. n - 1 /\ ~(n - 1 < k) /\ (n - 1) + 1 = n /\ n # 0 /\ n - 1 # 0
      BY <2>3
    <3> QED
      BY <1>1, <1>5, <1>7, <2>3, <3>1
  <2> QED
    BY <2>1, <2>2, <2>3
<1>13. ASSUME NEW i \in 1 .. n, i # k
       PROVE  /\ i # k - 1 => M.next[f[i]] = L.next[f[i]]
              /\ k # 1 /\ i = k - 1 => M.next[f[i]] = L.next[d]
              /\ i # k + 1 => M.prev[f[i]] = L.prev[f[i]]
              /\ k # n /\ i = k + 1 => M.prev[f[i]] = L.prev[d]
  <2>1. f[i] \in D
    BY <1>1
  <2>2. k # 1 /\ i # k - 1 => f[i] # f[k - 1]
    BY <1>1, <1>3
  <2>3. k # n /\ i # k + 1 => f[i] # f[k + 1]
    BY <1>1, <1>3
  <2> QED
    BY <1>3, <1>5, <1>6, <2>1, <2>2, <2>3
<1>14. ASSUME NEW i \in 1 .. n - 1
       PROVE  M.next[g[i]] = IF i = n - 1 THEN NULL ELSE g[i + 1]
  <2>0. i # n - 1 => i + 1 \in 1 .. n - 1
    OBVIOUS
  <2>1. CASE i < k - 1
    <3>1. i \in 1 .. n /\ i # k /\ i # k - 1 /\ i < k /\ i # n - 1 /\ i + 1 < k /\ i # n
      BY <2>1
    <3> QED
      BY <1>1, <1>7, <1>13, <2>0, <3>1
  <2>2. CASE i = k - 1
    <3>1. i \in 1 .. n /\ i # k /\ k # 1 /\ i < k /\ (i = n - 1 <=> k = n) /\ ~(i + 1 < k) /\ i + 1 = k
      BY <2>2
    <3>2. M.next[g[i]] = L.next[d]
      BY <1>7, <1>13, <2>2, <3>1
    <3>3. i # n - 1 => g[i + 1] = f[k + 1]
      BY <1>7, <2>0, <3>1
    <3> QED
      BY <1>2, <3>1, <3>2, <3>3
  <2>3. CASE i >= k
    <3>1. /\ i + 1 \in 1 .. n /\ i + 1 # k /\ i + 1 # k - 1 /\ ~(i < k)
          /\ (i = n - 1 <=> i + 1 = n) /\ ~(i + 1 < k)
      BY <2>3
    <3>2. M.next[g[i]] = L.next[f[i + 1]]
      BY <1>7, <1>13, <3>1
    <3>3. i # n - 1 => g[i + 1] = f[i + 1 + 1]
      BY <1>7, <2>0, <3>1
    <3> QED
      BY <1>1, <3>1, <3>2, <3>3
  <2> QED
    BY <2>1, <2>2, <2>3
<1>15. ASSUME NEW i \in 1 .. n - 1
       PROVE  M.prev[g[i]] = IF i = 1 THEN Head ELSE g[i - 1]
  <2>0. i # 1 => i - 1 \in 1 .. n - 1
    OBVIOUS
  <2>1. CASE i < k
    <3>1. i \in 1 .. n /\ i # k /\ i # k + 1 /\ i - 1 < k
      BY <2>1
    <3> QED
      BY <1>1, <1>7, <1>13, <2>0, <2>1, <3>1
  <2>2. CASE i = k
    <3>1. /\ i + 1 \in 1 .. n /\ i + 1 # k /\ i + 1 = k + 1 /\ k # n /\ ~(i < k)
          /\ (i # 1 => i - 1 < k)
      BY <2>2
    <3>2. M.prev[g[i]] = L.prev[d]
      BY <1>7, <1>13, <3>1
    <3>3. i # 1 => g[i - 1] = f[k - 1]
      BY <1>7, <2>0, <2>2, <3>1
    <3> QED
      BY <1>2, <2>2, <3>2, <3>3
  <2>3. CASE i > k
    <3>1. /\ i + 1 \in 1 .. n /\ i + 1 # k /\ i + 1 # k + 1 /\ ~(i < k) /\ i # 1
          /\ ~(i - 1 < k) /\ (i - 1) + 1 = i /\ (i + 1) - 1 = i /\ i + 1 # 1
      BY <2>3
    <3>2. M.prev[g[i]] = L.prev[f[i + 1]]
      BY <1>7, <1>13, <3>1
    <3>3. g[i - 1] = f[i]
      BY <1>7, <2>0, <3>1
    <3> QED
      BY <1>1, <3>1, <3>2, <3>3
  <2> QED
    BY <2>1, <2>2, <2>3
<1>16. IsList(M, n - 1, g)
  BY <1>10, <1>11, <1>12, <1>14, <1>15 DEF IsList
<1> QED
  BY <1>4, <1>8, <1>9, <1>16 DEF Lists, M, g

-----------------------------------------------------------------------------
(* The inductive invariant *)

States == {"NONE", "INIT", "PENDING", "ACTIVE", "DRAIN", "DRAIN_ROTATE", "DEAD", "FREED"}

FlagsOK == walking \in BOOLEAN /\ tick \in BOOLEAN /\ crashed \in BOOLEAN

DataOK == /\ kind \in Configs /\ st \in [D -> States] /\ list \in ListType
          /\ walk \in D \cup {NULL} /\ rotated \subseteq D /\ misuse \subseteq D
          /\ begun \in ListType \cup {NULL} /\ renewed \subseteq D

Listed == {d \in D : st[d] \in {"ACTIVE", "DRAIN", "DRAIN_ROTATE"}}

\* Until the list is misused, it is the list of the active descriptors.
Exact == misuse = {} => \E n \in Nat : \E f \in [1 .. n -> Listed] : Lists(list, n, f, Listed)

\* The rotlogs among the first k elements.
Rotlogs(f, k) == {f[i] : i \in {j \in 1 .. k : kind[f[j]] = "ROTLOG"}}

\* The walk over f[1], ..., f[n] has opened no rotlog anew: the list is as it was, and
\* the walk stands at one of the elements, or at the end.
GoingOn(n, f) ==
    /\ renewed = {} /\ list = begun
    /\ \E p \in 1 .. n + 1 : /\ walk = IF p = n + 1 THEN NULL ELSE f[p]
                             /\ rotated = Rotlogs(f, p - 1)

\* It has opened one anew that was not the last: that one has no successor any more.
CutShort(n, f) ==
    /\ walk = NULL
    /\ \E p \in 1 .. n : renewed = {f[p]} /\ rotated = Rotlogs(f, p)

\* It has opened the last one anew: that one is its own successor.
GoingRound(n, f) ==
    /\ n \in 1 .. n /\ renewed = {f[n]} /\ walk = f[n] /\ kind[f[n]] = "ROTLOG"
    /\ list.next[f[n]] = f[n] /\ list.last = f[n]

\* How a walk that was begun on an intact list stands.
Tracked ==
    begun # NULL =>
        /\ walking
        /\ \E S \in SUBSET D : \E n \in Nat : \E f :
              Lists(begun, n, f, S) /\ (GoingOn(n, f) \/ CutShort(n, f) \/ GoingRound(n, f))

\* A connection that is active without misuse has joined the list.
Linked == \A d \in D : kind[d] = "SOCKETW" /\ st[d] = "ACTIVE" /\ d \notin misuse =>
                          list.prev[d] # NULL

IInv == DataOK /\ FlagsOK /\ Exact /\ Tracked /\ Linked /\ CrashOnlyByLateConnect

\* How open_descriptor may end.
LEMMA Results ==
    ASSUME NEW d \in D, NEW new \in OpenResults(d) \cup Connects \cup {"ACTIVE", "DEAD"}
    PROVE  new \in {"ACTIVE", "PENDING", "INIT", "DEAD"}
BY DescriptorsAssumption DEF OpenResults, ConnectResults

\* A descriptor that is not in list L (any more) is opened.
LEMMA Opening ==
    ASSUME NEW d \in D, NEW new \in {"ACTIVE", "PENDING", "INIT", "DEAD"}, NEW L \in ListType,
           DataOK, Linked, kind' = kind, misuse \subseteq misuse',
           st' = [st EXCEPT ![d] = new], list' = Joins(L, d, new),
           \A e \in D : list.prev[e] # NULL => L.prev[e] # NULL,
           misuse' = {} => \E n \in Nat : \E f : Lists(L, n, f, Listed \ {d})
    PROVE  list' \in ListType /\ st' \in [D -> States] /\ Linked' /\ Exact'
<1>1. st \in [D -> States] /\ st'[d] = new /\ \A e \in D : e # d => st'[e] = st[e]
  BY DEF DataOK
<1>2. st' \in [D -> States]
  BY <1>1 DEF DataOK, States
<1>3. CASE new = "ACTIVE"
  <2>1. list' = InsertTail(L, d)
    BY <1>3 DEF Joins
  <2>2. list' \in ListType /\ list'.prev = [L.prev EXCEPT ![d] = L.last] /\ L.last # NULL
    <3>1. L.last # NULL
      BY Constants DEF ListType
    <3> QED
      <4>1. /\ InsertTail(L, d) \in ListType
            /\ InsertTail(L, d).prev = [L.prev EXCEPT ![d] = L.last]
        BY Inserted
      <4> QED
        BY <2>1, <3>1, <4>1
  <2>3. Linked'
    <3> SUFFICES ASSUME NEW e \in D, kind[e] = "SOCKETW", st'[e] = "ACTIVE", e \notin misuse'
                 PROVE  list'.prev[e] # NULL
      BY DEF Linked
    <3>1. L.prev \in [D -> D \cup {Head, NULL}]
      BY DEF ListType
    <3>2. CASE e = d
      BY <2>2, <3>1, <3>2
    <3>3. CASE e # d
      BY <1>1, <2>2, <3>1, <3>3 DEF Linked
    <3> QED
      BY <3>2, <3>3
  <2>4. Listed' = (Listed \ {d}) \cup {d}
    BY <1>1, <1>3 DEF Listed
  <2>5. ASSUME misuse' = {}
        PROVE  \E n \in Nat : \E f \in [1 .. n -> Listed'] : Lists(list', n, f, Listed')
    <3>1. PICK n \in Nat : \E f : Lists(L, n, f, Listed \ {d})
      BY <2>5
    <3>2. PICK f : Lists(L, n, f, Listed \ {d})
      BY <3>1
    <3> DEFINE g == [i \in 1 .. n + 1 |-> IF i = n + 1 THEN d ELSE f[i]]
               S == Listed \ {d}
    <3>3. S \in SUBSET D /\ d \in D \ S /\ Lists(L, n, f, S)
      BY <3>2 DEF Listed
    <3> HIDE DEF S
    <3>4. Lists(InsertTail(L, d), n + 1, g, S \cup {d})
      BY <3>3, InsertList
    <3> HIDE DEF g
    <3>5. Lists(list', n + 1, g, Listed') /\ n + 1 \in Nat
      BY <2>1, <2>4, <3>4 DEF S
    <3> QED
      BY <3>5 DEF Lists
  <2> QED
    BY <1>2, <2>2, <2>3, <2>5 DEF Exact
<1>4. CASE new # "ACTIVE"
  <2>1. list' = L
    BY <1>4 DEF Joins
  <2>2. Linked'
    BY <1>1, <1>4, <2>1 DEF Linked
  <2>3. Listed' = Listed \ {d}
    BY <1>1, <1>4 DEF Listed
  <2>4. ASSUME misuse' = {}
        PROVE  \E n \in Nat : \E f \in [1 .. n -> Listed'] : Lists(list', n, f, Listed')
    BY <2>1, <2>3, <2>4 DEF Lists
  <2> QED
    BY <1>2, <2>1, <2>2, <2>4 DEF Exact
<1> QED
  BY <1>3, <1>4

\* The list as it is, without misuse, when no walk is under way.
LEMMA NotListed ==
    ASSUME Exact, NEW d \in D, st[d] \notin {"ACTIVE", "DRAIN", "DRAIN_ROTATE"}, misuse = {}
    PROVE  \E n \in Nat : \E f : Lists(list, n, f, Listed \ {d})
<1>1. Listed \ {d} = Listed
  BY DEF Listed
<1> QED
  BY <1>1 DEF Exact

\* rotlog_rotate changes nothing, or misuses the list.
LEMMA RotateKeeps ==
    ASSUME DataOK, Linked, NEW d \in D, kind[d] = "ROTLOG",
           NEW r \in Rotations, rotlog_rotate(d, r), kind' = kind
    PROVE  /\ list' \in ListType /\ st' \in [D -> States]
           /\ misuse' \in {misuse, misuse \cup {d}}
           /\ Linked'
           /\ misuse' = {} => UNCHANGED <<st, list, misuse>>
<1>1. list \in ListType /\ st \in [D -> States]
  BY DEF DataOK
<1>2. /\ st' = CASE r = "ok"           -> [st EXCEPT ![d] = "ACTIVE"]
                 [] r = "open_fails"   -> [st EXCEPT ![d] = "DEAD"]
                 [] r = "rename_fails" -> st
      /\ list' = IF r = "ok" THEN Joins(list, d, "ACTIVE") ELSE list
      /\ misuse' = IF r = "rename_fails" THEN misuse ELSE misuse \cup {d}
  BY DEF rotlog_rotate
<1>3. CASE r = "ok"
  <2>1. /\ st' = [st EXCEPT ![d] = "ACTIVE"] /\ list' = InsertTail(list, d)
        /\ misuse' = misuse \cup {d}
    BY <1>2, <1>3 DEF Joins
  <2>2. list' \in ListType /\ list'.prev = [list.prev EXCEPT ![d] = list.last]
    BY <1>1, <2>1, Inserted
  <2>3. st' \in [D -> States] /\ \A e \in D : e # d => st'[e] = st[e]
    BY <1>1, <2>1 DEF States
  <2>4. \A e \in D : e # d => list'.prev[e] = list.prev[e]
    BY <1>1, <2>2 DEF ListType
  <2>5. Linked'
    BY <2>1, <2>3, <2>4 DEF Linked
  <2> QED
    BY <2>1, <2>2, <2>3, <2>5
<1>4. CASE r = "open_fails"
  <2>1. st' = [st EXCEPT ![d] = "DEAD"] /\ list' = list /\ misuse' = misuse \cup {d}
    BY <1>2, <1>4
  <2>2. st' \in [D -> States] /\ \A e \in D : e # d => st'[e] = st[e]
    BY <1>1, <2>1 DEF States
  <2> QED
    BY <1>1, <2>1, <2>2 DEF Linked
<1>5. CASE r = "rename_fails"
  BY <1>1, <1>2, <1>5 DEF Linked
<1> QED
  BY <1>3, <1>4, <1>5, DescriptorsAssumption DEF RotationResults

\* Every event that a descriptor can meet keeps the invariant.
LEMMA EventKeeps == ASSUME IInv, NEW d \in D, Event(d), kind' = kind PROVE IInv'
<1>1. DataOK /\ FlagsOK /\ Exact /\ Tracked /\ Linked /\ CrashOnlyByLateConnect
  BY DEF IInv
<1>2. list \in ListType /\ st \in [D -> States] /\ misuse \subseteq D
  BY <1>1 DEF DataOK
<1>3. /\ UNCHANGED <<walk, walking, tick, begun, rotated, renewed>> /\ ~walking
      /\ ~crashed /\ kind \in Configs
  BY <1>1 DEF Event, Open, Appears, Vanishes, Reopens, Connected, Reconnects, ClientGone,
              ClientClosed, RotatesBySize, UnchangedWalk, Idle, DataOK
<1>0. Tracked'
  BY <1>1, <1>3 DEF Tracked
<1>4. ASSUME crashed' = crashed, misuse' \in {misuse, misuse \cup {d}},
             list' \in ListType /\ st' \in [D -> States] /\ Linked' /\ Exact'
      PROVE  IInv'
  BY <1>0, <1>1, <1>2, <1>3, <1>4 DEF IInv, DataOK, FlagsOK, CrashOnlyByLateConnect
<1>5. CASE Open(d) \/ Appears(d)
  <2>1. PICK new \in {"ACTIVE", "PENDING", "INIT", "DEAD"} :
           st' = [st EXCEPT ![d] = new] /\ list' = Joins(list, d, new)
    BY <1>5, Results DEF Open, Appears
  <2>2. /\ crashed' = crashed /\ misuse' = misuse
        /\ st[d] \notin {"ACTIVE", "DRAIN", "DRAIN_ROTATE"}
    BY <1>5 DEF Open, Appears
  <2>3. misuse' = {} => \E n \in Nat : \E f : Lists(list, n, f, Listed \ {d})
    BY <1>1, <2>2, NotListed
  <2>4. list' \in ListType /\ st' \in [D -> States] /\ Linked' /\ Exact'
    BY <1>1, <1>2, <1>3, <2>1, <2>2, <2>3, Opening
  <2> QED
    BY <1>4, <2>2, <2>4
<1>6. CASE Vanishes(d) \/ ClientGone(d)
  <2>1. /\ kind[d] # "SOCKETW" /\ st[d] = "ACTIVE"
        /\ \E new \in {"DRAIN", "DRAIN_ROTATE"} : st' = [st EXCEPT ![d] = new]
        /\ UNCHANGED <<list, crashed, misuse>>
    BY <1>6 DEF Vanishes, ClientGone
  <2>2. st' \in [D -> States] /\ Listed' = Listed /\ \A e \in D : e # d => st'[e] = st[e]
    BY <1>2, <2>1 DEF Listed, States
  <2>3. Linked'
    BY <1>1, <1>3, <2>1, <2>2 DEF Linked
  <2>4. Exact'
    BY <1>1, <1>3, <2>1, <2>2 DEF Exact
  <2> QED
    BY <1>2, <1>4, <2>1, <2>2, <2>3, <2>4
<1>7. CASE Reopens(d)
  <2>1. PICK new \in {"ACTIVE", "PENDING", "INIT", "DEAD"} :
           st' = [st EXCEPT ![d] = new] /\ list' = Joins(AfterReset(d), d, new)
    BY <1>7, Results DEF Reopens
  <2>2. /\ crashed' = crashed /\ misuse' = misuse \cup {d} /\ AfterReset(d) = list
    BY <1>7 DEF Reopens, AfterReset, Leaves
  <2>3. list' \in ListType /\ st' \in [D -> States] /\ Linked' /\ Exact'
    BY <1>1, <1>2, <1>3, <2>1, <2>2, Opening
  <2> QED
    BY <1>4, <2>2, <2>3
<1>8. CASE Connected(d) \/ ClientClosed(d)
  <2>1. /\ misuse' = misuse \cup {d} /\ UNCHANGED <<list, crashed>>
        /\ st' \in [D -> States] /\ \A e \in D : e # d => st'[e] = st[e]
    BY <1>2, <1>8 DEF Connected, ClientClosed, States
  <2>2. Linked' /\ Exact'
    BY <1>1, <1>3, <2>1 DEF Linked, Exact
  <2> QED
    BY <1>2, <1>4, <2>1, <2>2
<1>9. CASE Reconnects(d)
  <2>1. kind[d] = "SOCKETW" /\ st[d] \in {"PENDING", "ACTIVE"} /\ misuse' = misuse
    BY <1>9 DEF Reconnects
  <2>2. CASE st[d] = "ACTIVE" /\ list.prev[d] = NULL
    <3>1. crashed' = TRUE /\ UNCHANGED <<st, list>>
      BY <1>9, <2>2 DEF Reconnects, Leaves
    <3>2. d \in misuse
      BY <1>1, <2>1, <2>2 DEF Linked
    <3>3. CrashOnlyByLateConnect'
      BY <1>3, <2>1, <3>2 DEF CrashOnlyByLateConnect
    <3>4. FlagsOK'
      BY <1>1, <1>3, <3>1, Zenon DEF FlagsOK
    <3> QED
      BY <1>0, <1>1, <1>3, <2>1, <3>1, <3>2, <3>3, <3>4
         DEF IInv, DataOK, Exact, Listed, Linked
  <2>3. CASE ~(st[d] = "ACTIVE" /\ list.prev[d] = NULL)
    <3>1. PICK new \in {"ACTIVE", "PENDING", "INIT", "DEAD"} :
             st' = [st EXCEPT ![d] = new] /\ list' = Joins(AfterReset(d), d, new)
      BY <1>9, <2>3, Results DEF Reconnects, Leaves
    <3>2. crashed' = crashed
      BY <1>9, <2>3 DEF Reconnects, Leaves
    <3>3. CASE st[d] = "PENDING"
      <4>1. AfterReset(d) = list
        BY <3>3 DEF AfterReset, Leaves
      <4>2. misuse' = {} => \E n \in Nat : \E f : Lists(list, n, f, Listed \ {d})
        BY <1>1, <2>1, <3>3, NotListed
      <4>3. list' \in ListType /\ st' \in [D -> States] /\ Linked' /\ Exact'
        BY <1>1, <1>2, <1>3, <2>1, <3>1, <4>1, <4>2, Opening
      <4> QED
        BY <1>4, <2>1, <3>2, <4>3
    <3>4. CASE st[d] = "ACTIVE"
      <4> DEFINE L == Remove(list, d)
      <4>1. AfterReset(d) = L /\ list.prev[d] # NULL
        BY <2>3, <3>4 DEF AfterReset, Leaves
      <4>2. /\ L \in ListType
            /\ L.prev = IF list.next[d] = NULL THEN list.prev
                        ELSE [list.prev EXCEPT ![list.next[d]] = list.prev[d]]
        BY <1>2, <4>1, Removed
      <4>3. \A e \in D : list.prev[e] # NULL => L.prev[e] # NULL
        <5> HIDE DEF L
        <5>1. list.prev \in [D -> D \cup {Head, NULL}] /\ list.next[d] \in D \cup {NULL}
          BY <1>2 DEF ListType
        <5> QED
          BY <4>1, <4>2, <5>1
      <4>4. ASSUME misuse' = {} PROVE \E n \in Nat : \E f : Lists(L, n, f, Listed \ {d})
        <5>1. PICK n \in Nat : \E f \in [1 .. n -> Listed] : Lists(list, n, f, Listed)
          BY <1>1, <2>1, <4>4 DEF Exact
        <5>2. PICK f : Lists(list, n, f, Listed)
          BY <5>1
        <5>3. Listed \in SUBSET D /\ d \in Listed
          BY <3>4 DEF Listed
        <5>4. PICK k \in 1 .. n : f[k] = d
          BY <5>2, <5>3 DEF Lists
        <5> DEFINE g == [i \in 1 .. n - 1 |-> IF i < k THEN f[i] ELSE f[i + 1]]
        <5>5. Lists(Remove(list, f[k]), n - 1, g, Listed \ {f[k]})
          BY <1>2, <5>2, <5>3, RemoveList
        <5>6. n - 1 \in Nat
          OBVIOUS
        <5> HIDE DEF g
        <5> QED
          BY <5>4, <5>5, <5>6
      <4> HIDE DEF L
      <4>5. list' \in ListType /\ st' \in [D -> States] /\ Linked' /\ Exact'
        BY <1>1, <1>2, <1>3, <2>1, <3>1, <4>1, <4>2, <4>3, <4>4, Opening
      <4> QED
        BY <1>4, <2>1, <3>2, <4>5
    <3> QED
      BY <2>1, <3>3, <3>4
  <2> QED
    BY <2>2, <2>3
<1>10. CASE RotatesBySize(d)
  <2>1. PICK r \in Rotations : kind[d] = "ROTLOG" /\ rotlog_rotate(d, r) /\ crashed' = crashed
    BY <1>10 DEF RotatesBySize
  <2>2. /\ list' \in ListType /\ st' \in [D -> States] /\ misuse' \in {misuse, misuse \cup {d}}
        /\ Linked' /\ (misuse' = {} => UNCHANGED <<st, list, misuse>>)
    BY <1>1, <2>1, RotateKeeps
  <2>3. Exact'
    BY <1>1, <1>3, <2>2 DEF Exact, Listed
  <2> QED
    BY <1>4, <2>1, <2>2, <2>3
<1> QED
  BY <1>5, <1>6, <1>7, <1>8, <1>9, <1>10 DEF Event

\* What rotating the p-th element does to the walk over a list that was intact.
LEMMA RotatedInWalk ==
    ASSUME DataOK, begun # NULL, walk # NULL, kind' = kind, begun' = begun,
           NEW S \in SUBSET D, NEW n \in Nat, NEW f, Lists(begun, n, f, S),
           GoingOn(n, f) \/ GoingRound(n, f),
           kind[walk] = "ROTLOG", NEW r \in Rotations, rotlog_rotate(walk, r),
           renewed' = IF r = "ok" THEN renewed \cup {walk} ELSE renewed,
           rotated' = rotated \cup {walk}, walk' = list'.next[walk]
    PROVE  (GoingOn(n, f) \/ CutShort(n, f) \/ GoingRound(n, f))'
<1>1. /\ list \in ListType /\ walk \in D
      /\ r # "ok" => list' = list
      /\ r = "ok" => list' = InsertTail(list, walk)
  BY DEF DataOK, rotlog_rotate, Joins
<1>2. /\ \A i \in 1 .. n : f[i] \in D
      /\ \A i, j \in 1 .. n : f[i] = f[j] => i = j
      /\ n # 0 => begun.last = f[n]
      /\ \A i \in 1 .. n : begun.next[f[i]] = IF i = n THEN NULL ELSE f[i + 1]
  BY DEF Lists, IsList
<1>3. /\ list.next \in [D -> D \cup {NULL}]
      /\ r = "ok" /\ list.last # Head =>
            /\ list'.next = [[list.next EXCEPT ![walk] = NULL] EXCEPT ![list.last] = walk]
            /\ list'.last = walk
  <2>1. LET M == InsertTail(list, walk) IN
        /\ M.last = walk
        /\ M.next = IF list.last = Head THEN [list.next EXCEPT ![walk] = NULL]
                    ELSE [[list.next EXCEPT ![walk] = NULL] EXCEPT ![list.last] = walk]
    BY <1>1, Inserted
  <2> QED
    BY <1>1, <2>1 DEF ListType
<1>4. CASE GoingOn(n, f)
  <2>1. PICK p \in 1 .. n + 1 : /\ walk = IF p = n + 1 THEN NULL ELSE f[p]
                                /\ rotated = Rotlogs(f, p - 1)
    BY <1>4 DEF GoingOn
  <2>2. p \in 1 .. n /\ walk = f[p] /\ n \in 1 .. n /\ renewed = {} /\ list = begun
    BY <1>4, <2>1 DEF GoingOn
  <2>3. \A j \in 1 .. p : j \in 1 .. p - 1 \/ j = p
    BY <2>2
  <2>4. 1 .. p - 1 \subseteq 1 .. p /\ p \in 1 .. p
    BY <2>2
  <2>5. rotated' = {f[i] : i \in {j \in 1 .. p : kind'[f[j]] = "ROTLOG"}}
    BY <2>1, <2>2, <2>3, <2>4 DEF Rotlogs
  <2>6. rotated' = Rotlogs(f, p)'
    BY <2>5 DEF Rotlogs
  <2>7. CASE r # "ok"
    <3>1. list' = begun' /\ renewed' = {} /\ walk' = IF p = n THEN NULL ELSE f[p + 1]
      BY <1>1, <1>2, <2>2, <2>7
    <3>2. p + 1 \in 1 .. n + 1 /\ (p = n <=> p + 1 = n + 1) /\ (p + 1) - 1 = p
      BY <2>2
    <3>3. walk' = (IF p + 1 = n + 1 THEN NULL ELSE f[p + 1]) /\ rotated' = Rotlogs(f, (p + 1) - 1)'
      BY <2>6, <3>1, <3>2
    <3> QED
      BY <3>1, <3>2, <3>3 DEF GoingOn
  <2>8. CASE r = "ok"
    <3>1. list.last = f[n] /\ f[n] \in D /\ f[n] # Head /\ f[p] \in D /\ renewed' = {f[p]}
      BY <1>2, <2>2, <2>8, Constants
    <3>2. /\ list'.next = [[list.next EXCEPT ![f[p]] = NULL] EXCEPT ![f[n]] = f[p]]
          /\ list'.last = f[p]
      BY <1>3, <2>2, <2>8, <3>1
    <3>3. CASE p # n
      <4>1. f[p] # f[n]
        BY <1>2, <2>2, <3>3
      <4>2. walk' = NULL
        BY <1>3, <2>2, <3>1, <3>2, <4>1
      <4> QED
        BY <2>2, <2>6, <3>1, <4>2 DEF CutShort
    <3>4. CASE p = n
      <4>1. list'.next[f[n]] = f[n] /\ list'.last = f[n] /\ walk' = f[n]
        BY <1>3, <2>2, <3>1, <3>2, <3>4
      <4> QED
        BY <2>2, <3>1, <3>4, <4>1 DEF GoingRound
    <3> QED
      BY <3>3, <3>4
  <2> QED
    BY <2>7, <2>8
<1>5. CASE GoingRound(n, f)
  <2>1. /\ n \in 1 .. n /\ renewed = {f[n]} /\ walk = f[n] /\ kind[f[n]] = "ROTLOG"
        /\ list.next[f[n]] = f[n] /\ list.last = f[n]
    BY <1>5 DEF GoingRound
  <2>2. f[n] # Head /\ f[n] \in D /\ renewed' = {f[n]}
    BY <1>1, <2>1, Constants
  <2>3. list'.next[f[n]] = f[n] /\ list'.last = f[n]
    BY <1>1, <1>3, <2>1, <2>2
  <2> QED
    BY <2>1, <2>2, <2>3 DEF GoingRound
<1> QED
  BY <1>4, <1>5

\* Every step of the walk of dlog_sig_rotlog keeps the invariant.
LEMMA WalkKeeps == ASSUME IInv, WalkStarts \/ WalkStep, kind' = kind PROVE IInv'
<1>1. DataOK /\ FlagsOK /\ Exact /\ Tracked /\ Linked /\ CrashOnlyByLateConnect
  BY DEF IInv
<1>2. /\ list \in ListType /\ st \in [D -> States] /\ misuse \subseteq D /\ kind \in Configs
      /\ rotated \subseteq D /\ walk \in D \cup {NULL}
      /\ begun \in ListType \cup {NULL} /\ renewed \subseteq D
  BY <1>1 DEF DataOK
<1>3. list.first \in D \cup {NULL} /\ \A d \in D : list.next[d] \in D \cup {NULL}
  BY <1>2 DEF ListType
<1>4. FlagsOK'
  BY <1>1, Zenon DEF FlagsOK, WalkStarts, WalkStep, WalkRotates, RotatesHere, WalkPasses, WalkEnds
<1>5. crashed' = crashed
  BY DEF WalkStarts, WalkStep, WalkRotates, RotatesHere, WalkPasses, WalkEnds
<1>6. CASE WalkStarts
  <2>1. /\ walk' = list.first /\ UNCHANGED <<st, list, misuse>> /\ rotated' = {} /\ renewed' = {}
        /\ begun' = (IF misuse = {} THEN list ELSE NULL) /\ walking'
    BY <1>6 DEF WalkStarts
  <2>2. Exact'
    BY <1>1, <2>1 DEF Exact, Listed
  <2>3. ASSUME misuse = {}
        PROVE  \E S \in SUBSET D : \E n \in Nat : \E f : Lists(begun', n, f, S) /\ GoingOn(n, f)'
    <3>1. PICK n \in Nat : \E f \in [1 .. n -> Listed] : Lists(list, n, f, Listed)
      BY <1>1, <2>3 DEF Exact
    <3>2. PICK f : Lists(list, n, f, Listed)
      BY <3>1
    <3>3. walk' = IF 1 = n + 1 THEN NULL ELSE f[1]
      BY <2>1, <3>2 DEF Lists, IsList
    <3>4. 1 \in 1 .. n + 1 /\ 1 .. 1 - 1 = {}
      OBVIOUS
    <3>5. rotated' = Rotlogs(f, 1 - 1)'
      BY <2>1, <3>4 DEF Rotlogs
    <3>6. GoingOn(n, f)'
      BY <2>1, <2>3, <3>3, <3>4, <3>5 DEF GoingOn
    <3>7. Listed \in SUBSET D /\ begun' = list
      BY <2>1, <2>3 DEF Listed
    <3> QED
      BY <3>2, <3>6, <3>7
  <2>4. Tracked'
    BY <2>1, <2>3 DEF Tracked
  <2> QED
    BY <1>1, <1>2, <1>3, <1>4, <1>5, <2>1, <2>2, <2>4
       DEF IInv, DataOK, Linked, CrashOnlyByLateConnect
<1>7. CASE WalkEnds
  <2>1. /\ ~walking' /\ UNCHANGED <<st, list, walk, misuse>>
        /\ begun' = NULL /\ rotated' = {} /\ renewed' = {}
    BY <1>7 DEF WalkEnds
  <2> QED
    BY <1>1, <1>2, <1>4, <1>5, <2>1
       DEF IInv, DataOK, Exact, Tracked, Listed, Linked, CrashOnlyByLateConnect
<1>8. ASSUME walk # NULL, begun # NULL
      PROVE  \E S \in SUBSET D : \E n \in Nat : \E f :
                Lists(begun, n, f, S) /\ (GoingOn(n, f) \/ GoingRound(n, f))
  <2>1. PICK S \in SUBSET D : \E n \in Nat : \E f :
              Lists(begun, n, f, S) /\ (GoingOn(n, f) \/ CutShort(n, f) \/ GoingRound(n, f))
    BY <1>1, <1>8 DEF Tracked
  <2>2. PICK n \in Nat : \E f :
              Lists(begun, n, f, S) /\ (GoingOn(n, f) \/ CutShort(n, f) \/ GoingRound(n, f))
    BY <2>1
  <2>3. PICK f : Lists(begun, n, f, S) /\ (GoingOn(n, f) \/ CutShort(n, f) \/ GoingRound(n, f))
    BY <2>2
  <2>4. ~CutShort(n, f)
    BY <1>8 DEF CutShort
  <2> QED
    BY <2>3, <2>4
<1>9. CASE WalkPasses
  <2>1. /\ walking /\ walk # NULL /\ kind[walk] # "ROTLOG" /\ walk' = list.next[walk]
        /\ UNCHANGED <<st, list, begun, rotated, renewed, misuse>> /\ walking'
    BY <1>9 DEF WalkPasses
  <2>2. Exact'
    BY <1>1, <2>1 DEF Exact, Listed
  <2>3. ASSUME begun # NULL, NEW S \in SUBSET D, NEW n \in Nat, NEW f, Lists(begun, n, f, S),
               GoingOn(n, f) \/ GoingRound(n, f)
        PROVE  GoingOn(n, f)'
    <3>1. GoingOn(n, f)
      BY <2>1, <2>3 DEF GoingRound
    <3>2. PICK p \in 1 .. n + 1 : /\ walk = IF p = n + 1 THEN NULL ELSE f[p]
                                  /\ rotated = Rotlogs(f, p - 1)
      BY <3>1 DEF GoingOn
    <3>3. p \in 1 .. n /\ walk = f[p] /\ renewed = {} /\ list = begun
      BY <2>1, <3>1, <3>2 DEF GoingOn
    <3>4. walk' = IF p = n THEN NULL ELSE f[p + 1]
      BY <2>1, <2>3, <3>3 DEF Lists, IsList
    <3>5. /\ p + 1 \in 1 .. n + 1 /\ (p = n <=> p + 1 = n + 1) /\ (p + 1) - 1 = p
          /\ 1 .. p - 1 \subseteq 1 .. p /\ \A j \in 1 .. p : j \in 1 .. p - 1 \/ j = p
      BY <3>3
    <3>6. walk' = IF p + 1 = n + 1 THEN NULL ELSE f[p + 1]
      BY <3>4, <3>5
    <3>7. rotated' = {f[i] : i \in {j \in 1 .. p : kind'[f[j]] = "ROTLOG"}}
      BY <2>1, <3>2, <3>3, <3>5 DEF Rotlogs
    <3>8. rotated' = Rotlogs(f, (p + 1) - 1)'
      BY <3>5, <3>7 DEF Rotlogs
    <3> QED
      BY <2>1, <3>3, <3>5, <3>6, <3>8 DEF GoingOn
  <2>4. Tracked'
    BY <1>8, <2>1, <2>3 DEF Tracked
  <2> QED
    BY <1>1, <1>2, <1>3, <1>4, <1>5, <2>1, <2>2, <2>4
       DEF IInv, DataOK, Linked, CrashOnlyByLateConnect
<1>10. CASE WalkRotates
  <2>1. PICK r \in Rotations :
           /\ walking /\ walk # NULL /\ kind[walk] = "ROTLOG" /\ rotlog_rotate(walk, r)
           /\ renewed' = IF r = "ok" THEN renewed \cup {walk} ELSE renewed
           /\ rotated' = rotated \cup {walk} /\ walk' = list'.next[walk]
           /\ begun' = begun /\ walking'
    BY <1>10 DEF WalkRotates, RotatesHere
  <2>2. walk \in D
    BY <1>2, <2>1
  <2>3. /\ list' \in ListType /\ st' \in [D -> States]
        /\ misuse' \in {misuse, misuse \cup {walk}}
        /\ Linked' /\ (misuse' = {} => UNCHANGED <<st, list, misuse>>)
    BY <1>1, <2>1, <2>2, RotateKeeps
  <2>4. Exact'
    BY <1>1, <2>3 DEF Exact, Listed
  <2>5. DataOK'
    BY <1>2, <2>1, <2>2, <2>3 DEF DataOK, ListType
  <2>6. CrashOnlyByLateConnect'
    BY <1>1, <1>5, <2>3 DEF CrashOnlyByLateConnect
  <2>7. ASSUME begun # NULL, NEW S \in SUBSET D, NEW n \in Nat, NEW f, Lists(begun, n, f, S),
               GoingOn(n, f) \/ GoingRound(n, f)
        PROVE  (GoingOn(n, f) \/ CutShort(n, f) \/ GoingRound(n, f))'
    BY <1>1, <2>1, <2>7, RotatedInWalk
  <2>8. Tracked'
    BY <1>8, <2>1, <2>7 DEF Tracked
  <2> QED
    BY <1>4, <2>3, <2>4, <2>5, <2>6, <2>8 DEF IInv
<1> QED
  BY <1>6, <1>7, <1>9, <1>10 DEF WalkStep

-----------------------------------------------------------------------------
(* Every behaviour *)

LEMMA InitIInv == Init => IInv
<1> SUFFICES ASSUME Init PROVE IInv
  OBVIOUS
<1>1. DataOK
  BY DescriptorsAssumption DEF Init, DataOK, ListType, States
<1>2. FlagsOK
  BY Zenon DEF Init, FlagsOK
<1>3. Exact
  <2> DEFINE f == [i \in 1 .. 0 |-> NULL]
  <2>1. Listed = {} /\ 1 .. 0 = {}
    BY DEF Init, Listed
  <2>2. f \in [1 .. 0 -> Listed]
    BY <2>1
  <2>3. Lists(list, 0, f, Listed)
    BY <2>1, <2>2 DEF Init, Lists, IsList
  <2> QED
    BY <2>2, <2>3 DEF Exact
<1>4. Tracked /\ Linked /\ CrashOnlyByLateConnect
  BY DEF Init, Tracked, Linked, CrashOnlyByLateConnect
<1> QED
  BY <1>1, <1>2, <1>3, <1>4 DEF IInv

LEMMA NextIInv == IInv /\ [Next]_vars => IInv'
<1> SUFFICES ASSUME IInv, [Next]_vars PROVE IInv'
  OBVIOUS
<1>1. CASE UNCHANGED vars
  <2>1. /\ UNCHANGED <<kind, st, list, crashed, walk, walking, tick, begun>>
        /\ UNCHANGED <<rotated, renewed, misuse>>
    BY <1>1 DEF vars
  <2>2. (DataOK /\ FlagsOK /\ Exact /\ Linked /\ CrashOnlyByLateConnect)'
    BY <2>1 DEF IInv, DataOK, FlagsOK, Exact, Listed, Linked, CrashOnlyByLateConnect
  <2>3. \A n, f : /\ GoingOn(n, f)' <=> GoingOn(n, f)
                  /\ CutShort(n, f)' <=> CutShort(n, f)
                  /\ GoingRound(n, f)' <=> GoingRound(n, f)
    BY <2>1 DEF GoingOn, CutShort, GoingRound, Rotlogs
  <2>4. Tracked'
    BY <2>1, <2>3 DEF IInv, Tracked
  <2> QED
    BY <2>2, <2>4 DEF IInv
<1>2. CASE Next
  BY <1>2, EventKeeps, WalkKeeps DEF Next
<1> QED
  BY <1>1, <1>2

\* A list has as many elements as it says.
LEMMA ListLength ==
    ASSUME NEW L, NEW S \in SUBSET D, NEW n \in Nat, NEW f, Lists(L, n, f, S)
    PROVE  Cardinality(S) = n /\ n \in 0 .. Cardinality(D)
<1>1. /\ f \in [1 .. n -> S]
      /\ \A i, j \in 1 .. n : f[i] = f[j] => i = j
      /\ \A d \in S : \E i \in 1 .. n : f[i] = d
  BY DEF Lists, IsList
<1>2. f \in Bijection(1 .. n, S)
  BY <1>1, Zenon DEF Bijection, Injection, Surjection, IsInjective
<1>3. ExistsBijection(1 .. n, S)
  BY <1>2, Zenon DEF ExistsBijection
<1>4. Cardinality(S) = n
  BY <1>3, FS_CountingElements
<1>5. Cardinality(S) <= Cardinality(D) /\ Cardinality(D) \in Nat
  BY FS_Subset, FS_CardinalityType, DescriptorsAssumption
<1> QED
  BY <1>4, <1>5

\* Until one of the misuses has happened, the list is, link by link, the list of the
\* active descriptors and of the deleted files still being read, whatever
\* descriptors come, go and reconnect.
THEOREM ListIsExact == Spec => []ListExact
<1>1. ASSUME IInv PROVE ListExact
  <2>1. DataOK /\ FlagsOK /\ Exact
    BY <1>1 DEF IInv
  <2>2. {walking, tick, crashed} \subseteq BOOLEAN
    BY <2>1, Zenon DEF FlagsOK
  <2>3. TypeOK
    BY <2>1, <2>2 DEF TypeOK, DataOK, ListType, States
  <2>4. ASSUME misuse = {} PROVE ListOf(Listed)
    <3>1. PICK n \in Nat : \E f \in [1 .. n -> Listed] : Lists(list, n, f, Listed)
      BY <2>1, <2>4 DEF Exact
    <3>2. PICK f \in [1 .. n -> Listed] : Lists(list, n, f, Listed)
      BY <3>1
    <3>3. Cardinality(Listed) = n
      BY <3>2, ListLength DEF Listed
    <3> QED
      BY <3>2, <3>3 DEF ListOf, Lists
  <2> QED
    BY <2>3, <2>4 DEF ListExact, Listed
<1> QED
  BY <1>1, InitIInv, NextIInv, PTL DEF Spec

\* A walk of dlog_sig_rotlog over an intact list, of any length, misses no rotlog but
\* those behind one that it has opened anew, however many rotations fail.
THEOREM WalkReachesUpToRenewed == Spec => []MissedOnlyBehindRenewed
<1>1. ASSUME IInv, begun # NULL, walk = NULL
      PROVE  \E n \in 0 .. Cardinality(D) : \E f \in [1 .. n -> D] :
                /\ IsList(begun, n, f)
                /\ rotated = {f[i] : i \in {j \in 1 .. n :
                                 /\ kind[f[j]] = "ROTLOG"
                                 /\ \A h \in 1 .. j - 1 : f[h] \notin renewed}}
  <2>1. PICK S \in SUBSET D : \E n \in Nat : \E f :
              Lists(begun, n, f, S) /\ (GoingOn(n, f) \/ CutShort(n, f) \/ GoingRound(n, f))
    BY <1>1 DEF IInv, Tracked
  <2>2. PICK n \in Nat : \E f :
              Lists(begun, n, f, S) /\ (GoingOn(n, f) \/ CutShort(n, f) \/ GoingRound(n, f))
    BY <2>1
  <2>3. PICK f : Lists(begun, n, f, S) /\ (GoingOn(n, f) \/ CutShort(n, f) \/ GoingRound(n, f))
    BY <2>2
  <2>4. /\ n \in 0 .. Cardinality(D) /\ IsList(begun, n, f) /\ f \in [1 .. n -> D]
        /\ \A i \in 1 .. n : f[i] \in D /\ f[i] # NULL
        /\ \A i, j \in 1 .. n : f[i] = f[j] => i = j
    <3>1. n \in 0 .. Cardinality(D)
      BY <2>3, ListLength
    <3>2. f \in [1 .. n -> S] /\ IsList(begun, n, f)
      BY <2>3 DEF Lists
    <3> QED
      BY <3>1, <3>2, Constants DEF IsList
  <2> DEFINE Reached == {j \in 1 .. n : /\ kind[f[j]] = "ROTLOG"
                                         /\ \A h \in 1 .. j - 1 : f[h] \notin renewed}
  <2>5. CASE GoingOn(n, f)
    <3>1. PICK p \in 1 .. n + 1 : /\ walk = IF p = n + 1 THEN NULL ELSE f[p]
                                  /\ rotated = Rotlogs(f, p - 1)
      BY <2>5 DEF GoingOn
    <3>2. p = n + 1 \/ p \in 1 .. n
      OBVIOUS
    <3>3. p - 1 = n
      BY <1>1, <2>4, <3>1, <3>2
    <3>4. Reached = {j \in 1 .. n : kind[f[j]] = "ROTLOG"}
      BY <2>5 DEF GoingOn
    <3> HIDE DEF Reached
    <3>5. rotated = {f[i] : i \in Reached}
      BY <3>1, <3>3, <3>4 DEF Rotlogs
    <3> QED
      BY <2>4, <3>5 DEF Reached
  <2>6. CASE CutShort(n, f)
    <3>1. PICK p \in 1 .. n : renewed = {f[p]} /\ rotated = Rotlogs(f, p)
      BY <2>6 DEF CutShort
    <3>2. ASSUME NEW j \in 1 .. n
          PROVE  (\A h \in 1 .. j - 1 : f[h] \notin renewed) <=> j \in 1 .. p
      <4>1. CASE j <= p
        <5>1. \A h \in 1 .. j - 1 : h \in 1 .. n /\ h # p
          BY <4>1
        <5>2. \A h \in 1 .. j - 1 : f[h] # f[p]
          BY <2>4, <5>1
        <5>3. j \in 1 .. p
          BY <4>1
        <5> QED
          BY <3>1, <5>2, <5>3
      <4>2. CASE j > p
        <5>1. p \in 1 .. j - 1 /\ j \notin 1 .. p
          BY <4>2
        <5> QED
          BY <3>1, <5>1
      <4> QED
        BY <4>1, <4>2
    <3>3. 1 .. p \subseteq 1 .. n
      OBVIOUS
    <3>4. Reached = {j \in 1 .. p : kind[f[j]] = "ROTLOG"}
      BY <3>2, <3>3
    <3> HIDE DEF Reached
    <3>5. rotated = {f[i] : i \in Reached}
      BY <3>1, <3>4 DEF Rotlogs
    <3> QED
      BY <2>4, <3>5 DEF Reached
  <2>7. ~GoingRound(n, f)
    BY <1>1, <2>4 DEF GoingRound
  <2> QED
    BY <2>3, <2>5, <2>6, <2>7
<1>2. IInv => MissedOnlyBehindRenewed
  BY <1>1 DEF MissedOnlyBehindRenewed
<1> QED
  BY <1>2, InitIInv, NextIInv, PTL DEF Spec

\* reset_descriptor follows a NULL link only for a connection that was established
\* after connect had returned EINPROGRESS, whatever else has happened to the list.
THEOREM OnlyLateConnectsCrash == Spec => []CrashOnlyByLateConnect
<1>1. IInv => CrashOnlyByLateConnect
  BY DEF IInv
<1> QED
  BY <1>1, InitIInv, NextIInv, PTL DEF Spec
=============================================================================
