--------------------------- MODULE Mempool_proofs ---------------------------
(***************************************************************************)
(* Proofs about mempool.c for a pool of any size and callers that store    *)
(* anything in the slots they hold.  FreeListExact is the inductive        *)
(* invariant: PoolTypeOK alone is not inductive, because mempool_alloc     *)
(* copies the link found in a slot into free_list_head.                    *)
(***************************************************************************)
EXTENDS Mempool, FiniteSetTheorems, TLAPS

\* An injective stack of slots is no longer than the pool: mempool_free, which
\* pushes a slot on the free list, cannot make the list longer than N.
LEMMA StackBounded ==
    ASSUME NEW n \in Nat, NEW f \in [1..n -> Slots],
           \A i \in 1..n, j \in 1..n : f[i] = f[j] => i = j
    PROVE  n <= N
<1>1. IsFiniteSet(Slots) /\ Cardinality(Slots) = N
  BY NAssumption, FS_Interval DEF Slots
<1>2. IsFiniteSet(1..n) /\ Cardinality(1..n) = n
  BY FS_Interval
<1>3. ASSUME N < n PROVE FALSE
  BY <1>1, <1>2, <1>3, FS_PigeonHole
<1> QED
  BY <1>3, NAssumption

\* What FreeListIs says of the parts that the steps of the pool look at.
LEMMA Witnesses ==
    ASSUME PoolTypeOK, FreeListExact
    PROVE  \E n \in 0..N, w \in 1..N : \E f \in [1..n -> 0 .. w-1] :
              /\ FreeListIs(n, w, f)
              /\ \A i \in 1..n : f[i] \in Slots
<1> PICK n \in 0..N, w \in 1..N :
            \E f \in [1..n -> 0 .. w-1] : FreeListIs(n, w, f)
  BY DEF FreeListExact
<1> PICK f \in [1..n -> 0 .. w-1] : FreeListIs(n, w, f)
  OBVIOUS
<1>1. \A i \in 1..n : f[i] \in Slots
  BY NAssumption DEF Slots
<1> QED
  BY <1>1

\* mempool_create_from_buffer leaves a list of slot 0 and the run from slot 1.
LEMMA InitInv == PoolInit => PoolTypeOK /\ FreeListExact
<1> SUFFICES ASSUME PoolInit PROVE PoolTypeOK /\ FreeListExact
  OBVIOUS
<1> USE NAssumption
<1> PICK j \in [Slots -> Junk] :
            hdr = [j EXCEPT ![0] = Hdr(1, 1), ![1] = WildRun]
  BY DEF PoolInit
<1>1. 0 \in Slots /\ 1 \in Slots
  BY DEF Slots
<1>2. j \in [Slots -> Headers]
  BY JunkAssumption
<1>3. WildRun \in Headers /\ Hdr(1, 1) \in Headers
  BY DEF WildRun, Hdr, Headers
<1>4. PoolTypeOK
  BY <1>1, <1>2, <1>3 DEF PoolInit, PoolTypeOK, NoSlot
<1>5. hdr[0] = Hdr(1, 1) /\ hdr[1] = Hdr(-1, N-1)
  BY <1>1, <1>2 DEF WildRun
<1> DEFINE f == [i \in 1..1 |-> 0]
<1>6. f \in [1..1 -> 0 .. 1-1]
  OBVIOUS
<1>7. FreeListIs(1, 1, f)
  BY <1>5 DEF FreeListIs, WildLink, PoolInit
<1> HIDE DEF f
<1>8. 1 \in 0..N /\ 1 \in 1..N
  OBVIOUS
<1>9. FreeListExact
  BY <1>6, <1>7, <1>8 DEF FreeListExact
<1> QED
  BY <1>4, <1>9

\* Every step of the pool and of its callers keeps the free list exact.
LEMMA StepInv ==
    PoolTypeOK /\ FreeListExact /\ [PoolNext]_poolVars => (PoolTypeOK /\ FreeListExact)'
<1> SUFFICES ASSUME PoolTypeOK, FreeListExact, [PoolNext]_poolVars
             PROVE  PoolTypeOK' /\ FreeListExact'
  OBVIOUS
<1> USE NAssumption
<1> PICK n \in 0..N, w \in 1..N : \E f \in [1..n -> 0 .. w-1] :
            FreeListIs(n, w, f) /\ \A i \in 1..n : f[i] \in Slots
  BY Witnesses
<1> PICK f \in [1..n -> 0 .. w-1] :
            FreeListIs(n, w, f) /\ \A i \in 1..n : f[i] \in Slots
  OBVIOUS
<1> DEFINE Exact(m, v, g) == /\ m \in 0..N
                             /\ v \in 1..N
                             /\ g \in [1..m -> 0 .. v-1]
                             /\ FreeListIs(m, v, g)'
<1>exact. ASSUME NEW m, NEW v, NEW g, Exact(m, v, g) PROVE FreeListExact'
  BY <1>exact DEF FreeListExact
<1> HIDE DEF Exact
<1>1. CASE UNCHANGED <<head, hdr, owned>> /\ (given' = given \/ given' = NoSlot)
  <2>1. PoolTypeOK'
    BY <1>1 DEF PoolTypeOK
  <2>2. Exact(n, w, f)
    BY <1>1 DEF Exact, FreeListIs
  <2> QED
    BY <2>1, <2>2, <1>exact
<1>2. CASE AllocSingle
  <2> USE <1>2 DEF AllocSingle, HandOut
  <2>1. CASE n > 0
    <3> DEFINE g == [i \in 1 .. n-1 |-> f[i]]
    <3>0. n \in 1..n /\ hdr[f[n]] = Hdr(IF n = 1 THEN WildLink(w) ELSE f[n-1], 1)
      BY <2>1 DEF FreeListIs
    <3>1. head = f[n] /\ head' = IF n = 1 THEN WildLink(w) ELSE f[n-1]
      BY <2>1, <3>0 DEF FreeListIs, Hdr
    <3>2. n-1 \in 0..N /\ g \in [1 .. n-1 -> 0 .. w-1]
      BY <2>1
    <3>3. FreeListIs(n-1, w, g)'
      <4>1. owned' = {s \in 0 .. w-1 : \A i \in 1 .. n-1 : g[i] # s}
        BY <3>1, <2>1 DEF FreeListIs
      <4>2. \A i \in 1 .. n-1 : i \in 1..n /\ g[i] = f[i]
        BY <2>1
      <4>3. \A i \in 1 .. n-1 :
               hdr'[g[i]] = Hdr(IF i = 1 THEN WildLink(w) ELSE g[i-1], 1)
        <5> TAKE i \in 1 .. n-1
        <5>1. i \in 1..n /\ g[i] = f[i] /\ (i # 1 => g[i-1] = f[i-1])
          BY <2>1
        <5> QED
          BY <5>1 DEF FreeListIs
      <4>4. head' = IF n-1 = 0 THEN WildLink(w) ELSE g[n-1]
        BY <3>1, <2>1
      <4>5. \A i \in 1 .. n-1, j \in 1 .. n-1 : g[i] = g[j] => i = j
        BY <4>2 DEF FreeListIs
      <4>6. w < N => hdr'[w] = Hdr(-1, N - w)
        BY DEF FreeListIs
      <4> HIDE DEF g
      <4> QED
        BY <4>1, <4>3, <4>4, <4>5, <4>6 DEF FreeListIs, WildLink
    <3>4. Exact(n-1, w, g)
      BY <3>2, <3>3 DEF Exact
    <3>5. PoolTypeOK'
      <4>1. f[n] \in Slots /\ (n # 1 => f[n-1] \in Slots)
        BY <2>1
      <4>2. WildLink(w) \in Slots \cup {-1}
        BY DEF WildLink, Slots
      <4> QED
        BY <3>1, <4>1, <4>2 DEF PoolTypeOK
    <3> QED
      BY <3>4, <3>5, <1>exact
  <2>2. CASE n = 0
    <3>1. w = N - 1 /\ head = w /\ head' = -1
      BY <2>2 DEF FreeListIs, WildLink, Hdr, Slots
    <3>2. f \in [1..n -> 0 .. N-1]
      BY <2>2
    <3>3. FreeListIs(n, N, f)'
      <4>1. owned' = {s \in 0 .. N-1 : \A i \in 1 .. n : f[i] # s}
        BY <3>1, <2>2 DEF FreeListIs
      <4> QED
        BY <3>1, <4>1, <2>2 DEF FreeListIs, WildLink
    <3>4. Exact(n, N, f)
      BY <3>2, <3>3 DEF Exact
    <3>5. PoolTypeOK'
      BY <3>1 DEF PoolTypeOK, Slots
    <3> QED
      BY <3>4, <3>5, <1>exact
  <2> QED
    BY <2>1, <2>2
<1>3. CASE AllocCarve
  <2> USE <1>3 DEF AllocCarve, HandOut
  <2>1. n = 0
    <3> SUFFICES ASSUME n > 0 PROVE FALSE
      OBVIOUS
    <3>1. n \in 1..n /\ head = f[n]
      BY DEF FreeListIs
    <3>2. hdr[f[n]] = Hdr(IF n = 1 THEN WildLink(w) ELSE f[n-1], 1)
      BY <3>1 DEF FreeListIs
    <3> QED
      BY <3>1, <3>2 DEF Hdr
  <2>2. head = w /\ w < N - 1 /\ hdr[w].num_slots = N - w /\ w \in Slots
    BY <2>1 DEF FreeListIs, WildLink, Hdr, Slots
  <2>3. hdr' = [hdr EXCEPT ![w+1] = Hdr(-1, N - w - 1)] /\ head' = w + 1
    BY <2>2 DEF Carve
  <2>4. Hdr(-1, N - w - 1) \in Headers /\ w + 1 \in Slots
    BY <2>2 DEF Hdr, Headers, Slots
  <2>5. PoolTypeOK'
    BY <2>2, <2>3, <2>4 DEF PoolTypeOK, Slots
  <2>6. hdr'[w+1] = Hdr(-1, N - (w+1))
    BY <2>3, <2>4 DEF PoolTypeOK
  <2>7. FreeListIs(n, w+1, f)'
    <3>1. owned' = {s \in 0 .. (w+1)-1 : \A i \in 1 .. n : f[i] # s}
      BY <2>1, <2>2 DEF FreeListIs
    <3> QED
      BY <2>1, <2>2, <2>3, <2>6, <3>1 DEF FreeListIs, WildLink
  <2>8. Exact(n, w+1, f)
    BY <2>1, <2>2, <2>7 DEF Exact
  <2> QED
    BY <2>5, <2>8, <1>exact
<1>4. ASSUME NEW s \in Slots, Free(s) PROVE PoolTypeOK' /\ FreeListExact'
  <2> USE <1>4 DEF Free
  <2> DEFINE g == [i \in 1 .. n+1 |-> IF i = n+1 THEN s ELSE f[i]]
  <2>1. s \in 0 .. w-1 /\ \A i \in 1..n : f[i] # s
    BY DEF FreeListIs
  <2>2. Hdr(head, 1) \in Headers
    BY DEF PoolTypeOK, Hdr, Headers, Slots
  <2>3. hdr' = [hdr EXCEPT ![s] = Hdr(head, 1)] /\ head' = s
    BY DEF FreedHeader
  <2>4. PoolTypeOK'
    BY <2>2, <2>3 DEF PoolTypeOK
  <2>5. \A t \in Slots : hdr'[t] = IF t = s THEN Hdr(head, 1) ELSE hdr[t]
    BY <2>3 DEF PoolTypeOK
  <2>6. g \in [1 .. n+1 -> 0 .. w-1]
    BY <2>1
  <2>7. \A i \in 1 .. n+1, j \in 1 .. n+1 : g[i] = g[j] => i = j
    BY <2>1 DEF FreeListIs
  <2>8. n+1 \in 0..N
    <3>1. n+1 \in Nat /\ g \in [1 .. n+1 -> Slots]
      BY <2>6 DEF Slots
    <3>2. n+1 <= N
      BY <3>1, <2>7, StackBounded
    <3> QED
      BY <3>1, <3>2
  <2>9. FreeListIs(n+1, w, g)'
    <3>1. \A i \in 1 .. n+1 :
             hdr'[g[i]] = Hdr(IF i = 1 THEN WildLink(w) ELSE g[i-1], 1)
      <4> SUFFICES ASSUME NEW i \in 1 .. n+1
                   PROVE  hdr'[g[i]] = Hdr(IF i = 1 THEN WildLink(w) ELSE g[i-1], 1)
        OBVIOUS
      <4>1. CASE i = n+1
        BY <4>1, <2>5 DEF FreeListIs
      <4>2. CASE i < n+1
        <5>1. i \in 1..n /\ g[i] = f[i] /\ (i # 1 => g[i-1] = f[i-1])
          BY <4>2
        <5>2. hdr'[f[i]] = hdr[f[i]]
          BY <5>1, <2>5, <2>1
        <5> QED
          BY <5>1, <5>2 DEF FreeListIs
      <4> QED
        BY <4>1, <4>2
    <3>2. w < N => hdr'[w] = Hdr(-1, N - w)
      BY <2>5, <2>1 DEF FreeListIs, Slots
    <3>3. owned' = {t \in 0 .. w-1 : \A i \in 1 .. n+1 : g[i] # t}
      <4>1. \A t : (\A i \in 1 .. n+1 : g[i] # t)
                     <=> t # s /\ \A i \in 1..n : f[i] # t
        <5>1. n+1 \in 1 .. n+1 /\ g[n+1] = s
          OBVIOUS
        <5>2. \A i \in 1..n : i \in 1 .. n+1 /\ g[i] = f[i]
          OBVIOUS
        <5>3. \A i \in 1 .. n+1 : i = n+1 \/ i \in 1..n
          OBVIOUS
        <5> HIDE DEF g
        <5> QED
          BY <5>1, <5>2, <5>3
      <4> HIDE DEF g
      <4> QED
        BY <4>1 DEF FreeListIs
    <3>4. head' = IF n+1 = 0 THEN WildLink(w) ELSE g[n+1]
      BY <2>3
    <3> HIDE DEF g
    <3> QED
      BY <2>7, <3>1, <3>2, <3>3, <3>4 DEF FreeListIs, WildLink
  <2>10. Exact(n+1, w, g)
    BY <2>6, <2>8, <2>9 DEF Exact
  <2> QED
    BY <2>4, <2>10, <1>exact
<1>5. ASSUME NEW s \in Slots, NEW j \in Junk, UserWrite(s, j)
      PROVE  PoolTypeOK' /\ FreeListExact'
  <2> USE <1>5 DEF UserWrite
  <2>1. s \in 0 .. w-1 /\ \A i \in 1..n : f[i] # s
    BY DEF FreeListIs
  <2>2. PoolTypeOK'
    BY JunkAssumption DEF PoolTypeOK
  <2>3. \A t \in Slots : t # s => hdr'[t] = hdr[t]
    BY DEF PoolTypeOK
  <2>4. FreeListIs(n, w, f)'
    BY <2>1, <2>3 DEF FreeListIs, Slots
  <2>5. Exact(n, w, f)
    BY <2>4 DEF Exact
  <2> QED
    BY <2>2, <2>5, <1>exact
<1>6. CASE AllocFails
  BY <1>6, <1>1 DEF AllocFails
<1>7. CASE UNCHANGED poolVars
  BY <1>7, <1>1 DEF poolVars
<1> QED
  BY <1>2, <1>3, <1>4, <1>5, <1>6, <1>7 DEF PoolNext

\* mempool_alloc and mempool_free keep the free list exact, for every size of
\* the pool and whatever callers store in the slots they hold.
THEOREM FreeListCorrect == PoolSpec => [](PoolTypeOK /\ FreeListExact)
<1> QED
  BY InitInv, StepInv, PTL DEF PoolSpec

\* When the list is exact, mempool_alloc only ever carves inside the pool, into
\* a slot that no caller holds.
LEMMA CarveIsSafe == PoolTypeOK /\ FreeListExact => CarveInPool
<1> SUFFICES ASSUME PoolTypeOK, FreeListExact, head # -1 PROVE CarveInPool
  BY DEF CarveInPool
<1> USE NAssumption
<1> PICK n \in 0..N, w \in 1..N : \E f \in [1..n -> 0 .. w-1] :
            FreeListIs(n, w, f) /\ \A i \in 1..n : f[i] \in Slots
  BY Witnesses
<1> PICK f \in [1..n -> 0 .. w-1] :
            FreeListIs(n, w, f) /\ \A i \in 1..n : f[i] \in Slots
  OBVIOUS
<1>1. CASE n > 0
  <2>1. n \in 1..n /\ hdr[f[n]] = Hdr(IF n = 1 THEN WildLink(w) ELSE f[n-1], 1)
    BY <1>1 DEF FreeListIs
  <2>2. head = f[n]
    BY <1>1 DEF FreeListIs
  <2> QED
    BY <2>1, <2>2 DEF CarveInPool, Hdr
<1>2. CASE n = 0
  <2>1. head = w /\ w < N /\ hdr[w] = Hdr(-1, N - w)
    BY <1>2 DEF FreeListIs, WildLink
  <2>2. hdr[head].num_slots = N - w /\ w + 1 \notin owned
    BY <2>1 DEF FreeListIs, Hdr
  <2>3. CASE w = N - 1
    BY <2>2, <2>3 DEF CarveInPool
  <2>4. CASE w < N - 1
    <3>1. N - w > 1 /\ w + 1 \in Slots
      BY <2>4 DEF Slots
    <3> QED
      BY <2>1, <2>2, <3>1 DEF CarveInPool
  <2> QED
    BY <2>1, <2>3, <2>4
<1> QED
  BY <1>1, <1>2

\* The header mempool_alloc writes behind the slot it hands out always lies in
\* the pool, in a slot nobody holds (mempool.c:114-116).
THEOREM CarveSafe == PoolSpec => []CarveInPool
<1> QED
  BY FreeListCorrect, CarveIsSafe, PTL

\* Every step of mempool.c is a step its callers may expect of an allocator:
\* a free slot is handed out, or the pool is full, or a slot is given back.
LEMMA StepImplements ==
    PoolTypeOK /\ FreeListExact /\ [PoolNext]_poolVars => [Promise!Next]_(Promise!vars)
<1> SUFFICES ASSUME PoolTypeOK, FreeListExact, [PoolNext]_poolVars
             PROVE  Promise!Next \/ UNCHANGED <<owned, given>>
  BY DEF Promise!vars
<1> USE NAssumption
<1> PICK n \in 0..N, w \in 1..N : \E f \in [1..n -> 0 .. w-1] :
            FreeListIs(n, w, f) /\ \A i \in 1..n : f[i] \in Slots
  BY Witnesses
<1> PICK f \in [1..n -> 0 .. w-1] :
            FreeListIs(n, w, f) /\ \A i \in 1..n : f[i] \in Slots
  OBVIOUS
<1>1. head # -1 => head \in Slots \ owned /\ hdr[head].num_slots >= 1
  <2>1. CASE n > 0
    <3>1. n \in 1..n /\ hdr[f[n]] = Hdr(IF n = 1 THEN WildLink(w) ELSE f[n-1], 1)
      BY <2>1 DEF FreeListIs
    <3>2. head = f[n] /\ f[n] \notin owned /\ f[n] \in Slots
      BY <2>1, <3>1 DEF FreeListIs
    <3> QED
      BY <3>1, <3>2 DEF Hdr
  <2>2. CASE n = 0
    BY <2>2 DEF FreeListIs, WildLink, Hdr, Slots
  <2> QED
    BY <2>1, <2>2
<1>2. head = -1 => owned = Slots
  <2> SUFFICES ASSUME head = -1 PROVE owned = Slots
    OBVIOUS
  <2>1. n = 0
    BY DEF FreeListIs, Slots
  <2>2. w = N
    BY <2>1 DEF FreeListIs, WildLink
  <2> QED
    BY <2>1, <2>2 DEF FreeListIs, Slots
<1>3. CASE AllocFails
  BY <1>1, <1>2, <1>3 DEF AllocFails, PoolTypeOK, Headers, Promise!Next,
     Promise!Exhausted, Promise!NoSlot, NoSlot
<1>4. CASE AllocSingle \/ AllocCarve
  BY <1>1, <1>4 DEF AllocSingle, AllocCarve, HandOut, Promise!Next, Promise!Alloc
<1>5. CASE \E s \in Slots : Free(s)
  BY <1>5 DEF Free, Promise!Next, Promise!Free
<1>6. CASE \E s \in Slots, j \in Junk : UserWrite(s, j)
  BY <1>6 DEF UserWrite
<1>7. CASE UNCHANGED poolVars
  BY <1>7 DEF poolVars
<1> QED
  BY <1>3, <1>4, <1>5, <1>6, <1>7 DEF PoolNext

\* mempool.c implements the allocator its callers rely on: it never hands out a
\* slot that is held and never fails while a slot is free.
THEOREM MempoolImplementsAllocator == PoolSpec => AllocatorPromise
<1>1. PoolInit => Promise!Init
  BY DEF PoolInit, Promise!Init, NoSlot, Promise!NoSlot
<1> QED
  BY <1>1, FreeListCorrect, StepImplements, PTL
     DEF PoolSpec, AllocatorPromise, Promise!Spec
=============================================================================
