----------------------------- MODULE MCStorage -----------------------------
(* The hash table and the memory pool, which share no variable: each of them *)
(* is explored while the other is at rest.                                   *)
EXTENDS HashTable, Mempool, TLC

Symm == Permutations(Nodes) \cup Permutations(Vals)

\* Bytes a caller may leave in a slot: what looks like the header of a run, or like
\* a single slot whose link leads out of the pool.
MCJunk == {Hdr(N, 1), Hdr(-1, 2)}

\* The pool as it was created, in memory that reads the same everywhere.
PoolAtRest == /\ head = 0 /\ owned = {} /\ given = NoSlot
              /\ \A s \in Slots \ {0, 1} : hdr[s] = Hdr(-1, 2)

TableStep(A) == PoolAtRest /\ A /\ UNCHANGED poolVars
PoolStep(A) == Init /\ A /\ UNCHANGED vars

StorageInit == Init /\ PoolInit
StorageNext == TableStep(Next) \/ PoolStep(PoolNext)

StorageSpec == StorageInit /\ [][StorageNext]_<<vars, poolVars>>
=============================================================================
