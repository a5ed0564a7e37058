------------------------------- MODULE Mempool -------------------------------
(***************************************************************************)
(* The fixed-size slot allocator of mempool.c.  Free slots are kept in a   *)
(* list threaded through the slots themselves: the first bytes of a free   *)
(* slot are a slot_hdr.  Slots never handed out yet form one "wild" run at *)
(* the end of the pool, described by the header of its first slot.  While  *)
(* a slot is held, its header bytes belong to the caller and may hold      *)
(* anything.                                                               *)
(***************************************************************************)
EXTENDS Integers

CONSTANTS
    N,       \* number of slots in the pool (num_slots)
    Junk     \* header values that a caller's data, or fresh memory, may spell

Headers == [free_next : Int, num_slots : Int]

\* mempool_create_from_buffer writes the headers of slots 0 and 1, so a pool
\* has at least two (the smallest bucket of dlog.c has 50).
ASSUME NAssumption == N \in Nat /\ N >= 2
ASSUME JunkAssumption == Junk \subseteq Headers /\ Junk # {}

Slots == 0 .. N-1
NoSlot == -1

VARIABLES
    head,    \* free_list_head: a slot, or -1
    hdr,     \* hdr[s]: the slot_hdr spelled by the first bytes of slot s
    owned,   \* the slots the callers hold (history)
    given    \* what the last mempool_alloc returned

poolVars == <<head, hdr, owned, given>>

Hdr(next, num) == [free_next |-> next, num_slots |-> num]

(***************************************************************************)
(* mempool_create_from_buffer.  Slots 2.. are left as they were found.     *)
(***************************************************************************)
\* Bug: the run that starts at slot 1 is taken for the whole pool.
WildRunTooLong == Hdr(-1, N)

WildRun == Hdr(-1, N-1)

PoolInit == /\ head = 0
            /\ \E j \in [Slots -> Junk] :
                  hdr = [j EXCEPT ![0] = Hdr(1, 1), ![1] = WildRun]
            /\ owned = {}
            /\ given = NoSlot

HandOut(s) == /\ given' = s
              /\ owned' = owned \cup {s}

\* mempool_alloc: nothing free, or a header that describes no slot.
AllocFails == /\ head # -1 => hdr[head].num_slots < 1
              /\ given' = NoSlot
              /\ UNCHANGED <<head, hdr, owned>>

\* mempool_alloc, the head of the list is a single slot: unlink it.
AllocSingle == /\ head # -1
               /\ hdr[head].num_slots = 1
               /\ HandOut(head)
               /\ head' = hdr[head].free_next
               /\ UNCHANGED hdr

\* Bug: the run keeps its length.
CarveSameLength(h, s) == [h EXCEPT ![s+1] = Hdr(-1, h[s].num_slots)]

\* The rest of the run that starts at s becomes a run of its own.
Carve(h, s) == [h EXCEPT ![s+1] = Hdr(-1, h[s].num_slots - 1)]

\* mempool_alloc, the head of the list is the wild run: carve off its first.
AllocCarve == /\ head # -1
              /\ hdr[head].num_slots > 1
              /\ HandOut(head)
              /\ hdr' = Carve(hdr, head)
              /\ head' = IF head + 1 = N THEN -1 ELSE head + 1

\* Bug: the freed slot does not point at the rest of the list.
FreeDropsRest(h, s, hd) == [h EXCEPT ![s] = Hdr(-1, 1)]

\* mempool_free writes the header of the freed slot and makes it the head.
FreedHeader(h, s, hd) == [h EXCEPT ![s] = Hdr(hd, 1)]

Free(s) == /\ s \in owned
           /\ hdr' = FreedHeader(hdr, s, head)
           /\ head' = s
           /\ owned' = owned \ {s}
           /\ UNCHANGED given

\* The holder of a slot stores its data in it.
UserWrite(s, j) == /\ s \in owned
                   /\ hdr' = [hdr EXCEPT ![s] = j]
                   /\ UNCHANGED <<head, owned, given>>

PoolNext == \/ AllocFails
            \/ AllocSingle
            \/ AllocCarve
            \/ \E s \in Slots : Free(s)
            \/ \E s \in Slots, j \in Junk : UserWrite(s, j)

PoolSpec == PoolInit /\ [][PoolNext]_poolVars

-----------------------------------------------------------------------------
\* The head is a slot or -1, headers are pairs of integers, and only slots of
\* the pool are ever handed out by mempool_alloc.
PoolTypeOK == /\ head \in Slots \cup {-1}
              /\ hdr \in [Slots -> Headers]
              /\ owned \subseteq Slots
              /\ given \in Slots \cup {NoSlot}

\* The free_next that ends a list of single slots: the wild run that starts at
\* w, or -1 when the pool has no slot left that was never handed out.
WildLink(w) == IF w = N THEN -1 ELSE w

\* The free list is exactly this: a stack f[1..n] of single slots, top f[n],
\* that were handed out before and are free again, ending in the wild run
\* w .. N-1; everything else is held by a caller.
FreeListIs(n, w, f) ==
    /\ \A i \in 1..n, j \in 1..n : f[i] = f[j] => i = j
    /\ \A i \in 1..n :
          hdr[f[i]] = Hdr(IF i = 1 THEN WildLink(w) ELSE f[i-1], 1)
    /\ w < N => hdr[w] = Hdr(-1, N - w)
    /\ head = IF n = 0 THEN WildLink(w) ELSE f[n]
    /\ owned = {s \in 0 .. w-1 : \A i \in 1..n : f[i] # s}

\* mempool_alloc and mempool_free keep the list threaded through the free slots
\* exact, whatever the callers write into the slots they hold.
FreeListExact ==
    \E n \in 0..N, w \in 1..N : \E f \in [1..n -> 0 .. w-1] : FreeListIs(n, w, f)

\* The header that mempool_alloc writes into the slot after the one it hands
\* out (mempool.c:114-116) lies in the pool and in a slot nobody holds.
CarveInPool ==
    head # -1 => \/ hdr[head].num_slots = 1
                 \/ /\ hdr[head].num_slots > 1
                    /\ head + 1 \in Slots \ owned

Promise == INSTANCE SlotAllocator WITH ret <- given

\* The pool keeps the allocator's promise: it never hands out a slot that is
\* held, and it reports exhaustion only when every slot is held.
AllocatorPromise == Promise!Spec
=============================================================================
