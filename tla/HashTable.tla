------------------------------ MODULE HashTable ------------------------------
(***************************************************************************)
(* The hash table (hashtable.c), cell by cell, and the table of pending    *)
(* reads (dlog.c) as the one that is visited while the function called for *)
(* an entry removes that entry or adds another one.  The first entry of a  *)
(* bucket lies in the table, the others are allocated: a pointer to an     *)
(* allocated cell that was freed may find it as it was, or used again, or  *)
(* bring the process down.                                                 *)
(***************************************************************************)
EXTENDS Integers, FiniteSets

CONSTANTS
    Keys,         \* keys: descriptor numbers, or pointers to strings
    Vals,         \* values: pointers to descriptors
    NumBuckets,   \* num_buckets
    Nodes,        \* the cells calloc may return
    NULL

\* find and remove take key 0 in a first cell for an empty cell.
ASSUME TableAssumption == /\ Keys \subseteq Nat \ {0}
                          /\ NumBuckets \in Nat \ {0}
                          /\ IsFiniteSet(Nodes)
                          /\ Nodes \cap Int = {}
                          /\ NULL \notin Vals \cup Nodes \cup Int

Buckets == 0..(NumBuckets - 1)    \* the first cells
Cells == Buckets \cup Nodes

VARIABLES
    el,        \* el[c]: the ht_element in cell c
    alloc,     \* the cells that are allocated
    ret,       \* the last call, if it was an ht_find: its key and what it returned
    visit,     \* the ht_visit in progress: its bucket i, the next cell it has saved
               \* (tmpe), and the key and value it called the visitor with
    stage,     \* "none" | "call" | "removed" | "added": how far the visitor is
    down,      \* the process ended in ht_remove, which reads the cell it has freed
    crashed,   \* it ended in ht_visit, which followed a link to a freed cell
    moved,     \* during this visit an entry was moved to a first cell (history)
    visited,   \* the entries the visitor was called for (history)
    again,     \* one of them was visited twice (history)
    stays,     \* the entries that have been in the table since the visit began (history)
    missed     \* those of them the last visit did not call the visitor for (history)

visitVars == <<visit, stage, crashed, moved, visited, again, stays, missed>>
vars == <<el, alloc, ret, down, visitVars>>

Empty == [key |-> 0, val |-> NULL, next |-> NULL]
NoVisit == [bucket |-> 0, next |-> NULL, key |-> 0, val |-> NULL]

\* ht_create
Init == /\ el = [c \in Cells |-> Empty]
        /\ alloc = {}
        /\ ret = NULL
        /\ visit = NoVisit /\ stage = "none"
        /\ down = FALSE /\ crashed = FALSE /\ moved = FALSE /\ again = FALSE
        /\ visited = {} /\ stays = {} /\ missed = {}

-----------------------------------------------------------------------------
\* _hash, for integer keys
Bucket(k) == k % NumBuckets

\* The n-th cell of bucket b, from 0, or NULL
CellAt(b, n) ==
    LET at[i \in 0..n] == IF i = 0 THEN b
                          ELSE IF at[i-1] = NULL THEN NULL ELSE el[at[i-1]].next
    IN at[n]

Chain(b) == {CellAt(b, n) : n \in 0..Cardinality(Nodes)} \ {NULL}
Last(b) == CHOOSE c \in Chain(b) : el[c].next = NULL

\* The cells of k's bucket that hold k.
Matches(k) == {c \in Chain(Bucket(k)) : el[c].key = k}

\* The first cell is free, or k is there and gets another value, or it goes last.
ht_upsert(k, v) ==
    LET head == Bucket(k) IN
    IF el[head].val = NULL
    THEN /\ el' = [el EXCEPT ![head].key = k, ![head].val = v]
         /\ UNCHANGED alloc
    ELSE IF Matches(k) # {}
    THEN /\ el' = [c \in Cells |-> IF c \in Matches(k) THEN [el[c] EXCEPT !.val = v] ELSE el[c]]
         /\ UNCHANGED alloc
    ELSE \E new \in Nodes \ alloc :
            /\ el' = [el EXCEPT ![Last(head)].next = new,
                                ![new] = [key |-> k, val |-> v, next |-> NULL]]
            /\ alloc' = alloc \cup {new}

\* Bug: the entry of the first cell is taken for k's without a comparison.
FindsFirst(k) == el[Bucket(k)].val

ht_find(k) == IF Matches(k) = {} THEN NULL ELSE el[CHOOSE c \in Matches(k) : TRUE].val

\* Bug: the second cell is copied to the first, and stays in the chain.
CopyWithoutUnlink(head) ==
    /\ el' = [el EXCEPT ![head] = [el[el[head].next] EXCEPT !.next = el[head].next]]
    /\ UNCHANGED alloc

\* The first cell of a bucket cannot be freed: it takes over the second one.
MoveToFirst(head) == LET second == el[head].next IN
                     /\ el' = [el EXCEPT ![head] = el[second]]
                     /\ alloc' = alloc \ {second}

\* The two ways an entry leaves the table.  The caller's key is freed as well: who owns
\* keys is not modelled.
ht_remove(k) ==
    LET head == Bucket(k) IN
    IF head \in Matches(k)
    THEN IF el[head].next = NULL
         THEN el' = [el EXCEPT ![head] = Empty] /\ UNCHANGED alloc
         ELSE MoveToFirst(head)
    ELSE IF Matches(k) = {} THEN UNCHANGED <<el, alloc>>
    ELSE \E c \in Matches(k) :
            /\ \E before \in Chain(head) :
                  /\ el[before].next = c
                  /\ el' = [el EXCEPT ![before].next = el[c].next]
            /\ alloc' = alloc \ {c}

\* k is in the first cell of its bucket, and not alone.
Moves(k) == Bucket(k) \in Matches(k) /\ el[Bucket(k)].next # NULL

\* The loop of ht_remove behind the first cell goes on by the link of the cell it has
\* freed: that is still there, or the process ends.
ReadsFreed(k) == Matches(k) # {} /\ Bucket(k) \notin Matches(k)
Survives(k) == down' \in {FALSE, ReadsFreed(k)}

-----------------------------------------------------------------------------
Alive == ~crashed /\ ~down
Ready == Alive /\ stage = "none"

Upsert(k, v) == Ready /\ ht_upsert(k, v) /\ ret' = NULL /\ UNCHANGED <<down, visitVars>>

Find(k) == Ready /\ ret' = <<k, ht_find(k)>> /\ UNCHANGED <<el, alloc, down, visitVars>>

Remove(k) == /\ Ready
             /\ ht_remove(k) /\ Survives(k) /\ ret' = NULL
             /\ UNCHANGED visitVars

\* The first bucket from b on that is not empty.
NextBucket(b) ==
    LET full == {i \in Buckets : i >= b /\ el[i].val # NULL}
    IN IF full = {} THEN NULL ELSE CHOOSE i \in full : \A j \in full : i <= j

\* The visit is at cell c of bucket b, whose link it saves before the call.
At(b, c) == [bucket |-> b, next |-> el[c].next, key |-> el[c].key, val |-> el[c].val]

Calls(b, c) == /\ visit' = At(b, c)
               /\ stage' = "call"
               /\ visited' = visited \cup {el[c].key}
               /\ again' = (again \/ el[c].key \in visited)
               /\ UNCHANGED <<stays, missed>>

Ends == /\ visit' = NoVisit /\ stage' = "none"
        /\ missed' = stays \ visited
        /\ visited' = {} /\ stays' = {}
        /\ UNCHANGED again

Present == {k \in Keys : Matches(k) # {}}

\* desc_pending_drain_all: ht_visit calls the visitor for the first entry.
VisitBegins == /\ Ready /\ Present # {}
               /\ LET b == NextBucket(0) IN
                    /\ visit' = At(b, b)
                    /\ visited' = {el[b].key}
               /\ stage' = "call"
               /\ stays' = Present
               /\ moved' = FALSE /\ again' = FALSE /\ missed' = {}
               /\ UNCHANGED <<el, alloc, ret, down, crashed>>

\* _read_pending: the descriptor is read to its end and leaves the table.
ReadsToEnd == /\ Alive /\ stage = "call"
              /\ ht_remove(visit.key) /\ Survives(visit.key) /\ ret' = NULL
              /\ moved' = (moved \/ Moves(visit.key))
              /\ visited' = visited \ {visit.key}
              /\ stays' = stays \ {visit.key}
              /\ stage' = "removed"
              /\ UNCHANGED <<visit, crashed, again, missed>>

\* A deleted file is reopened, perhaps under another number, and is pending again.
Reopens(k) == /\ Alive /\ stage = "removed"
              /\ ht_upsert(k, visit.val) /\ ret' = NULL
              /\ stage' = "added"
              /\ UNCHANGED <<down, visit, crashed, moved, visited, again, stays, missed>>

\* Bug: the link is read after the call.
NextNow == el[visit.bucket].next

\* The link saved before the call.
NextSaved == visit.next

\* The visitor returns.  The next cell is followed although it may be freed.
Advances ==
    /\ Alive /\ stage # "none"
    /\ \/ /\ LET b == NextBucket(visit.bucket + 1) IN
                IF NextSaved # NULL /\ el[NextSaved].val # NULL
                THEN Calls(visit.bucket, NextSaved)
                ELSE IF b # NULL THEN Calls(b, b) ELSE Ends
          /\ UNCHANGED crashed
       \/ /\ NextSaved \in Nodes \ alloc
          /\ crashed' = TRUE
          /\ UNCHANGED <<visit, stage, visited, again, stays, missed>>
    /\ UNCHANGED <<el, alloc, ret, down, moved>>

Next == \/ \E k \in Keys : \/ Find(k) \/ Remove(k) \/ Reopens(k)
                           \/ \E v \in Vals : Upsert(k, v)
        \/ VisitBegins \/ ReadsToEnd \/ Advances

Spec == Init /\ [][Next]_vars

-----------------------------------------------------------------------------
\* Cells hold entries or nothing.
TypeOK == /\ el \in [Cells -> [key : Keys \cup {0}, val : Vals \cup {NULL},
                              next : Nodes \cup {NULL}]]
          /\ alloc \subseteq Nodes
          /\ ret \in (Keys \X (Vals \cup {NULL})) \cup {NULL}
          /\ visit \in [bucket : Buckets, next : Nodes \cup {NULL},
                        key : Keys \cup {0}, val : Vals \cup {NULL}]
          /\ stage \in {"none", "call", "removed", "added"}
          /\ {down, crashed, moved, again} \subseteq BOOLEAN
          /\ visited \cup stays \cup missed \subseteq Keys

\* Whatever is done in and outside visits: a bucket is a chain of allocated cells
\* that no other bucket shares, every entry is in the bucket of its key, no key is
\* there twice, no allocated cell is lost, and an empty first cell has no successor.
ChainsExact ==
    /\ TypeOK
    /\ \A b \in Buckets :
          /\ Chain(b) \subseteq {b} \cup alloc
          /\ \E c \in Chain(b) : el[c].next = NULL
          /\ el[b].val = NULL => el[b] = Empty
          /\ \A c \in Chain(b) : el[c].val # NULL => Bucket(el[c].key) = b
          /\ \A c, d \in Chain(b) : el[c].key = el[d].key => c = d
    /\ \A b, c \in Buckets : b # c => Chain(b) \cap Chain(c) = {}
    /\ alloc = (UNION {Chain(b) : b \in Buckets}) \ Buckets

\* The table is the map of hashtable.h, as its callers see it between any two calls,
\* calls by a visitor included.
Contents == [k \in Keys |-> IF \E c \in Chain(Bucket(k)) : el[c].key = k
                            THEN el[CHOOSE c \in Chain(Bucket(k)) : el[c].key = k].val
                            ELSE NULL]

Map == INSTANCE KeyMap WITH map <- Contents, ret <- ret
TableIsMap == Map!Spec

\* A visit of the pending reads calls the visitor once for every entry that stays in
\* the table and follows no link to a freed cell, although the visitor removes the entry
\* it was called for and adds others, unless it removes the first of several entries of
\* a bucket: two pending descriptors whose numbers agree modulo the number of buckets,
\* the first of them read to its end.  (That ht_remove itself reads the cell it has
\* freed is the other matter of down.)
VisitsExactly == ~moved => missed = {} /\ ~again /\ ~crashed
=============================================================================
