------------------------------- MODULE KeyMap -------------------------------
(***************************************************************************)
(* What the hash table promises its callers (hashtable.h): a map from keys *)
(* to values, where a key that is not in the map has the value NULL.       *)
(***************************************************************************)
CONSTANTS Keys, Vals, NULL

VARIABLES
    map,     \* map[k]: the value of k, NULL if k is not in the map
    ret      \* the lookup that was the last call: its key and what it returned, else NULL

vars == <<map, ret>>

Init == /\ map = [k \in Keys |-> NULL]
        /\ ret = NULL

Upsert(k, v) == /\ map' = [map EXCEPT ![k] = v]
                /\ ret' = NULL

Remove(k) == /\ map' = [map EXCEPT ![k] = NULL]
             /\ ret' = NULL

Find(k) == /\ ret' = <<k, map[k]>>
           /\ UNCHANGED map

Next == \E k \in Keys : Remove(k) \/ Find(k) \/ \E v \in Vals : Upsert(k, v)

Spec == Init /\ [][Next]_vars
=============================================================================
