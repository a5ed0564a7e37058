---------------------------- MODULE SlotAllocator ----------------------------
(***************************************************************************)
(* What a pool of fixed-size slots promises its callers (mempool.h): an    *)
(* allocation hands out a slot nobody holds, and fails only when every     *)
(* slot is held.  Which free slot is handed out is left open.              *)
(***************************************************************************)
EXTENDS Integers

CONSTANT Slots    \* the slots of the pool

VARIABLES
    owned,        \* the slots the callers hold
    ret           \* what the last allocation returned: a slot, or NoSlot

vars == <<owned, ret>>

NoSlot == -1

Init == owned = {} /\ ret = NoSlot

Alloc == \E s \in Slots \ owned :
            /\ owned' = owned \cup {s}
            /\ ret' = s

Exhausted == /\ owned = Slots
             /\ ret' = NoSlot
             /\ UNCHANGED owned

Free == \E s \in owned :
            /\ owned' = owned \ {s}
            /\ UNCHANGED ret

Next == Alloc \/ Exhausted \/ Free

Spec == Init /\ [][Next]_vars
=============================================================================
