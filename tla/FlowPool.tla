------------------------------ MODULE FlowPool ------------------------------
(***************************************************************************)
(* The table of tracked flows or sensors of one worker                     *)
(* (src/src/flow_pool.c): a hash table from key to entry number, and a     *)
(* bump index.  Entry numbers are handed out in order and never come back; *)
(* the entries themselves belong to the profile that owns the pool.        *)
(***************************************************************************)
EXTENDS Integers

CONSTANTS Keys,      \* flow_key5 or sensor_key
          Capacity   \* max_flows_per_worker or max_sensors_per_worker

ASSUME PoolAssumption == Capacity \in Nat \ {0}

VARIABLES hash,      \* key -> entry number; -1 is a lookup that finds nothing
          next_free

vars == <<hash, next_free>>

Entries == 0 .. Capacity - 1

Tracked(k) == hash[k] >= 0

Init == /\ hash = [k \in Keys |-> -1]
        /\ next_free = 0

(* flow_pool_lookup_or_alloc: the three ways it can return. *)

Hit(k) ==
    /\ Tracked(k)
    /\ UNCHANGED vars

\* Wrong: the pool is never found full.
AllocUnchecked(k) ==
    /\ ~Tracked(k)
    /\ hash' = [hash EXCEPT ![k] = next_free]
    /\ next_free' = next_free + 1

\* The caller receives entry hash'[k], zeroed.
Alloc(k) ==
    /\ ~Tracked(k)
    /\ next_free < Capacity
    /\ hash' = [hash EXCEPT ![k] = next_free]
    /\ next_free' = next_free + 1

\* Wrong: an entry number is given back that was never taken.
NoEntryGivesBack(k) ==
    /\ ~Tracked(k)
    /\ next_free > 0
    /\ next_free' = next_free - 1
    /\ UNCHANGED hash

\* NULL: every entry was handed out, or the hash table has no room for the
\* key and the entry number just taken is given back.
NoEntry(k) ==
    /\ ~Tracked(k)
    /\ UNCHANGED vars

LookupOrAlloc(k) == Hit(k) \/ Alloc(k) \/ NoEntry(k)

\* flow_pool_del: the key goes, its entry number is not reused.
Del(k) ==
    /\ hash' = [hash EXCEPT ![k] = -1]
    /\ UNCHANGED next_free

Next == \E k \in Keys : LookupOrAlloc(k) \/ Del(k)

Spec == Init /\ [][Next]_vars

-----------------------------------------------------------------------------
(* Type invariant: entry numbers stay inside the array flow_pool_init      *)
(* allocated, and below the bump index.                                    *)
TypeOK ==
    /\ next_free \in 0 .. Capacity
    /\ hash \in [Keys -> -1 .. next_free - 1]

(***************************************************************************)
(* Safety: two keys never share an entry, so the window of one flow or     *)
(* sensor is never mixed with another's (flow_pool_lookup_or_alloc).       *)
(***************************************************************************)
OneKeyPerEntry ==
    \A k, l \in Keys : Tracked(k) /\ hash[k] = hash[l] => k = l
=============================================================================
