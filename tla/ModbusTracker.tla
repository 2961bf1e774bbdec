--------------------------- MODULE ModbusTracker ---------------------------
(***************************************************************************)
(* The table of outstanding Modbus requests of one worker                  *)
(* (src/src/modbus_tracker.c): a hash table from (transaction id, unit id) *)
(* to a slot, an array of slots, and a stack of the free slot numbers.     *)
(* Only the worker that owns the tracker calls it, one call at a time.     *)
(***************************************************************************)
EXTENDS Integers, FiniteSets

CONSTANTS Keys,        \* struct modbus_req_key
          Requests,    \* struct modbus_pending_request, what the take reads
          NoRequest,   \* the content of a slot never written
          Capacity     \* 8192 in ics_init_worker

ASSUME TrackerAssumption == /\ Capacity \in Nat \ {0}
                            /\ NoRequest \notin Requests

VARIABLES hash,        \* key -> slot number; -1 is a lookup that finds nothing
          pool,        \* slot number -> request
          free_stack,  \* stack of free slots; entries from free_top up are stale
          free_top,
          reply        \* what the last call returned to the caller

vars == <<hash, pool, free_stack, free_top, reply>>

Slots == 0 .. Capacity - 1

Live == {k \in Keys : hash[k] >= 0}
Free == {free_stack[i] : i \in 0 .. free_top - 1}

Reply(ok, r) == [ok |-> ok, req |-> r]

\* Wrong: slots numbered from 1.
InitOffByOne ==
    /\ hash = [k \in Keys |-> -1]
    /\ pool = [s \in Slots |-> NoRequest]
    /\ free_stack = [i \in Slots |-> Capacity - i]
    /\ free_top = Capacity
    /\ reply = Reply(TRUE, NoRequest)

Init ==
    /\ hash = [k \in Keys |-> -1]
    /\ pool = [s \in Slots |-> NoRequest]
    /\ free_stack = [i \in Slots |-> Capacity - 1 - i]
    /\ free_top = Capacity
    /\ reply = Reply(TRUE, NoRequest)

-----------------------------------------------------------------------------
(* modbus_tracker_add *)

\* Wrong: a pending identifier keeps its older request.
AddAgainKeepsOld(k, r) ==
    /\ k \in Live
    /\ reply' = Reply(TRUE, NoRequest)
    /\ UNCHANGED <<hash, pool, free_stack, free_top>>

\* The identifier is already pending: its slot is overwritten in place.
AddAgain(k, r) ==
    /\ k \in Live
    /\ pool' = [pool EXCEPT ![hash[k]] = r]
    /\ reply' = Reply(TRUE, NoRequest)
    /\ UNCHANGED <<hash, free_stack, free_top>>

AddNew(k, r) ==
    /\ k \notin Live
    /\ free_top > 0
    /\ free_top' = free_top - 1
    /\ hash' = [hash EXCEPT ![k] = free_stack[free_top - 1]]
    /\ pool' = [pool EXCEPT ![free_stack[free_top - 1]] = r]
    /\ reply' = Reply(TRUE, NoRequest)
    /\ UNCHANGED free_stack

AddNoSlot(k) ==
    /\ k \notin Live
    /\ free_top = 0
    /\ reply' = Reply(FALSE, NoRequest)
    /\ UNCHANGED <<hash, pool, free_stack, free_top>>

\* Wrong: the slot popped is not pushed back.
AddRejectedLosesSlot(k) ==
    /\ k \notin Live
    /\ free_top > 0
    /\ free_top' = free_top - 1
    /\ reply' = Reply(FALSE, NoRequest)
    /\ UNCHANGED <<hash, pool, free_stack>>

\* The hash table has no room for the key (its buckets can fill before all
\* its entries are used): the slot popped is pushed back where it was.
AddRejected(k) ==
    /\ k \notin Live
    /\ free_top > 0
    /\ reply' = Reply(FALSE, NoRequest)
    /\ UNCHANGED <<hash, pool, free_stack, free_top>>

Add(k, r) == AddAgain(k, r) \/ AddNew(k, r) \/ AddNoSlot(k) \/ AddRejected(k)

-----------------------------------------------------------------------------
(* modbus_tracker_take *)

\* Wrong: the key stays in the hash table.
TakeFoundKeepsKey(k) ==
    /\ k \in Live
    /\ free_top < Capacity
    /\ reply' = Reply(TRUE, pool[hash[k]])
    /\ free_stack' = [free_stack EXCEPT ![free_top] = hash[k]]
    /\ free_top' = free_top + 1
    /\ UNCHANGED <<hash, pool>>

TakeFound(k) ==
    /\ k \in Live
    /\ reply' = Reply(TRUE, pool[hash[k]])
    /\ hash' = [hash EXCEPT ![k] = -1]
    /\ IF free_top < Capacity
         THEN /\ free_stack' = [free_stack EXCEPT ![free_top] = hash[k]]
              /\ free_top' = free_top + 1
         ELSE UNCHANGED <<free_stack, free_top>>
    /\ UNCHANGED pool

TakeMissing(k) ==
    /\ k \notin Live
    /\ reply' = Reply(FALSE, NoRequest)
    /\ UNCHANGED <<hash, pool, free_stack, free_top>>

Take(k) == TakeFound(k) \/ TakeMissing(k)

Next == \E k \in Keys : (\E r \in Requests : Add(k, r)) \/ Take(k)

Spec == Init /\ [][Next]_vars

-----------------------------------------------------------------------------
(***************************************************************************)
(* Type invariant: every index kept in the hash table and in the free      *)
(* stack is one of the Capacity slots allocated by modbus_tracker_init.    *)
(***************************************************************************)
TypeOK ==
    /\ hash \in [Keys -> -1 .. Capacity - 1]
    /\ pool \in [Slots -> Requests \cup {NoRequest}]
    /\ free_stack \in [Slots -> Slots]
    /\ free_top \in 0 .. Capacity
    /\ reply \in [ok : BOOLEAN, req : Requests \cup {NoRequest}]

StackDistinct ==
    \A i, j \in 0 .. free_top - 1 : free_stack[i] = free_stack[j] => i = j

OneKeyPerSlot == \A k, l \in Live : hash[k] = hash[l] => k = l

LiveNotFree == \A k \in Live : hash[k] \notin Free

NoSlotLost == \A s \in Slots : s \in Free \/ \E k \in Live : hash[k] = s

(***************************************************************************)
(* Safety: at every moment each slot is either on the free stack, once, or *)
(* held by exactly one pending identifier.  No sequence of adds, refused   *)
(* adds and takes makes two requests share a slot, frees a slot twice or   *)
(* loses one for the rest of the run (modbus_tracker_add and _take).       *)
(***************************************************************************)
SlotsPartitioned ==
    StackDistinct /\ OneKeyPerSlot /\ LiveNotFree /\ NoSlotLost

(***************************************************************************)
(* Refinement: the tracker is a bounded map that remembers the most recent *)
(* request of each identifier, hands it back once, and refuses only a new  *)
(* identifier: a retransmitted request is never refused.                   *)
(***************************************************************************)
Abstract == INSTANCE PendingRequests WITH
    pending <- [k \in Keys |-> IF k \in Live THEN pool[hash[k]] ELSE NoRequest]

RefinesPendingRequests == Abstract!Spec
=============================================================================
