---------------------------- MODULE FeatureQueue ----------------------------
(***************************************************************************)
(* The ring of feature vectors between a profile and its worker            *)
(* (struct feature_queue in src/include/profiles.h).  push and pop run on  *)
(* the same lcore.                                                         *)
(***************************************************************************)
EXTENDS Integers, Sequences

CONSTANTS Items,     \* feature vectors with their ids
          NoItem,    \* the content of a place never written
          Size       \* APP_FEATURE_QUEUE_SIZE, not 0

VARIABLES items, head, tail, count, dropped

vars == <<items, head, tail, count, dropped>>

Places == 0 .. Size - 1

Init == /\ items = [p \in Places |-> NoItem]
        /\ head = 0
        /\ tail = 0
        /\ count = 0
        /\ dropped = 0

PushStored(x) ==
    /\ count # Size
    /\ items' = [items EXCEPT ![tail] = x]
    /\ tail' = (tail + 1) % Size
    /\ count' = count + 1
    /\ UNCHANGED <<head, dropped>>

\* Wrong: a full queue overwrites its oldest vector.
PushOverwrites(x) ==
    /\ count = Size
    /\ items' = [items EXCEPT ![tail] = x]
    /\ dropped' = dropped + 1
    /\ UNCHANGED <<head, tail, count>>

PushDropped(x) ==
    /\ count = Size
    /\ dropped' = dropped + 1
    /\ UNCHANGED <<items, head, tail, count>>

Push(x) == PushStored(x) \/ PushDropped(x)

\* Wrong: the vector is read but stays in the ring.
PopStays == count # 0 /\ UNCHANGED vars

\* The caller receives items[head].
Pop ==
    /\ count # 0
    /\ head' = (head + 1) % Size
    /\ count' = count - 1
    /\ UNCHANGED <<items, tail, dropped>>

Next == (\E x \in Items : Push(x)) \/ Pop

Spec == Init /\ [][Next]_vars

\* The vectors in the ring, oldest first.
Content == [i \in 1 .. count |-> items[(head + i - 1) % Size]]

\* What the ring implements.
Fifo == INSTANCE BoundedFifo WITH buffer <- Content, lost <- dropped

-----------------------------------------------------------------------------
\* Type invariant: head, tail and count stay inside the ring.
TypeOK ==
    /\ items \in [Places -> Items \cup {NoItem}]
    /\ head \in Places
    /\ tail \in Places
    /\ count \in 0 .. Size
    /\ dropped \in Nat
=============================================================================
