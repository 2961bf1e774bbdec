------------------------ MODULE ModbusTrackerProofs ------------------------
(***************************************************************************)
(* Proofs about the request tracker, for every capacity and every set of   *)
(* identifiers.                                                            *)
(***************************************************************************)
EXTENDS ModbusTracker, FiniteSetTheorems, TLAPS

(***************************************************************************)
(* The inductive invariant.  The partition of the slots is not inductive   *)
(* alone: modbus_tracker_take pushes a slot only below the capacity, so    *)
(* one must know that the stack is never full while a key is live, which   *)
(* the count of live keys gives.                                           *)
(***************************************************************************)
SlotsCounted == IsFiniteSet(Live) /\ Cardinality(Live) + free_top = Capacity

PartitionInv == SlotsPartitioned /\ SlotsCounted

-----------------------------------------------------------------------------
\* Type correctness: every index in the hash table and on the free stack is
\* a slot modbus_tracker_init allocated, after any sequence of calls.
THEOREM TypeCorrect == Spec => []TypeOK
<1> USE TrackerAssumption DEF TypeOK, Slots
<1>1. Init => TypeOK
  BY SMT DEF Init, Reply
<1>2. TypeOK /\ [Next]_vars => TypeOK'
  <2> SUFFICES ASSUME TypeOK, [Next]_vars PROVE TypeOK'
    OBVIOUS
  <2>1. \A ok \in BOOLEAN, r \in Requests \cup {NoRequest} :
           Reply(ok, r) \in [ok : BOOLEAN, req : Requests \cup {NoRequest}]
    BY DEF Reply
  <2>2. \A k \in Live : hash[k] \in Slots
    BY DEF Live
  <2>3. ASSUME NEW k \in Keys, NEW r \in Requests, Add(k, r) PROVE TypeOK'
    <3>1. CASE AddAgain(k, r)
      BY <2>1, <2>2, <3>1 DEF AddAgain
    <3>2. CASE AddNew(k, r)
      <4>1. free_stack[free_top - 1] \in Slots
        BY <3>2 DEF AddNew
      <4>2. hash' \in [Keys -> -1 .. Capacity - 1]
        BY <3>2, <4>1 DEF AddNew
      <4>3. pool' \in [Slots -> Requests \cup {NoRequest}]
        BY <3>2, <4>1 DEF AddNew
      <4>4. free_top' \in 0 .. Capacity
        BY <3>2 DEF AddNew
      <4>5. /\ free_stack' \in [Slots -> Slots]
            /\ reply' \in [ok : BOOLEAN, req : Requests \cup {NoRequest}]
        BY <2>1, <3>2 DEF AddNew
      <4> QED BY <4>2, <4>3, <4>4, <4>5
    <3>3. CASE AddNoSlot(k)
      BY <2>1, <3>3 DEF AddNoSlot
    <3>4. CASE AddRejected(k)
      BY <2>1, <3>4 DEF AddRejected
    <3> QED BY <2>3, <3>1, <3>2, <3>3, <3>4 DEF Add
  <2>4. ASSUME NEW k \in Keys, Take(k) PROVE TypeOK'
    <3>1. CASE TakeFound(k)
      <4>1. hash[k] \in Slots /\ pool[hash[k]] \in Requests \cup {NoRequest}
        BY <2>2, <3>1 DEF TakeFound
      <4>2. /\ hash' \in [Keys -> -1 .. Capacity - 1]
            /\ pool' = pool
        BY <3>1 DEF TakeFound
      <4>3. reply' \in [ok : BOOLEAN, req : Requests \cup {NoRequest}]
        BY <2>1, <3>1, <4>1 DEF TakeFound
      <4>4. free_stack' \in [Slots -> Slots] /\ free_top' \in 0 .. Capacity
        <5>1. CASE free_top < Capacity
          <6>1. /\ free_stack' = [free_stack EXCEPT ![free_top] = hash[k]]
                /\ free_top' = free_top + 1
            BY <3>1, <5>1 DEF TakeFound
          <6>2. free_top' \in 0 .. Capacity
            BY <5>1, <6>1
          <6>3. free_stack' \in [Slots -> Slots]
            BY <4>1, <6>1
          <6> QED BY <6>2, <6>3
        <5>2. CASE ~(free_top < Capacity)
          BY <3>1, <5>2 DEF TakeFound
        <5> QED BY <5>1, <5>2
      <4> QED BY <4>2, <4>3, <4>4
    <3>2. CASE TakeMissing(k)
      BY <2>1, <3>2 DEF TakeMissing
    <3> QED BY <2>4, <3>1, <3>2 DEF Take
  <2>5. CASE UNCHANGED vars
    BY <2>5 DEF vars
  <2> QED BY <2>3, <2>4, <2>5 DEF Next
<1> QED BY <1>1, <1>2, PTL DEF Spec

-----------------------------------------------------------------------------
(* What the two operations that change the hash table do to its keys. *)

LEMMA AddNewLive ==
  ASSUME TypeOK, NEW k \in Keys, NEW r \in Requests, AddNew(k, r)
  PROVE  /\ free_stack[free_top - 1] \in Slots
         /\ hash' = [hash EXCEPT ![k] = free_stack[free_top - 1]]
         /\ Live' = Live \cup {k}
<1>1. free_top \in Nat /\ free_top > 0 /\ free_top - 1 \in Slots
  BY TrackerAssumption DEF AddNew, TypeOK, Slots
<1>2. free_stack[free_top - 1] \in Slots
  BY <1>1 DEF TypeOK
<1>3. hash' = [hash EXCEPT ![k] = free_stack[free_top - 1]]
  BY DEF AddNew
<1>4. \A x \in Keys : hash'[x] >= 0 <=> x = k \/ hash[x] >= 0
  BY <1>2, <1>3 DEF TypeOK, Slots
<1> QED BY <1>2, <1>3, <1>4 DEF Live

\* A slot is never pushed on a full stack while its key is live.
LEMMA TakeFoundLive ==
  ASSUME TypeOK, PartitionInv, NEW k \in Keys, TakeFound(k)
  PROVE  /\ hash[k] \in Slots
         /\ free_top < Capacity
         /\ hash' = [hash EXCEPT ![k] = -1]
         /\ free_stack' = [free_stack EXCEPT ![free_top] = hash[k]]
         /\ free_top' = free_top + 1
         /\ Live' = Live \ {k}
<1>1. k \in Live /\ hash[k] \in Slots
  BY DEF TakeFound, Live, TypeOK, Slots
<1>2. Cardinality(Live) \in Nat /\ Cardinality(Live) # 0
  BY <1>1, FS_CardinalityType, FS_EmptySet DEF PartitionInv, SlotsCounted
<1>3. free_top < Capacity
  BY <1>2, TrackerAssumption DEF PartitionInv, SlotsCounted, TypeOK
<1>4. /\ hash' = [hash EXCEPT ![k] = -1]
      /\ free_stack' = [free_stack EXCEPT ![free_top] = hash[k]]
      /\ free_top' = free_top + 1
  BY <1>3 DEF TakeFound
<1>5. \A x \in Keys : hash'[x] >= 0 <=> x # k /\ hash[x] >= 0
  BY <1>4 DEF TypeOK
<1> QED BY <1>1, <1>3, <1>4, <1>5 DEF Live

-----------------------------------------------------------------------------
(* The steps that keep the partition.  A call that changes neither the     *)
(* hash table nor the stack keeps it at once (PartitionStutters).          *)

LEMMA PartitionInit == Init => PartitionInv
<1> SUFFICES ASSUME Init PROVE PartitionInv
  OBVIOUS
<1>1. Live = {} /\ free_top = Capacity
  BY TrackerAssumption DEF Init, Live
<1>2. SlotsCounted
  BY <1>1, FS_EmptySet, TrackerAssumption DEF SlotsCounted
<1>3. \A s \in Slots : Capacity - 1 - s \in 0 .. free_top - 1
                      /\ free_stack[Capacity - 1 - s] = s
  BY TrackerAssumption DEF Init, Slots
<1>4. StackDistinct
  BY TrackerAssumption DEF Init, Slots, StackDistinct
<1>5. NoSlotLost
  BY <1>3 DEF NoSlotLost, Free
<1> QED
  BY <1>1, <1>2, <1>4, <1>5
  DEF PartitionInv, SlotsPartitioned, OneKeyPerSlot, LiveNotFree

LEMMA PartitionStutters ==
  ASSUME PartitionInv, UNCHANGED <<hash, free_stack, free_top>>
  PROVE  PartitionInv'
BY DEF PartitionInv, SlotsPartitioned, SlotsCounted, StackDistinct,
       OneKeyPerSlot, LiveNotFree, NoSlotLost, Live, Free, Slots

LEMMA AddNewKeepsPartition ==
  ASSUME TypeOK, PartitionInv, NEW k \in Keys, NEW r \in Requests, AddNew(k, r)
  PROVE  PartitionInv'
<1> DEFINE top == free_stack[free_top - 1]
<1>1. /\ top \in Slots
      /\ hash' = [hash EXCEPT ![k] = top]
      /\ Live' = Live \cup {k}
  BY AddNewLive
<1>2. /\ free_top \in 1 .. Capacity
      /\ free_top' = free_top - 1
      /\ free_stack' = free_stack
      /\ k \notin Live
  BY TrackerAssumption DEF AddNew, TypeOK
<1>3. top \in Free
  BY <1>2 DEF Free
<1>4. Free' = Free \ {top}
  <2>1. \A i \in 0 .. free_top - 1 : free_stack[i] = top <=> i = free_top - 1
    BY <1>2 DEF PartitionInv, SlotsPartitioned, StackDistinct
  <2>2. 0 .. free_top' - 1 = (0 .. free_top - 1) \ {free_top - 1}
    BY <1>2
  <2> QED BY <1>2, <2>1, <2>2 DEF Free
<1>5. StackDistinct'
  BY <1>2 DEF PartitionInv, SlotsPartitioned, StackDistinct
<1>6. /\ hash'[k] = top
      /\ \A l \in Live : l # k /\ hash'[l] = hash[l] /\ hash[l] # top
  BY <1>1, <1>2, <1>3
  DEF TypeOK, Live, PartitionInv, SlotsPartitioned, LiveNotFree
<1>7. OneKeyPerSlot'
  BY <1>1, <1>6 DEF PartitionInv, SlotsPartitioned, OneKeyPerSlot
<1>8. LiveNotFree'
  BY <1>1, <1>4, <1>6 DEF PartitionInv, SlotsPartitioned, LiveNotFree
<1>9. NoSlotLost'
  BY <1>1, <1>4, <1>6 DEF PartitionInv, SlotsPartitioned, NoSlotLost, Slots
<1>10. SlotsCounted'
  <2>1. /\ IsFiniteSet(Live \cup {k})
        /\ Cardinality(Live \cup {k}) = Cardinality(Live) + 1
    BY <1>2, FS_AddElement DEF PartitionInv, SlotsCounted
  <2>2. Cardinality(Live) \in Nat
    BY FS_CardinalityType DEF PartitionInv, SlotsCounted
  <2> QED
    BY <1>1, <1>2, <2>1, <2>2, TrackerAssumption
    DEF PartitionInv, SlotsCounted
<1> QED
  BY <1>5, <1>7, <1>8, <1>9, <1>10 DEF PartitionInv, SlotsPartitioned

LEMMA TakeFoundKeepsPartition ==
  ASSUME TypeOK, PartitionInv, NEW k \in Keys, TakeFound(k)
  PROVE  PartitionInv'
<1> DEFINE h == hash[k]
<1>1. /\ h \in Slots
      /\ free_top < Capacity
      /\ hash' = [hash EXCEPT ![k] = -1]
      /\ free_stack' = [free_stack EXCEPT ![free_top] = h]
      /\ free_top' = free_top + 1
      /\ Live' = Live \ {k}
  BY TakeFoundLive
<1>2. k \in Live /\ h \notin Free
  BY DEF TakeFound, PartitionInv, SlotsPartitioned, LiveNotFree
<1>3. free_top \in 0 .. Capacity - 1
  BY <1>1, TrackerAssumption DEF TypeOK
<1>4. /\ free_stack'[free_top] = h
      /\ \A i \in 0 .. free_top - 1 : free_stack'[i] = free_stack[i]
      /\ 0 .. free_top' - 1 = (0 .. free_top - 1) \cup {free_top}
  BY <1>1, <1>3 DEF TypeOK, Slots
<1>5. Free' = Free \cup {h}
  BY <1>4 DEF Free
<1>6. StackDistinct'
  <2> SUFFICES ASSUME NEW i \in 0 .. free_top' - 1, NEW j \in 0 .. free_top' - 1,
                      free_stack'[i] = free_stack'[j]
               PROVE  i = j
    BY DEF StackDistinct
  <2>1. CASE i = free_top \/ j = free_top
    BY <1>2, <1>4, <2>1 DEF Free
  <2>2. CASE i # free_top /\ j # free_top
    BY <1>4, <2>2 DEF PartitionInv, SlotsPartitioned, StackDistinct
  <2> QED BY <2>1, <2>2
<1>7. \A l \in Live' : l \in Live /\ hash'[l] = hash[l] /\ hash[l] # h
  BY <1>1, <1>2
  DEF TypeOK, Live, PartitionInv, SlotsPartitioned, OneKeyPerSlot
<1>8. OneKeyPerSlot'
  BY <1>7 DEF PartitionInv, SlotsPartitioned, OneKeyPerSlot
<1>9. LiveNotFree'
  BY <1>5, <1>7 DEF PartitionInv, SlotsPartitioned, LiveNotFree
<1>10. NoSlotLost'
  <2> SUFFICES ASSUME NEW s \in Slots, s \notin Free'
               PROVE  \E l \in Live' : hash'[l] = s
    BY DEF NoSlotLost, Slots
  <2>1. PICK l \in Live : hash[l] = s
    BY <1>5 DEF PartitionInv, SlotsPartitioned, NoSlotLost
  <2> QED BY <1>1, <1>5, <1>7, <2>1
<1>11. SlotsCounted'
  <2>1. /\ IsFiniteSet(Live \ {k})
        /\ Cardinality(Live \ {k}) = Cardinality(Live) - 1
    BY <1>2, FS_RemoveElement DEF PartitionInv, SlotsCounted
  <2>2. Cardinality(Live) \in Nat
    BY FS_CardinalityType DEF PartitionInv, SlotsCounted
  <2> QED
    BY <1>1, <1>3, <2>1, <2>2, TrackerAssumption
    DEF PartitionInv, SlotsCounted
<1> QED
  BY <1>6, <1>8, <1>9, <1>10, <1>11 DEF PartitionInv, SlotsPartitioned

LEMMA PartitionSteps ==
  ASSUME TypeOK, PartitionInv, [Next]_vars PROVE PartitionInv'
<1>1. ASSUME NEW k \in Keys, NEW r \in Requests, Add(k, r) PROVE PartitionInv'
  BY <1>1, AddNewKeepsPartition, PartitionStutters
  DEF Add, AddAgain, AddNoSlot, AddRejected
<1>2. ASSUME NEW k \in Keys, Take(k) PROVE PartitionInv'
  BY <1>2, TakeFoundKeepsPartition, PartitionStutters DEF Take, TakeMissing
<1>3. CASE UNCHANGED vars
  BY <1>3, PartitionStutters DEF vars
<1> QED BY <1>1, <1>2, <1>3 DEF Next

\* No sequence of adds, refused adds and takes makes two identifiers share a
\* slot, frees a slot twice or loses one (modbus_tracker_add and _take).
THEOREM SlotsArePartitioned == Spec => []SlotsPartitioned
<1>1. TypeOK /\ PartitionInv /\ [Next]_vars => PartitionInv'
  BY PartitionSteps
<1>2. PartitionInv => SlotsPartitioned
  BY DEF PartitionInv
<1> QED BY <1>1, <1>2, PartitionInit, TypeCorrect, PTL DEF Spec

-----------------------------------------------------------------------------
(***************************************************************************)
(* The refinement.  A live key always has a written slot, so the requests  *)
(* the abstract map holds are those of the live keys.                      *)
(***************************************************************************)
LiveWritten == \A k \in Live : pool[hash[k]] \in Requests

pendingBar == [k \in Keys |-> IF k \in Live THEN pool[hash[k]] ELSE NoRequest]

LEMMA WrittenSteps ==
  ASSUME TypeOK, PartitionInv, LiveWritten, [Next]_vars
  PROVE  LiveWritten'
<1>1. ASSUME NEW k \in Keys, NEW r \in Requests, AddAgain(k, r)
      PROVE  LiveWritten'
  BY <1>1 DEF AddAgain, LiveWritten, Live, TypeOK, Slots
<1>2. ASSUME NEW k \in Keys, NEW r \in Requests, AddNew(k, r)
      PROVE  LiveWritten'
  <2>1. pool' = [pool EXCEPT ![free_stack[free_top - 1]] = r]
    BY <1>2 DEF AddNew
  <2> QED BY <1>2, <2>1, AddNewLive DEF LiveWritten, Live, TypeOK
<1>3. ASSUME NEW k \in Keys, TakeFound(k) PROVE LiveWritten'
  <2>1. pool' = pool
    BY <1>3 DEF TakeFound
  <2> QED BY <1>3, <2>1, TakeFoundLive DEF LiveWritten, TypeOK, Live
<1>4. ASSUME UNCHANGED <<hash, pool>> PROVE LiveWritten'
  BY <1>4 DEF LiveWritten, Live
<1> QED
  BY <1>1, <1>2, <1>3, <1>4
  DEF Next, Add, Take, AddNoSlot, AddRejected, TakeMissing, vars

LEMMA OpenIsLive ==
  ASSUME LiveWritten
  PROVE  Abstract!Open = Live /\ \A k \in Live : pendingBar[k] = pool[hash[k]]
BY TrackerAssumption DEF LiveWritten, Abstract!Open, pendingBar, Live

(* Each operation of the tracker is one of the abstract map. *)

LEMMA AddAgainStores ==
  ASSUME TypeOK, PartitionInv, LiveWritten,
         NEW k \in Keys, NEW r \in Requests, AddAgain(k, r)
  PROVE  Abstract!Store(k, r)
<1>1. /\ k \in Live /\ Live' = Live
      /\ hash' = hash
      /\ pool' = [pool EXCEPT ![hash[k]] = r]
      /\ reply' = Reply(TRUE, NoRequest)
  BY DEF AddAgain, Live
<1>2. \A l \in Live : pool'[hash[l]] = IF l = k THEN r ELSE pool[hash[l]]
  BY <1>1
  DEF TypeOK, Slots, Live, PartitionInv, SlotsPartitioned, OneKeyPerSlot
<1>3. pendingBar' = [pendingBar EXCEPT ![k] = r]
  BY <1>1, <1>2 DEF pendingBar
<1> QED
  BY <1>1, <1>3, OpenIsLive
  DEF Abstract!Store, Abstract!Reply, Reply, pendingBar

LEMMA AddNewStores ==
  ASSUME TypeOK, PartitionInv, LiveWritten,
         NEW k \in Keys, NEW r \in Requests, AddNew(k, r)
  PROVE  Abstract!Store(k, r)
<1> DEFINE top == free_stack[free_top - 1]
<1>1. /\ top \in Slots
      /\ hash' = [hash EXCEPT ![k] = top]
      /\ Live' = Live \cup {k}
  BY AddNewLive
<1>2. /\ free_top \in 1 .. Capacity
      /\ k \notin Live
      /\ pool' = [pool EXCEPT ![top] = r]
      /\ reply' = Reply(TRUE, NoRequest)
  BY TrackerAssumption DEF AddNew, TypeOK
<1>3. top \in Free
  BY <1>2 DEF Free
<1>4. \A l \in Live : /\ l # k /\ hash'[l] = hash[l]
                     /\ pool'[hash[l]] = pool[hash[l]]
  BY <1>1, <1>2, <1>3
  DEF TypeOK, Live, PartitionInv, SlotsPartitioned, LiveNotFree
<1>5. hash'[k] = top /\ pool'[top] = r
  BY <1>1, <1>2 DEF TypeOK
<1>6. pendingBar' = [pendingBar EXCEPT ![k] = r]
  <2> DEFINE held(l) == IF l \in Live THEN pool[hash[l]] ELSE NoRequest
  <2>1. \A l \in Keys : held(l)' = IF l = k THEN r ELSE held(l)
    BY <1>1, <1>4, <1>5
  <2> QED BY <2>1 DEF pendingBar
<1>7. Cardinality(Live) < Capacity
  BY <1>2, FS_CardinalityType, TrackerAssumption DEF PartitionInv, SlotsCounted
<1>8. Abstract!Cardinality(Abstract!Open) < Capacity
  <2>1. Abstract!Cardinality(Live) = Cardinality(Live)
    BY DEF Abstract!Cardinality, Cardinality, Abstract!IsFiniteSet, IsFiniteSet
  <2> QED BY <1>7, <2>1, OpenIsLive
<1> QED
  BY <1>2, <1>6, <1>8 DEF Abstract!Store, Abstract!Reply, Reply, pendingBar

LEMMA TakeFoundTakes ==
  ASSUME TypeOK, PartitionInv, LiveWritten, NEW k \in Keys, TakeFound(k)
  PROVE  Abstract!Take(k)
<1>1. /\ k \in Live
      /\ pool' = pool
      /\ reply' = Reply(TRUE, pool[hash[k]])
      /\ hash' = [hash EXCEPT ![k] = -1]
      /\ Live' = Live \ {k}
  BY TakeFoundLive DEF TakeFound
<1>2. \A l \in Live' : pool'[hash'[l]] = pool[hash[l]]
  BY <1>1 DEF TypeOK, Live
<1>3. pendingBar' = [pendingBar EXCEPT ![k] = NoRequest]
  BY <1>1, <1>2 DEF pendingBar
<1> QED
  BY <1>1, <1>3, OpenIsLive
  DEF Abstract!Take, Abstract!Reply, Reply, pendingBar, Live

LEMMA RefusalsRefuse ==
  ASSUME LiveWritten, NEW k \in Keys
  PROVE  /\ AddNoSlot(k) \/ AddRejected(k) => Abstract!Refuse(k)
         /\ TakeMissing(k) => Abstract!Unmatched(k)
<1>1. UNCHANGED <<hash, pool>> => UNCHANGED pendingBar
  BY DEF pendingBar, Live
<1> QED
  BY <1>1, OpenIsLive
  DEF AddNoSlot, AddRejected, TakeMissing, Abstract!Refuse, Abstract!Unmatched,
      Abstract!Reply, Reply, pendingBar

\* The same, as the requests the tracker would hand back.
LEMMA PendingChanges ==
  ASSUME TypeOK, PartitionInv, LiveWritten, NEW k \in Keys
  PROVE  /\ \A r \in Requests : Add(k, r) =>
              \/ pendingBar' = [pendingBar EXCEPT ![k] = r]
              \/ pendingBar' = pendingBar /\ pendingBar[k] = NoRequest
         /\ TakeFound(k) =>
              /\ pendingBar[k] \in Requests
              /\ reply' = Reply(TRUE, pendingBar[k])
              /\ pendingBar' = [pendingBar EXCEPT ![k] = NoRequest]
         /\ UNCHANGED <<hash, pool>> => pendingBar' = pendingBar
<1>1. UNCHANGED <<hash, pool>> => pendingBar' = pendingBar
  BY DEF pendingBar, Live
<1>2. ASSUME NEW r \in Requests, AddAgain(k, r) \/ AddNew(k, r)
      PROVE  pendingBar' = [pendingBar EXCEPT ![k] = r]
  BY <1>2, AddAgainStores, AddNewStores DEF Abstract!Store, pendingBar
<1>3. ASSUME NEW r \in Requests, Add(k, r)
      PROVE  \/ pendingBar' = [pendingBar EXCEPT ![k] = r]
             \/ pendingBar' = pendingBar /\ pendingBar[k] = NoRequest
  <2>1. k \notin Live => pendingBar[k] = NoRequest
    BY DEF pendingBar
  <2> QED BY <1>1, <1>2, <1>3, <2>1 DEF Add, AddNoSlot, AddRejected
<1>4. ASSUME TakeFound(k)
      PROVE  /\ pendingBar[k] \in Requests
             /\ reply' = Reply(TRUE, pendingBar[k])
             /\ pendingBar' = [pendingBar EXCEPT ![k] = NoRequest]
  <2>1. pendingBar' = [pendingBar EXCEPT ![k] = NoRequest]
    BY <1>4, TakeFoundTakes DEF Abstract!Take, pendingBar
  <2>2. k \in Live /\ reply' = Reply(TRUE, pool[hash[k]])
    BY <1>4 DEF TakeFound
  <2> QED BY <2>1, <2>2 DEF pendingBar, LiveWritten
<1> QED BY <1>1, <1>3, <1>4

\* The tracker implements the bounded map of PendingRequests: it remembers
\* the last request of each identifier, hands it back once, and refuses only
\* identifiers that are not pending (modbus_tracker_add and _take).
THEOREM ImplementsPendingRequests == Spec => RefinesPendingRequests
<1>1. Init => Abstract!Init /\ LiveWritten
  BY DEF Init, Live, LiveWritten, Reply, Abstract!Init, Abstract!Reply
<1>2. TypeOK /\ PartitionInv /\ LiveWritten /\ [Next]_vars
        => LiveWritten' /\ [Abstract!Next]_(Abstract!vars)
  <2> SUFFICES ASSUME TypeOK, PartitionInv, LiveWritten, [Next]_vars
               PROVE  [Abstract!Next]_(Abstract!vars)
    BY WrittenSteps
  <2>1. ASSUME NEW k \in Keys, NEW r \in Requests, Add(k, r)
        PROVE  Abstract!Next
    BY <2>1, AddAgainStores, AddNewStores, RefusalsRefuse
    DEF Add, Abstract!Next
  <2>2. ASSUME NEW k \in Keys, Take(k) PROVE Abstract!Next
    BY <2>2, TakeFoundTakes, RefusalsRefuse DEF Take, Abstract!Next
  <2>3. CASE UNCHANGED vars
    BY <2>3 DEF vars, Abstract!vars, Live
  <2> QED BY <2>1, <2>2, <2>3 DEF Next
<1>3. TypeOK /\ PartitionInv /\ [Next]_vars => PartitionInv'
  BY PartitionSteps
<1> QED
  BY <1>1, <1>2, <1>3, PartitionInit, TypeCorrect, PTL
  DEF Spec, RefinesPendingRequests, Abstract!Spec

\* What a profile that calls the tracker may rely on: besides the partition,
\* a pending identifier leads to a request that was stored
\* (modbus_tracker_take).
THEOREM TrackerHolds == Spec => [](TypeOK /\ PartitionInv /\ LiveWritten)
<1>1. Init => LiveWritten
  BY DEF Init, Live, LiveWritten
<1>2. TypeOK /\ PartitionInv /\ LiveWritten /\ [Next]_vars => LiveWritten'
  BY WrittenSteps
<1>3. TypeOK /\ PartitionInv /\ [Next]_vars => PartitionInv'
  BY PartitionSteps
<1> QED BY <1>1, <1>2, <1>3, PartitionInit, TypeCorrect, PTL DEF Spec
=============================================================================
