---------------------------- MODULE StoreProofs ----------------------------
(***************************************************************************)
(* Proofs about the two stores every profile is built on: the pool of      *)
(* flows or sensors, for every capacity and every set of keys, and the     *)
(* ring of feature vectors, a bounded first-in first-out buffer for every  *)
(* size and every set of vectors.                                          *)
(***************************************************************************)
EXTENDS FlowPool, SequenceTheorems, TLAPS

CONSTANTS Items, NoItem, Size                    \* of FeatureQueue
VARIABLES items, head, tail, count, dropped      \* of FeatureQueue

Queue == INSTANCE FeatureQueue

-----------------------------------------------------------------------------
(* The pool *)

\* Type correctness: an entry number is inside the array of entries and
\* below the bump index (flow_pool_lookup_or_alloc).
THEOREM PoolTypeCorrect == Spec => []TypeOK
<1> USE PoolAssumption DEF TypeOK
<1>1. Init => TypeOK
  BY DEF Init
<1>2. ASSUME TypeOK, NEW k \in Keys, Alloc(k) PROVE TypeOK'
  <2>1. next_free \in 0 .. Capacity /\ next_free' = next_free + 1
    BY <1>2 DEF Alloc
  <2>2. next_free' \in 0 .. Capacity
    BY <1>2, <2>1 DEF Alloc
  <2>3. hash' = [hash EXCEPT ![k] = next_free]
    BY <1>2 DEF Alloc
  <2>4. -1 .. next_free - 1 \subseteq -1 .. next_free' - 1
    BY <2>1
  <2>5. next_free \in -1 .. next_free' - 1
    BY <2>1
  <2> QED BY <1>2, <2>2, <2>3, <2>4, <2>5
<1>3. ASSUME TypeOK, NEW k \in Keys, Del(k) PROVE TypeOK'
  BY <1>3 DEF Del
<1>4. ASSUME TypeOK, UNCHANGED vars PROVE TypeOK'
  BY <1>4 DEF vars
<1>5. TypeOK /\ [Next]_vars => TypeOK'
  BY <1>2, <1>3, <1>4 DEF Next, LookupOrAlloc, Hit, NoEntry
<1> QED BY <1>1, <1>5, PTL DEF Spec

\* Two keys never share an entry: a new key gets the bump index, above every
\* number in use, and a number given back was never entered in the hash
\* table (flow_pool_lookup_or_alloc).
THEOREM EntriesNotShared == Spec => []OneKeyPerEntry
<1>1. Init => OneKeyPerEntry
  BY DEF Init, OneKeyPerEntry, Tracked
<1>2. TypeOK /\ OneKeyPerEntry /\ [Next]_vars => OneKeyPerEntry'
  <2> SUFFICES ASSUME TypeOK, OneKeyPerEntry, [Next]_vars
               PROVE  OneKeyPerEntry'
    OBVIOUS
  <2>1. ASSUME NEW k \in Keys, Alloc(k) PROVE OneKeyPerEntry'
    <3>1. hash' = [hash EXCEPT ![k] = next_free]
      BY <2>1 DEF Alloc
    <3>2. \A l \in Keys : hash[l] # next_free
      BY PoolAssumption DEF TypeOK
    <3> QED BY <3>1, <3>2 DEF TypeOK, OneKeyPerEntry, Tracked
  <2>2. ASSUME NEW k \in Keys, Del(k) PROVE OneKeyPerEntry'
    BY <2>2 DEF Del, TypeOK, OneKeyPerEntry, Tracked
  <2>3. CASE UNCHANGED vars
    BY <2>3 DEF vars, OneKeyPerEntry, Tracked
  <2> QED BY <2>1, <2>2, <2>3 DEF Next, LookupOrAlloc, Hit, NoEntry
<1> QED BY <1>1, <1>2, PoolTypeCorrect, PTL DEF Spec

-----------------------------------------------------------------------------
(* The ring *)

\* A position less than one turn past the end of the ring.
LEMMA WrapOnce ==
  ASSUME Size \in Nat \ {0}, NEW a \in 0 .. 2 * Size - 1
  PROVE  a % Size = IF a < Size THEN a ELSE a - Size
  OBVIOUS

\* head and tail stay count places apart.
RingInv == Queue!TypeOK /\ tail = (head + count) % Size

LEMMA RingInit == ASSUME Size \in Nat \ {0}, Queue!Init PROVE RingInv
BY WrapOnce DEF Queue!Init, RingInv, Queue!TypeOK, Queue!Places

LEMMA StoreKeepsRing ==
  ASSUME Size \in Nat \ {0}, RingInv, NEW x \in Items, Queue!PushStored(x)
  PROVE  RingInv'
<1>1. /\ head \in Queue!Places /\ tail \in Queue!Places /\ count \in 0 .. Size - 1
      /\ tail = (head + count) % Size
  BY DEF RingInv, Queue!TypeOK, Queue!PushStored, Queue!Places
<1>2. /\ head' = head /\ count' = count + 1 /\ tail' = (tail + 1) % Size
      /\ items' = [items EXCEPT ![tail] = x] /\ dropped' = dropped
  BY DEF Queue!PushStored
<1>3. tail' \in Queue!Places /\ tail' = (head' + count') % Size
  <2>1. tail' = IF tail + 1 < Size THEN tail + 1 ELSE tail + 1 - Size
    BY <1>1, <1>2, WrapOnce DEF Queue!Places
  <2>2. tail = IF head + count < Size THEN head + count ELSE head + count - Size
    BY <1>1, WrapOnce DEF Queue!Places
  <2>3. (head + (count + 1)) % Size
          = IF head + (count + 1) < Size THEN head + (count + 1)
                                         ELSE head + (count + 1) - Size
    BY <1>1, WrapOnce DEF Queue!Places
  <2> QED BY <1>1, <1>2, <2>1, <2>2, <2>3 DEF Queue!Places
<1>4. items' \in [Queue!Places -> Items \cup {NoItem}]
  BY <1>1, <1>2 DEF RingInv, Queue!TypeOK
<1>5. count' \in 0 .. Size
  BY <1>1, <1>2
<1> QED BY <1>2, <1>3, <1>4, <1>5, <1>1 DEF RingInv, Queue!TypeOK, Queue!Places

LEMMA PopKeepsRing ==
  ASSUME Size \in Nat \ {0}, RingInv, Queue!Pop
  PROVE  RingInv'
<1>1. /\ head \in Queue!Places /\ tail \in Queue!Places /\ count \in 1 .. Size
      /\ tail = (head + count) % Size
  BY DEF RingInv, Queue!TypeOK, Queue!Pop, Queue!Places
<1>2. /\ head' = (head + 1) % Size /\ count' = count - 1
      /\ UNCHANGED <<items, tail, dropped>>
  BY DEF Queue!Pop
<1>3. head' = IF head + 1 < Size THEN head + 1 ELSE head + 1 - Size
  BY <1>1, <1>2, WrapOnce DEF Queue!Places
<1>4. (head + count) % Size
        = IF head + count < Size THEN head + count ELSE head + count - Size
  BY <1>1, WrapOnce DEF Queue!Places
<1>5. (head' + count') % Size
        = IF head' + count' < Size THEN head' + count' ELSE head' + count' - Size
  BY <1>1, <1>2, <1>3, WrapOnce DEF Queue!Places
<1>6. head' \in Queue!Places /\ count' \in 0 .. Size /\ tail' = (head' + count') % Size
  BY <1>1, <1>2, <1>3, <1>4, <1>5 DEF Queue!Places
<1> QED BY <1>2, <1>6 DEF RingInv, Queue!TypeOK, Queue!Places

LEMMA RingSteps ==
  ASSUME Size \in Nat \ {0}, RingInv, [Queue!Next]_(Queue!vars) PROVE RingInv'
<1>1. ASSUME NEW x \in Items, Queue!PushDropped(x) PROVE RingInv'
  BY <1>1 DEF Queue!PushDropped, RingInv, Queue!TypeOK, Queue!Places
<1>2. ASSUME UNCHANGED Queue!vars PROVE RingInv'
  BY <1>2 DEF Queue!vars, RingInv, Queue!TypeOK, Queue!Places
<1> QED BY <1>1, <1>2, StoreKeepsRing, PopKeepsRing DEF Queue!Next, Queue!Push

-----------------------------------------------------------------------------
(* The ring read from its head is the buffer. *)

Contents == Items \cup {NoItem}

\* c consecutive places of a ring, from place h.
Ring(its, h, c) == [j \in 1 .. c |-> its[(h + j - 1) % Size]]

LEMMA RingIsSeq ==
  ASSUME Size \in Nat \ {0}, NEW its \in [Queue!Places -> Contents],
         NEW h \in Queue!Places, NEW c \in 0 .. Size
  PROVE  /\ Ring(its, h, c) \in Seq(Contents) /\ Len(Ring(its, h, c)) = c
         /\ \A j \in 1 .. c : /\ (h + j - 1) % Size \in Queue!Places
                            /\ Ring(its, h, c)[j] = its[(h + j - 1) % Size]
<1>1. \A j \in 1 .. c : (h + j - 1) % Size \in Queue!Places
  BY WrapOnce DEF Queue!Places
<1>2. \A j \in 1 .. c : its[(h + j - 1) % Size] \in Contents
  BY <1>1
<1>3. c \in Nat
  OBVIOUS
<1> QED BY <1>1, <1>2, <1>3 DEF Ring

\* The first c places of a ring are not the one after them.
LEMMA RingPlacesDistinct ==
  ASSUME Size \in Nat \ {0}, NEW h \in Queue!Places, NEW c \in 0 .. Size - 1,
         NEW j \in 1 .. c
  PROVE  (h + j - 1) % Size # (h + c) % Size
<1>1. h + j - 1 \in 0 .. 2 * Size - 1 /\ h + c \in 0 .. 2 * Size - 1
  BY DEF Queue!Places
<1>2. (h + j - 1) % Size = IF h + j - 1 < Size THEN h + j - 1 ELSE h + j - 1 - Size
  BY <1>1, WrapOnce DEF Queue!Places
<1>3. (h + c) % Size = IF h + c < Size THEN h + c ELSE h + c - Size
  BY <1>1, WrapOnce DEF Queue!Places
<1> QED BY <1>2, <1>3 DEF Queue!Places

LEMMA ContentIs ==
  ASSUME Size \in Nat \ {0}, RingInv
  PROVE  /\ Queue!Content \in Seq(Contents) /\ Len(Queue!Content) = count
         /\ \A j \in 1 .. count : /\ (head + j - 1) % Size \in Queue!Places
                                 /\ Queue!Content[j] = items[(head + j - 1) % Size]
<1>1. /\ head \in Queue!Places /\ count \in 0 .. Size
      /\ items \in [Queue!Places -> Contents]
  BY DEF RingInv, Queue!TypeOK, Queue!Places, Contents
<1> DEFINE r == Ring(items, head, count)
<1>2. Queue!Content = r
  BY DEF Queue!Content, Ring
<1>3. /\ r \in Seq(Contents) /\ Len(r) = count
      /\ \A j \in 1 .. count : /\ (head + j - 1) % Size \in Queue!Places
                              /\ r[j] = items[(head + j - 1) % Size]
  BY <1>1, RingIsSeq
<1> HIDE DEF r
<1> QED BY <1>2, <1>3

LEMMA StorePuts ==
  ASSUME Size \in Nat \ {0}, RingInv, NEW x \in Items, Queue!PushStored(x)
  PROVE  Queue!Content' = Append(Queue!Content, x)
<1>1. /\ head \in Queue!Places /\ tail \in Queue!Places /\ count \in 0 .. Size - 1
      /\ tail = (head + count) % Size
      /\ items \in [Queue!Places -> Contents]
  BY DEF RingInv, Queue!TypeOK, Queue!PushStored, Queue!Places, Contents
<1>2. /\ head' = head /\ count' = count + 1
      /\ items' = [items EXCEPT ![tail] = x]
  BY DEF Queue!PushStored
<1>3. /\ Queue!Content' \in Seq(Contents) /\ Len(Queue!Content') = count + 1
      /\ \A j \in 1 .. count + 1 : Queue!Content'[j] = items'[(head + j - 1) % Size]
  <2> DEFINE its == items'
             h == head'
             c == count'
  <2>1. its \in [Queue!Places -> Contents] /\ h \in Queue!Places /\ c \in 0 .. Size
    BY StoreKeepsRing DEF RingInv, Queue!TypeOK, Contents, Queue!Places
  <2>2. Queue!Content' = Ring(its, h, c)
    BY DEF Queue!Content, Ring
  <2> HIDE DEF its, h, c
  <2>3. /\ Ring(its, h, c) \in Seq(Contents) /\ Len(Ring(its, h, c)) = c
        /\ \A j \in 1 .. c : Ring(its, h, c)[j] = its[(h + j - 1) % Size]
    BY <2>1, RingIsSeq
  <2>4. its = items' /\ h = head /\ c = count + 1
    BY <1>2 DEF its, h, c
  <2>5. Queue!Content' \in Seq(Contents) /\ Len(Queue!Content') = count + 1
    BY <2>2, <2>3, <2>4
  <2>6. ASSUME NEW j \in 1 .. count + 1
        PROVE  Queue!Content'[j] = items'[(head + j - 1) % Size]
    <3>1. Ring(its, h, c)[j] = its[(h + j - 1) % Size]
      BY <2>3, <2>4
    <3> QED BY <2>2, <2>4, <3>1
  <2> QED BY <2>5, <2>6
<1>4. \A j \in 1 .. count : (head + j - 1) % Size # tail
  BY <1>1, RingPlacesDistinct
<1>5. /\ Queue!Content \in Seq(Contents) /\ Len(Queue!Content) = count
      /\ \A j \in 1 .. count : /\ (head + j - 1) % Size \in Queue!Places
                              /\ Queue!Content[j] = items[(head + j - 1) % Size]
  BY ContentIs
<1>6. \A j \in 1 .. count : Queue!Content'[j] = Queue!Content[j]
  BY <1>1, <1>2, <1>3, <1>4, <1>5
<1>7. Queue!Content'[count + 1] = x
  <2>1. head + (count + 1) - 1 = head + count /\ count + 1 \in 1 .. count + 1
    BY <1>1 DEF Queue!Places
  <2> QED BY <1>1, <1>2, <1>3, <2>1
<1>8. /\ Append(Queue!Content, x) \in Seq(Contents)
      /\ Len(Append(Queue!Content, x)) = count + 1
      /\ \A j \in 1 .. count : Append(Queue!Content, x)[j] = Queue!Content[j]
      /\ Append(Queue!Content, x)[count + 1] = x
  BY <1>5, AppendProperties DEF Contents
<1> QED BY <1>1, <1>3, <1>6, <1>7, <1>8, SeqEqual

LEMMA PopGets ==
  ASSUME Size \in Nat \ {0}, RingInv, Queue!Pop
  PROVE  Queue!Content # <<>> /\ Queue!Content' = Tail(Queue!Content)
<1>1. /\ head \in Queue!Places /\ count \in 1 .. Size
      /\ items \in [Queue!Places -> Contents]
  BY DEF RingInv, Queue!TypeOK, Queue!Pop, Queue!Places, Contents
<1>2. head' = (head + 1) % Size /\ count' = count - 1 /\ items' = items
  BY DEF Queue!Pop
<1>3. /\ Queue!Content \in Seq(Contents) /\ Len(Queue!Content) = count
      /\ \A j \in 1 .. count : Queue!Content[j] = items[(head + j - 1) % Size]
  BY ContentIs
<1>4. /\ Queue!Content' \in Seq(Contents) /\ Len(Queue!Content') = count - 1
      /\ \A j \in 1 .. count - 1 : Queue!Content'[j] = items[(head' + j - 1) % Size]
  <2>1. /\ items' \in [Queue!Places -> Contents] /\ head' \in Queue!Places
        /\ count' \in 0 .. Size
    BY PopKeepsRing DEF RingInv, Queue!TypeOK, Contents, Queue!Places
  <2>2. Queue!Content' = Ring(items', head', count')
    BY DEF Queue!Content, Ring
  <2>3. /\ Queue!Content' \in Seq(Contents) /\ Len(Queue!Content') = count'
        /\ \A j \in 1 .. count' : Queue!Content'[j] = items'[(head' + j - 1) % Size]
    BY <2>1, <2>2, RingIsSeq
  <2> QED BY <1>2, <2>3
<1>5. \A j \in 1 .. count - 1 : (head' + j - 1) % Size = (head + (j + 1) - 1) % Size
  <2> TAKE j \in 1 .. count - 1
  <2>0. head \in 0 .. Size - 1 /\ j \in 1 .. Size - 1
    BY <1>1 DEF Queue!Places
  <2>1. head' = IF head + 1 < Size THEN head + 1 ELSE head + 1 - Size
    BY <1>2, <2>0, WrapOnce
  <2>2. /\ head' + j - 1 \in 0 .. 2 * Size - 1
        /\ head + (j + 1) - 1 \in 0 .. 2 * Size - 1
    BY <2>0, <2>1
  <2>3. (head' + j - 1) % Size
          = IF head' + j - 1 < Size THEN head' + j - 1 ELSE head' + j - 1 - Size
    BY <2>0, <2>1, <2>2, WrapOnce
  <2>4. (head + (j + 1) - 1) % Size
          = IF head + (j + 1) - 1 < Size THEN head + (j + 1) - 1
                                         ELSE head + (j + 1) - 1 - Size
    BY <2>0, <2>1, <2>2, WrapOnce
  <2> QED BY <2>0, <2>1, <2>3, <2>4
<1>6. Queue!Content # <<>>
  BY <1>1, <1>3, EmptySeq
<1>7. /\ Tail(Queue!Content) \in Seq(Contents) /\ Len(Tail(Queue!Content)) = count - 1
      /\ \A j \in 1 .. count - 1 : Tail(Queue!Content)[j] = Queue!Content[j + 1]
  BY <1>3, <1>6, HeadTailProperties
<1>8. \A j \in 1 .. count - 1 : Queue!Content'[j] = Tail(Queue!Content)[j]
  <2> TAKE j \in 1 .. count - 1
  <2>1. j + 1 \in 1 .. count
    BY <1>1
  <2> QED BY <1>3, <1>4, <1>5, <1>7, <2>1
<1> QED BY <1>4, <1>6, <1>7, <1>8, SeqEqual

-----------------------------------------------------------------------------
(* Every occupied place holds a vector that was pushed. *)

HoldsVectors == Queue!Content \in Seq(Items)

LEMMA HoldsVectorsSteps ==
  ASSUME Size \in Nat \ {0}, RingInv, HoldsVectors, [Queue!Next]_(Queue!vars)
  PROVE  HoldsVectors'
<1>1. ASSUME NEW x \in Items, Queue!PushStored(x) PROVE HoldsVectors'
  BY <1>1, StorePuts, AppendProperties DEF HoldsVectors
<1>2. ASSUME NEW x \in Items, Queue!PushDropped(x) PROVE HoldsVectors'
  BY <1>2 DEF Queue!PushDropped, HoldsVectors, Queue!Content
<1>3. ASSUME Queue!Pop PROVE HoldsVectors'
  BY <1>3, PopGets, HeadTailProperties DEF HoldsVectors
<1>4. ASSUME UNCHANGED Queue!vars PROVE HoldsVectors'
  BY <1>4 DEF Queue!vars, HoldsVectors, Queue!Content
<1> QED BY <1>1, <1>2, <1>3, <1>4 DEF Queue!Next, Queue!Push

\* What a pop hands over.
LEMMA OldestIsVector ==
  ASSUME Size \in Nat \ {0}, RingInv, HoldsVectors, count # 0
  PROVE  items[head] \in Items
<1>1. /\ head \in Queue!Places /\ count \in 1 .. Size
      /\ Len(Queue!Content) = count
      /\ Queue!Content[1] = items[(head + 1 - 1) % Size]
  BY ContentIs DEF RingInv, Queue!TypeOK
<1>2. (head + 1 - 1) % Size = head
  <2>1. head \in 0 .. 2 * Size - 1 /\ head + 1 - 1 = head /\ head < Size
    BY <1>1 DEF Queue!Places
  <2> QED BY <2>1, WrapOnce
<1>3. 1 \in 1 .. Len(Queue!Content)
  BY <1>1
<1> QED BY <1>1, <1>2, <1>3, ElementOfSeq DEF HoldsVectors

-----------------------------------------------------------------------------
\* head, tail and count stay inside the ring (feature_queue_push, _pop).
THEOREM RingTypeCorrect ==
  ASSUME Size \in Nat \ {0} PROVE Queue!Spec => []Queue!TypeOK
<1>1. Queue!Init => RingInv
  BY RingInit
<1>2. RingInv /\ [Queue!Next]_(Queue!vars) => RingInv'
  BY RingSteps
<1>3. RingInv => Queue!TypeOK
  BY DEF RingInv
<1> QED BY <1>1, <1>2, <1>3, PTL DEF Queue!Spec

\* The ring implements the bounded buffer: vectors leave in the order they
\* came, and a push on a full ring loses the new vector and nothing else
\* (feature_queue_push, feature_queue_pop).
THEOREM RingImplementsFifo ==
  ASSUME Size \in Nat \ {0} PROVE Queue!Spec => Queue!Fifo!Spec
<1>1. Queue!Init => RingInv /\ Queue!Fifo!Init
  <2>1. Queue!Init => Queue!Content = <<>>
    BY DEF Queue!Init, Queue!Content
  <2> QED BY <2>1, RingInit DEF Queue!Init, Queue!Fifo!Init
<1>2. RingInv /\ [Queue!Next]_(Queue!vars) => [Queue!Fifo!Next]_(Queue!Fifo!vars)
  <2> SUFFICES ASSUME RingInv, [Queue!Next]_(Queue!vars) PROVE [Queue!Fifo!Next]_(Queue!Fifo!vars)
    OBVIOUS
  <2>1. Len(Queue!Content) = count /\ count \in 0 .. Size
    <3>1. /\ head \in Queue!Places /\ count \in 0 .. Size
          /\ items \in [Queue!Places -> Contents]
      BY DEF RingInv, Queue!TypeOK, Contents
    <3>2. Queue!Content = Ring(items, head, count)
      BY DEF Queue!Content, Ring
    <3> QED BY <3>1, <3>2, RingIsSeq
  <2>2. ASSUME NEW x \in Items, Queue!PushStored(x) PROVE Queue!Fifo!Put(x)
    <3>1. Queue!Content' = Append(Queue!Content, x)
      BY <2>2, StorePuts
    <3>2. count # Size /\ dropped' = dropped
      BY <2>2 DEF Queue!PushStored
    <3> QED BY <2>1, <3>1, <3>2 DEF Queue!Fifo!Put
  <2>3. ASSUME NEW x \in Items, Queue!PushDropped(x) PROVE Queue!Fifo!Lose
    BY <2>1, <2>3 DEF Queue!PushDropped, Queue!Fifo!Lose, Queue!Content
  <2>4. ASSUME Queue!Pop PROVE Queue!Fifo!Get
    BY <2>4, PopGets DEF Queue!Pop, Queue!Fifo!Get
  <2>5. ASSUME UNCHANGED Queue!vars PROVE UNCHANGED Queue!Fifo!vars
    BY <2>5 DEF Queue!vars, Queue!Fifo!vars, Queue!Content
  <2> QED BY <2>2, <2>3, <2>4, <2>5 DEF Queue!Next, Queue!Push, Queue!Fifo!Next
<1>3. RingInv /\ [Queue!Next]_(Queue!vars) => RingInv'
  BY RingSteps
<1> QED BY <1>1, <1>2, <1>3, PTL DEF Queue!Spec, Queue!Fifo!Spec

\* What a profile and its worker may rely on: the places in use hold vectors
\* that were pushed (feature_queue_pop).
THEOREM RingHolds ==
  ASSUME Size \in Nat \ {0} PROVE Queue!Spec => [](RingInv /\ HoldsVectors)
<1>1. Queue!Init => RingInv /\ HoldsVectors
  <2>1. Queue!Init => Queue!Content = <<>>
    BY DEF Queue!Init, Queue!Content
  <2> QED BY <2>1, RingInit DEF HoldsVectors
<1>2. RingInv /\ [Queue!Next]_(Queue!vars) => RingInv'
  BY RingSteps
<1>3. RingInv /\ HoldsVectors /\ [Queue!Next]_(Queue!vars) => HoldsVectors'
  BY HoldsVectorsSteps
<1> QED BY <1>1, <1>2, <1>3, PTL DEF Queue!Spec
=============================================================================
