---------------------------- MODULE AsyncLogProofs ----------------------------
(***************************************************************************)
(* The prediction log hands every slot to one user at a time, writes what  *)
(* it accepted once and in order, leaves at most a burst of each worker,   *)
(* and its statistics claim no more than happened: for any number of       *)
(* workers, any ring, burst and batch.                                     *)
(***************************************************************************)
EXTENDS AsyncLog, DataLemmas

\* The steps of a worker, and those in which it has a slot.
Steps == {"poll", "burst", "enqueue", "put_back", "load_dropped", "load_submitted",
          "store_dropped", "store_submitted", "done"}
Holding == {"enqueue", "put_back"}

WorkersOK ==
    /\ pc \in [Workers -> Steps]
    /\ events \in [Workers -> Nat]
    /\ loaded \in [Workers -> Nat]
    /\ held \in [Workers -> Slots \cup {NoSlot}]
    /\ \A w \in Workers : (held[w] \in Slots) <=> (pc[w] \in Holding)

SharedOK ==
    /\ pool \in Seq(Slots)
    /\ content \in [Slots -> Events \cup {NoEvent}]
    /\ ring \in Seq(Slots) /\ Len(ring) <= RingRoom
    /\ batch \in Seq(Slots) /\ Len(batch) <= BatchSize
    /\ (logger = "write") <=> (batch # <<>>)

CountsOK ==
    /\ submitted \in Nat /\ dropped \in Nat
    /\ accepted \in Nat /\ refused \in Nat
    /\ stop \in BOOLEAN
    /\ file \in Events \cup {NoEvent}

TypeInv == WorkersOK /\ SharedOK /\ CountsOK

LEMMA ConstantsOK ==
  ASSUME AsyncLogAssumption
  PROVE  /\ Slots \subseteq Nat /\ NoSlot \notin Slots
         /\ RingRoom \in Nat /\ BatchSize \in Nat \ {0}
<1>1. LogRingSize \in Nat \ {0} /\ BatchSize \in Nat \ {0} /\ NoSlot \notin Nat
  BY DEF AsyncLogAssumption
<1>2. Slots \subseteq Nat
  BY <1>1 DEF Slots
<1>3. RingRoom \in Nat
  BY <1>1 DEF RingRoom
<1> QED BY <1>1, <1>2, <1>3

LEMMA InitTypeInv ==
  ASSUME AsyncLogAssumption, Init PROVE TypeInv
<1>1. pool \in Seq(Slots)
  <2>1. \A j \in 1 .. LogRingSize : j - 1 \in Slots
    BY DEF AsyncLogAssumption, Slots
  <2>2. pool = [j \in 1 .. LogRingSize |-> j - 1]
    BY DEF Init
  <2> QED BY <2>1, <2>2 DEF AsyncLogAssumption
<1>2. <<>> \in Seq(Slots) /\ Len(<<>>) = 0
  BY EmptySeq
<1>3. NoSlot \notin Slots /\ RingRoom \in Nat /\ BatchSize \in Nat
  BY ConstantsOK
<1>4. SharedOK
  BY <1>1, <1>2, <1>3 DEF Init, SharedOK
<1>5. WorkersOK
  BY <1>3 DEF Init, WorkersOK, Steps, Holding
<1> QED BY <1>4, <1>5 DEF Init, TypeInv, CountsOK

LEMMA StepTypeInv ==
  ASSUME AsyncLogAssumption, TypeInv, [Next]_vars PROVE TypeInv'
<1> USE DEF TypeInv, At, Goto
<1>0. NoSlot \notin Slots /\ RingRoom \in Nat /\ BatchSize \in Nat \ {0}
  BY ConstantsOK
<1>1. CASE Stop
  BY <1>1 DEF Stop, workerVars, history, WorkersOK, SharedOK, CountsOK
<1>2. ASSUME NEW w \in Workers, Poll(w) PROVE TypeInv'
  <2>1. WorkersOK'
    BY <1>2 DEF Poll, WorkersOK, Steps, Holding
  <2> QED BY <1>2, <2>1 DEF Poll, history, SharedOK, CountsOK
<1>3. ASSUME NEW w \in Workers, EndBurst(w) PROVE TypeInv'
  <2>1. WorkersOK'
    BY <1>3 DEF EndBurst, WorkersOK, Steps, Holding
  <2> QED BY <1>3, <2>1 DEF EndBurst, history, SharedOK, CountsOK
<1>4. ASSUME NEW w \in Workers, GetSlot(w) PROVE TypeInv'
  <2>0. /\ pc[w] = "burst"
        /\ events' = [events EXCEPT ![w] = events[w] + 1]
        /\ UNCHANGED <<stop, loaded, content, ring, submitted, dropped, logger,
                       batch, file, accepted>>
    BY <1>4 DEF GetSlot
  <2>n. events[w] + 1 \in Nat /\ refused + 1 \in Nat
    BY DEF WorkersOK, CountsOK
  <2>1. CASE pool = <<>>
    <3>1. /\ pc' = [pc EXCEPT ![w] = "load_dropped"]
          /\ refused' = refused + 1
          /\ UNCHANGED <<held, pool>>
      BY <1>4, <2>1 DEF GetSlot
    <3>2. WorkersOK'
      BY <2>0, <2>n, <3>1 DEF WorkersOK, Steps, Holding
    <3> QED BY <2>0, <2>n, <3>1, <3>2 DEF SharedOK, CountsOK
  <2>2. CASE pool # <<>>
    <3>1. /\ pc' = [pc EXCEPT ![w] = "enqueue"]
          /\ held' = [held EXCEPT ![w] = Head(pool)]
          /\ pool' = Tail(pool)
          /\ UNCHANGED refused
      BY <1>4, <2>2 DEF GetSlot
    <3>2. Head(pool) \in Slots /\ Tail(pool) \in Seq(Slots)
      BY <2>2, FirstTaken DEF SharedOK
    <3>3. WorkersOK'
      BY <2>0, <2>n, <3>1, <3>2 DEF WorkersOK, Steps, Holding
    <3> QED BY <2>0, <3>1, <3>2, <3>3 DEF SharedOK, CountsOK
  <2> QED BY <2>1, <2>2
<1>5. ASSUME NEW w \in Workers, Enqueue(w) PROVE TypeInv'
  <2>1. held[w] \in Slots /\ <<w, events[w]>> \in Events
    BY <1>5 DEF Enqueue, WorkersOK, Holding, Events
  <2>2. content' \in [Slots -> Events \cup {NoEvent}]
    BY <1>5, <2>1 DEF Enqueue, SharedOK
  <2>3. CASE Len(ring) < RingRoom
    <3>0. /\ pc' = [pc EXCEPT ![w] = "load_submitted"]
          /\ held' = [held EXCEPT ![w] = NoSlot]
          /\ ring' = Append(ring, held[w])
          /\ accepted' = accepted + 1
          /\ UNCHANGED <<stop, events, loaded, pool, submitted, dropped, logger,
                         batch, file, refused>>
      BY <1>5, <2>3 DEF Enqueue
    <3>1. ring' \in Seq(Slots) /\ Len(ring') = Len(ring) + 1 /\ Len(ring) \in Nat
      <4>1. ring \in Seq(Slots)
        BY DEF SharedOK
      <4> QED BY <2>1, <3>0, <4>1, LastAdded
    <3>2. Len(ring') <= RingRoom
      BY <1>0, <2>3, <3>1
    <3>3. WorkersOK'
      BY <1>0, <3>0 DEF WorkersOK, Steps, Holding
    <3>4. accepted + 1 \in Nat
      BY DEF CountsOK
    <3> QED BY <2>2, <3>4, <3>0, <3>1, <3>2, <3>3 DEF SharedOK, CountsOK
  <2>4. CASE ~(Len(ring) < RingRoom)
    <3>1. WorkersOK'
      BY <1>5, <2>4 DEF Enqueue, WorkersOK, Steps, Holding
    <3> QED BY <1>5, <2>2, <2>4, <3>1 DEF Enqueue, SharedOK, CountsOK
  <2> QED BY <2>3, <2>4
<1>6. ASSUME NEW w \in Workers, PutBack(w) PROVE TypeInv'
  <2>1. held[w] \in Slots
    BY <1>6 DEF PutBack, WorkersOK, Holding
  <2>2. pool' \in Seq(Slots)
    BY <1>6, <2>1, LastAdded DEF PutBack, SharedOK
  <2>3. content' \in [Slots -> Events \cup {NoEvent}]
    BY <1>6, <2>1 DEF PutBack, SharedOK
  <2>4. /\ pc' = [pc EXCEPT ![w] = "load_dropped"]
        /\ held' = [held EXCEPT ![w] = NoSlot]
        /\ refused' = refused + 1
        /\ UNCHANGED <<stop, events, loaded, ring, submitted, dropped, logger,
                       batch, file, accepted>>
    BY <1>6 DEF PutBack
  <2>5. WorkersOK'
    BY <1>0, <2>4 DEF WorkersOK, Steps, Holding
  <2>6. refused + 1 \in Nat
    BY DEF CountsOK
  <2> QED BY <2>6, <2>2, <2>3, <2>4, <2>5 DEF SharedOK, CountsOK
<1>7. ASSUME NEW w \in Workers, Load(w) PROVE TypeInv'
  <2>1. WorkersOK'
    BY <1>7 DEF Load, WorkersOK, CountsOK, Steps, Holding
  <2> QED BY <1>7, <2>1 DEF Load, history, SharedOK, CountsOK
<1>8. ASSUME NEW w \in Workers, Store(w) PROVE TypeInv'
  <2>1. WorkersOK'
    BY <1>8 DEF Store, WorkersOK, Steps, Holding
  <2>2. loaded[w] + 1 \in Nat
    BY DEF WorkersOK
  <2> QED BY <1>8, <2>1, <2>2 DEF Store, history, SharedOK, CountsOK
<1>9. CASE Open
  BY <1>9 DEF Open, workerVars, history, WorkersOK, SharedOK, CountsOK
<1>10. CASE Dequeue
  <2> DEFINE n == IF Len(ring) < BatchSize THEN Len(ring) ELSE BatchSize
  <2>1. ring # <<>> /\ Len(ring) \in Nat \ {0} /\ Len(ring) <= RingRoom
    BY <1>10, FirstTaken DEF Dequeue, SharedOK
  <2>2. n \in 1 .. Len(ring) /\ n <= BatchSize
    BY <1>0, <2>1
  <2>3. batch' = SubSeq(ring, 1, n) /\ ring' = SubSeq(ring, n + 1, Len(ring))
    BY <1>10 DEF Dequeue
  <2> HIDE DEF n
  <2>4. /\ batch' \in Seq(Slots) /\ Len(batch') = n /\ batch' # <<>>
        /\ ring' \in Seq(Slots) /\ Len(ring') = Len(ring) - n
    <3>1. ring \in Seq(Slots)
      BY DEF SharedOK
    <3>2. /\ SubSeq(ring, 1, n) \in Seq(Slots) /\ Len(SubSeq(ring, 1, n)) = n
          /\ SubSeq(ring, 1, n) # <<>>
          /\ SubSeq(ring, n + 1, Len(ring)) \in Seq(Slots)
          /\ Len(SubSeq(ring, n + 1, Len(ring))) = Len(ring) - n
      BY <2>2, <3>1, CutInTwo
    <3> QED BY <2>3, <3>2
  <2>5. Len(ring') <= RingRoom /\ Len(batch') <= BatchSize
    BY <1>0, <2>1, <2>2, <2>4
  <2>6. SharedOK'
    BY <1>10, <2>4, <2>5 DEF Dequeue, SharedOK
  <2> QED BY <1>10, <2>6 DEF Dequeue, workerVars, history, WorkersOK, CountsOK
<1>11. CASE Write
  <2>1. batch # <<>>
    BY <1>11 DEF Write, SharedOK
  <2>2. /\ Head(batch) \in Slots /\ Tail(batch) \in Seq(Slots)
        /\ Len(batch) \in Nat /\ Len(Tail(batch)) = Len(batch) - 1
        /\ (Len(batch) = 1) <=> (Tail(batch) = <<>>)
    BY <2>1, FirstTaken DEF SharedOK
  <2>3. pool' \in Seq(Slots)
    BY <1>11, <2>2, LastAdded DEF Write, SharedOK
  <2>4. content' \in [Slots -> Events \cup {NoEvent}] /\ file' \in Events \cup {NoEvent}
    BY <1>11, <2>2 DEF Write, SharedOK
  <2>5. Len(batch') <= BatchSize
    BY <1>0, <1>11, <2>2 DEF Write, SharedOK
  <2>6. SharedOK'
    BY <1>11, <2>2, <2>3, <2>4, <2>5 DEF Write, SharedOK
  <2> QED BY <1>11, <2>4, <2>6 DEF Write, workerVars, WorkersOK, CountsOK
<1>12. CASE Close
  BY <1>12 DEF Close, workerVars, history, WorkersOK, SharedOK, CountsOK
<1>13. CASE UNCHANGED vars
  BY <1>13 DEF vars, workerVars, history, WorkersOK, SharedOK, CountsOK
<1> QED
  BY <1>1, <1>2, <1>3, <1>4, <1>5, <1>6, <1>7, <1>8, <1>9, <1>10, <1>11, <1>12, <1>13
     DEF Next, Work, Logger, End

LEMMA InvariantTypeInv == Spec => []TypeInv
<1>1. Init => TypeInv
  BY InitTypeInv, AsyncLogAssumption
<1>2. TypeInv /\ [Next]_vars => TypeInv'
  BY StepTypeInv, AsyncLogAssumption
<1> QED BY <1>1, <1>2, PTL DEF Spec

(***************************************************************************)
(* What is shared holds slots and events, and the ring never overflows.    *)
(***************************************************************************)
THEOREM TypeInvariant == Spec => []TypeOK
<1>1. TypeInv => TypeOK
  BY DEF TypeInv, WorkersOK, SharedOK, CountsOK, TypeOK
<1> QED BY <1>1, InvariantTypeInv, PTL

-------------------------------------------------------------------------------
(* Slots *)

\* Every slot is in one place.
Shared == Elems(pool) \cup Elems(ring) \cup Elems(batch)

Apart == /\ Elems(pool) \cap Elems(ring) = {}
         /\ Elems(pool) \cap Elems(batch) = {}
         /\ Elems(ring) \cap Elems(batch) = {}

Placed ==
    /\ Distinct(pool) /\ Distinct(ring) /\ Distinct(batch) /\ Apart
    /\ \A v, w \in Workers : held[v] \in Slots /\ held[v] = held[w] => v = w
    /\ \A w \in Workers : held[w] \notin Shared
    /\ \A s \in Slots : s \in Shared \/ \E w \in Workers : held[w] = s

LEMMA InitPlaced ==
  ASSUME AsyncLogAssumption, Init PROVE Placed
<1>1. LogRingSize \in Nat /\ NoSlot \notin Slots
  BY ConstantsOK DEF AsyncLogAssumption
<1>2. Len(pool) = LogRingSize /\ \A j \in 1 .. LogRingSize : pool[j] = j - 1
  BY <1>1 DEF Init
<1>3. Distinct(pool)
  BY <1>1, <1>2 DEF Distinct
<1>4. Elems(pool) = Slots
  <2>1. Elems(pool) \subseteq Slots
    BY <1>1, <1>2 DEF Elems, Slots
  <2>2. ASSUME NEW s \in Slots PROVE s \in Elems(pool)
    <3>1. s + 1 \in 1 .. LogRingSize /\ (s + 1) - 1 = s
      BY <1>1 DEF Slots
    <3>2. pool[s + 1] = s
      BY <1>2, <3>1
    <3> QED BY <1>2, <3>1, <3>2 DEF Elems
  <2> QED BY <2>1, <2>2
<1>5. ring = <<>> /\ batch = <<>> /\ held = [w \in Workers |-> NoSlot]
  BY DEF Init
<1>6. Elems(<<>>) = {} /\ Distinct(<<>>)
  BY EmptySeq DEF Elems, Distinct
<1> QED BY <1>1, <1>3, <1>4, <1>5, <1>6 DEF Placed, Shared, Apart

LEMMA StepPlaced ==
  ASSUME AsyncLogAssumption, TypeInv, Placed, [Next]_vars PROVE Placed'
<1>0. /\ NoSlot \notin Slots
      /\ held \in [Workers -> Slots \cup {NoSlot}]
      /\ pool \in Seq(Slots) /\ ring \in Seq(Slots) /\ batch \in Seq(Slots)
  BY ConstantsOK DEF TypeInv, WorkersOK, SharedOK
<1>a. Elems(pool) \subseteq Slots /\ Elems(ring) \subseteq Slots /\ Elems(batch) \subseteq Slots
  BY <1>0, ElemsInSet
<1>1. ASSUME UNCHANGED <<pool, held, ring, batch>> PROVE Placed'
  <2>1. pool' = pool /\ held' = held /\ ring' = ring /\ batch' = batch
    BY <1>1
  <2> QED BY <2>1 DEF Placed, Shared, Apart
<1>2. ASSUME NEW w \in Workers, GetSlot(w), pool # <<>> PROVE Placed'
  <2>1. /\ pool' = Tail(pool) /\ held' = [held EXCEPT ![w] = Head(pool)]
        /\ UNCHANGED <<ring, batch>>
    BY <1>2 DEF GetSlot
  <2>2. held[w] \notin Slots
    BY <1>2 DEF GetSlot, At, TypeInv, WorkersOK, Holding
  <2>3. /\ Distinct(Tail(pool)) /\ Head(pool) \in Elems(pool) /\ Head(pool) \in Slots
        /\ Elems(Tail(pool)) = Elems(pool) \ {Head(pool)}
    BY <1>0, <1>2, FirstTaken DEF Placed
  <2>4. /\ Distinct(pool') /\ Distinct(ring') /\ Distinct(batch')
        /\ Elems(pool') = Elems(pool) \ {Head(pool)}
        /\ Elems(ring') = Elems(ring) /\ Elems(batch') = Elems(batch)
    BY <2>1, <2>3 DEF Placed
  <2>5. Apart'
    BY <2>4 DEF Placed, Apart
  <2>6. Shared' = Shared \ {Head(pool)}
    BY <2>3, <2>4 DEF Placed, Apart, Shared
  <2>7. \A v \in Workers : held'[v] = IF v = w THEN Head(pool) ELSE held[v]
    BY <1>0, <2>1
  <2>8. \A v \in Workers : held[v] # Head(pool)
    BY <2>3 DEF Placed, Shared
  <2>9. \A s \in Slots : s \in Shared' \/ \E v \in Workers : held'[v] = s
    BY <2>2, <2>6, <2>7 DEF Placed
  <2> QED BY <2>4, <2>5, <2>6, <2>7, <2>8, <2>9 DEF Placed
<1>3. ASSUME NEW w \in Workers, Enqueue(w), Len(ring) < RingRoom PROVE Placed'
  <2>1. /\ ring' = Append(ring, held[w]) /\ held' = [held EXCEPT ![w] = NoSlot]
        /\ UNCHANGED <<pool, batch>>
    BY <1>3 DEF Enqueue
  <2>2. held[w] \in Slots /\ held[w] \notin Shared
    BY <1>3 DEF Enqueue, At, TypeInv, WorkersOK, Holding, Placed
  <2>3. /\ Distinct(Append(ring, held[w]))
        /\ Elems(Append(ring, held[w])) = Elems(ring) \cup {held[w]}
    BY <1>0, <2>2, LastAdded DEF Placed, Shared
  <2>4. /\ Distinct(pool') /\ Distinct(ring') /\ Distinct(batch')
        /\ Elems(ring') = Elems(ring) \cup {held[w]}
        /\ Elems(pool') = Elems(pool) /\ Elems(batch') = Elems(batch)
    BY <2>1, <2>3 DEF Placed
  <2>5. Apart'
    BY <2>2, <2>4 DEF Placed, Apart, Shared
  <2>6. Shared' = Shared \cup {held[w]}
    BY <2>4 DEF Shared
  <2>7. \A v \in Workers : held'[v] = IF v = w THEN NoSlot ELSE held[v]
    BY <1>0, <2>1
  <2>8. NoSlot \notin Shared'
    BY <1>0, <1>a, <2>2, <2>6 DEF Shared
  <2>9. \A v \in Workers : v # w => held[v] # held[w]
    BY <2>2 DEF Placed
  <2>10. \A s \in Slots : s \in Shared' \/ \E v \in Workers : held'[v] = s
    BY <2>6, <2>7 DEF Placed
  <2> QED BY <1>0, <2>4, <2>5, <2>6, <2>7, <2>8, <2>9, <2>10 DEF Placed
<1>4. ASSUME NEW w \in Workers, PutBack(w) PROVE Placed'
  <2>1. /\ pool' = Append(pool, held[w]) /\ held' = [held EXCEPT ![w] = NoSlot]
        /\ UNCHANGED <<ring, batch>>
    BY <1>4 DEF PutBack
  <2>2. held[w] \in Slots /\ held[w] \notin Shared
    BY <1>4 DEF PutBack, At, TypeInv, WorkersOK, Holding, Placed
  <2>3. /\ Distinct(Append(pool, held[w]))
        /\ Elems(Append(pool, held[w])) = Elems(pool) \cup {held[w]}
    BY <1>0, <2>2, LastAdded DEF Placed, Shared
  <2>4. /\ Distinct(pool') /\ Distinct(ring') /\ Distinct(batch')
        /\ Elems(pool') = Elems(pool) \cup {held[w]}
        /\ Elems(ring') = Elems(ring) /\ Elems(batch') = Elems(batch)
    BY <2>1, <2>3 DEF Placed
  <2>5. Apart'
    BY <2>2, <2>4 DEF Placed, Apart, Shared
  <2>6. Shared' = Shared \cup {held[w]}
    BY <2>4 DEF Shared
  <2>7. \A v \in Workers : held'[v] = IF v = w THEN NoSlot ELSE held[v]
    BY <1>0, <2>1
  <2>8. NoSlot \notin Shared'
    BY <1>0, <1>a, <2>2, <2>6 DEF Shared
  <2>9. \A v \in Workers : v # w => held[v] # held[w]
    BY <2>2 DEF Placed
  <2>10. \A s \in Slots : s \in Shared' \/ \E v \in Workers : held'[v] = s
    BY <2>6, <2>7 DEF Placed
  <2> QED BY <1>0, <2>4, <2>5, <2>6, <2>7, <2>8, <2>9, <2>10 DEF Placed
<1>5. CASE Dequeue
  <2> DEFINE n == IF Len(ring) < BatchSize THEN Len(ring) ELSE BatchSize
  <2>1. n \in 1 .. Len(ring)
    <3>1. ring # <<>> /\ BatchSize \in Nat \ {0}
      BY <1>5, ConstantsOK DEF Dequeue
    <3>2. Len(ring) \in Nat \ {0}
      BY <1>0, <3>1, FirstTaken
    <3> QED BY <3>1, <3>2
  <2>2. /\ batch' = SubSeq(ring, 1, n) /\ ring' = SubSeq(ring, n + 1, Len(ring))
        /\ UNCHANGED <<pool, held>>
    BY <1>5 DEF Dequeue, workerVars
  <2> HIDE DEF n
  <2>3. batch = <<>>
    BY <1>5 DEF Dequeue, TypeInv, SharedOK
  <2>4. Elems(batch) = {}
    BY <2>3, EmptySeq DEF Elems
  <2> DEFINE a == SubSeq(ring, 1, n)
             b == SubSeq(ring, n + 1, Len(ring))
  <2>5. /\ Elems(ring) = Elems(a) \cup Elems(b) /\ Distinct(a) /\ Distinct(b)
        /\ Elems(a) \cap Elems(b) = {}
    BY <1>0, <2>1, CutInTwo DEF Placed
  <2> HIDE DEF a, b
  <2>6. batch' = a /\ ring' = b
    BY <2>2 DEF a, b
  <2>7. /\ Distinct(pool') /\ Distinct(ring') /\ Distinct(batch')
        /\ Elems(pool') = Elems(pool)
        /\ Elems(ring') = Elems(b) /\ Elems(batch') = Elems(a)
    BY <2>2, <2>5, <2>6 DEF Placed
  <2>8. Apart'
    BY <2>5, <2>7 DEF Placed, Apart
  <2>9. Shared' = Shared
    BY <2>4, <2>5, <2>7 DEF Shared
  <2> QED BY <2>2, <2>7, <2>8, <2>9 DEF Placed
<1>6. CASE Write
  <2>1. /\ batch' = Tail(batch) /\ pool' = Append(pool, Head(batch))
        /\ UNCHANGED <<ring, held>>
    BY <1>6 DEF Write, workerVars
  <2>2. batch # <<>>
    BY <1>6 DEF Write, TypeInv, SharedOK
  <2>3. /\ Distinct(Tail(batch)) /\ Head(batch) \in Elems(batch) /\ Head(batch) \in Slots
        /\ Elems(Tail(batch)) = Elems(batch) \ {Head(batch)}
    BY <1>0, <2>2, FirstTaken DEF Placed
  <2>4. Head(batch) \notin Elems(pool)
    BY <2>3 DEF Placed, Apart
  <2>5. /\ Distinct(Append(pool, Head(batch)))
        /\ Elems(Append(pool, Head(batch))) = Elems(pool) \cup {Head(batch)}
    BY <1>0, <2>3, <2>4, LastAdded DEF Placed
  <2>6. /\ Distinct(pool') /\ Distinct(ring') /\ Distinct(batch')
        /\ Elems(pool') = Elems(pool) \cup {Head(batch)}
        /\ Elems(batch') = Elems(batch) \ {Head(batch)} /\ Elems(ring') = Elems(ring)
    BY <2>1, <2>3, <2>5 DEF Placed
  <2>7. Apart'
    BY <2>3, <2>6 DEF Placed, Apart
  <2>8. Shared' = Shared
    BY <2>3, <2>6 DEF Shared
  <2> QED BY <2>1, <2>6, <2>7, <2>8 DEF Placed
<1>7. \/ UNCHANGED <<pool, held, ring, batch>>
      \/ \E w \in Workers : \/ GetSlot(w) /\ pool # <<>>
                            \/ Enqueue(w) /\ Len(ring) < RingRoom
                            \/ PutBack(w)
      \/ Dequeue \/ Write
  BY DEF Next, Stop, Work, Logger, Poll, EndBurst, GetSlot, Enqueue, Load, Store, Open,
         Close, End, vars, workerVars
<1> QED BY <1>1, <1>2, <1>3, <1>4, <1>5, <1>6, <1>7

LEMMA PlacedOnce ==
  ASSUME AsyncLogAssumption, TypeInv, Placed PROVE SlotsConserved
<1> DEFINE free == pool \o ring
           shared == free \o batch
<1>1. pool \in Seq(Slots) /\ ring \in Seq(Slots) /\ batch \in Seq(Slots)
  BY DEF TypeInv, SharedOK
<1>2. /\ free \in Seq(Slots) /\ Distinct(free)
      /\ Elems(free) = Elems(pool) \cup Elems(ring)
  BY <1>1, Joined DEF Placed, Apart
<1>3. SlotsConserved <=>
        \A s \in Slots : Cardinality({j \in DOMAIN shared : shared[j] = s})
                           + Cardinality({w \in Workers : held[w] = s}) = 1
  BY DEF SlotsConserved
<1> HIDE DEF free
<1>4. shared \in Seq(Slots) /\ Distinct(shared) /\ Elems(shared) = Shared
  <2>1. Elems(free) \cap Elems(batch) = {} /\ Distinct(batch)
    BY <1>2 DEF Placed, Apart
  <2>2. /\ shared \in Seq(Slots) /\ Distinct(shared)
        /\ Elems(shared) = Elems(free) \cup Elems(batch)
    BY <1>1, <1>2, <2>1, Joined
  <2> QED BY <1>2, <2>2 DEF Shared
<1> HIDE DEF shared
<1> SUFFICES ASSUME NEW s \in Slots
             PROVE  Cardinality({j \in DOMAIN shared : shared[j] = s})
                      + Cardinality({w \in Workers : held[w] = s}) = 1
  BY <1>3
<1>5. Cardinality({j \in DOMAIN shared : shared[j] = s}) = IF s \in Shared THEN 1 ELSE 0
  BY <1>4, OccursOnce
<1> DEFINE H == {w \in Workers : held[w] = s}
<1>6. Cardinality(H) = IF s \in Shared THEN 0 ELSE 1
  <2>1. CASE s \in Shared
    <3>1. H = {}
      BY <2>1 DEF Placed
    <3> HIDE DEF H
    <3> QED BY <2>1, <3>1, FS_EmptySet
  <2>2. CASE s \notin Shared
    <3>1. PICK w \in Workers : held[w] = s
      BY <2>2 DEF Placed
    <3>2. H = {w}
      BY <3>1 DEF Placed
    <3> HIDE DEF H
    <3> QED BY <2>2, <3>2, FS_Singleton
  <2> QED BY <2>1, <2>2
<1> QED BY <1>5, <1>6

LEMMA InvariantPlaced == Spec => []Placed
<1>1. Init => Placed
  BY InitPlaced, AsyncLogAssumption
<1>2. TypeInv /\ Placed /\ [Next]_vars => Placed'
  BY StepPlaced, AsyncLogAssumption
<1> QED BY <1>1, <1>2, InvariantTypeInv, PTL DEF Spec

(***************************************************************************)
(* No interleaving of workers and logger loses a slot or gives it to two.  *)
(***************************************************************************)
THEOREM EverySlotInOnePlace == Spec => []SlotsConserved
<1>1. TypeInv /\ Placed => SlotsConserved
  BY PlacedOnce, AsyncLogAssumption
<1> QED BY <1>1, InvariantTypeInv, InvariantPlaced, PTL

-------------------------------------------------------------------------------
(* Counters *)

\* The workers whose event is already accepted, or refused, and not yet counted.
ToSubmit == {w \in Workers : pc[w] \in {"load_submitted", "store_submitted"}}
ToDrop == {w \in Workers : pc[w] \in {"load_dropped", "store_dropped"}}

\* Whatever is stored next leaves room for those who store after it.
Counted ==
    /\ submitted + Cardinality(ToSubmit) <= accepted
    /\ \A w \in Workers : pc[w] = "store_submitted" =>
          loaded[w] + Cardinality(ToSubmit) <= accepted
    /\ dropped + Cardinality(ToDrop) <= refused
    /\ \A w \in Workers : pc[w] = "store_dropped" =>
          loaded[w] + Cardinality(ToDrop) <= refused

LEMMA InitCounted ==
  ASSUME AsyncLogAssumption, Init PROVE Counted
<1>1. ToSubmit = {} /\ ToDrop = {}
  BY DEF Init, ToSubmit, ToDrop
<1>2. Cardinality({}) = 0
  BY FS_EmptySet
<1> QED BY <1>1, <1>2 DEF Init, Counted

LEMMA Pending ==
  ASSUME AsyncLogAssumption
  PROVE  /\ IsFiniteSet(ToSubmit) /\ Cardinality(ToSubmit) \in Nat
         /\ IsFiniteSet(ToDrop) /\ Cardinality(ToDrop) \in Nat
<1>1. IsFiniteSet(Workers)
  BY DEF AsyncLogAssumption
<1>2. IsFiniteSet(ToSubmit)
  BY <1>1, FS_Subset DEF ToSubmit
<1>3. IsFiniteSet(ToDrop)
  BY <1>1, FS_Subset DEF ToDrop
<1> QED BY <1>2, <1>3, FS_CardinalityType

LEMMA StepCounted ==
  ASSUME AsyncLogAssumption, TypeInv, Counted, [Next]_vars PROVE Counted'
<1> DEFINE S == Cardinality(ToSubmit)
           D == Cardinality(ToDrop)
<1>0. /\ submitted \in Nat /\ dropped \in Nat /\ accepted \in Nat /\ refused \in Nat
      /\ loaded \in [Workers -> Nat] /\ pc \in [Workers -> Steps]
  BY DEF TypeInv, WorkersOK, CountsOK
<1>c. S \in Nat /\ D \in Nat /\ IsFiniteSet(ToSubmit) /\ IsFiniteSet(ToDrop)
  BY Pending
<1>i. /\ submitted + S <= accepted /\ dropped + D <= refused
      /\ \A w \in Workers : pc[w] = "store_submitted" => loaded[w] + S <= accepted
      /\ \A w \in Workers : pc[w] = "store_dropped" => loaded[w] + D <= refused
  BY DEF Counted
<1> HIDE DEF S, D
<1>n. /\ S \in Nat /\ D \in Nat
      /\ submitted \in Nat /\ dropped \in Nat /\ accepted \in Nat /\ refused \in Nat
  BY <1>0, <1>c
<1>l. \A w \in Workers : loaded[w] \in Nat
  BY <1>0
<1>s. submitted + S <= accepted /\ dropped + D <= refused
  BY <1>i
<1>a. \A x \in Nat : x + S <= accepted => /\ x + (S + 1) <= accepted + 1
                                           /\ x + (S - 1) <= accepted
  BY <1>n
<1>b. \A x \in Nat : x + D <= refused => /\ x + (D + 1) <= refused + 1
                                         /\ x + (D - 1) <= refused
  BY <1>n
\* What a step changes is the worker's place and at most one pair of counts.
<1>1. ASSUME UNCHANGED <<submitted, dropped, accepted, refused, loaded>>,
             ToSubmit' = ToSubmit, ToDrop' = ToDrop,
             \A w \in Workers : pc'[w] \in {"store_submitted", "store_dropped"}
                                  => pc'[w] = pc[w]
      PROVE  Counted'
  <2>1. Cardinality(ToSubmit') = S /\ Cardinality(ToDrop') = D
    BY <1>1 DEF S, D
  <2> QED BY <1>i, <1>1, <2>1 DEF Counted
<1>2. ASSUME NEW w \in Workers, pc[w] \in {"burst", "put_back"},
             pc' = [pc EXCEPT ![w] = "load_dropped"], refused' = refused + 1,
             UNCHANGED <<submitted, dropped, accepted, loaded>>
      PROVE  Counted'
  <2>1. ToSubmit' = ToSubmit /\ ToDrop' = ToDrop \cup {w} /\ w \notin ToDrop
    BY <1>0, <1>2 DEF ToSubmit, ToDrop
  <2>2. Cardinality(ToSubmit') = S /\ Cardinality(ToDrop') = D + 1
    BY <1>c, <2>1, FS_AddElement DEF S, D
  <2>3. \A v \in Workers : pc'[v] \in {"store_submitted", "store_dropped"}
                             => pc'[v] = pc[v]
    BY <1>0, <1>2
  <2>4. \A v \in Workers : pc[v] = "store_dropped" => loaded[v] + (D + 1) <= refused + 1
    <3> SUFFICES ASSUME NEW v \in Workers, pc[v] = "store_dropped"
                 PROVE  loaded[v] + (D + 1) <= refused + 1
      OBVIOUS
    <3>1. loaded[v] \in Nat /\ loaded[v] + D <= refused
      BY <1>i, <1>l
    <3> QED BY <1>a, <1>b, <3>1
  <2>5. dropped + (D + 1) <= refused + 1
    BY <1>n, <1>s
  <2> QED BY <1>i, <1>2, <2>2, <2>3, <2>4, <2>5 DEF Counted
<1>3. ASSUME NEW w \in Workers, pc[w] = "enqueue",
             pc' = [pc EXCEPT ![w] = "load_submitted"], accepted' = accepted + 1,
             UNCHANGED <<submitted, dropped, refused, loaded>>
      PROVE  Counted'
  <2>1. ToDrop' = ToDrop /\ ToSubmit' = ToSubmit \cup {w} /\ w \notin ToSubmit
    BY <1>0, <1>3 DEF ToSubmit, ToDrop
  <2>2. Cardinality(ToDrop') = D /\ Cardinality(ToSubmit') = S + 1
    BY <1>c, <2>1, FS_AddElement DEF S, D
  <2>3. \A v \in Workers : pc'[v] \in {"store_submitted", "store_dropped"}
                             => pc'[v] = pc[v]
    BY <1>0, <1>3
  <2>4. \A v \in Workers : pc[v] = "store_submitted" => loaded[v] + (S + 1) <= accepted + 1
    <3> SUFFICES ASSUME NEW v \in Workers, pc[v] = "store_submitted"
                 PROVE  loaded[v] + (S + 1) <= accepted + 1
      OBVIOUS
    <3>1. loaded[v] \in Nat /\ loaded[v] + S <= accepted
      BY <1>i, <1>l
    <3> QED BY <1>a, <1>b, <3>1
  <2>5. submitted + (S + 1) <= accepted + 1
    BY <1>n, <1>s
  <2> QED BY <1>i, <1>3, <2>2, <2>3, <2>4, <2>5 DEF Counted
<1>4. ASSUME NEW w \in Workers, Poll(w) \/ EndBurst(w) PROVE Counted'
  <2>1. /\ pc[w] \in {"poll", "burst"} /\ pc'[w] \in {"poll", "burst", "done"}
        /\ \A v \in Workers : v # w => pc'[v] = pc[v]
        /\ UNCHANGED <<submitted, dropped, accepted, refused, loaded>>
    BY <1>0, <1>4 DEF Poll, EndBurst, At, Goto, history
  <2>2. ToSubmit' = ToSubmit /\ ToDrop' = ToDrop
    BY <2>1 DEF ToSubmit, ToDrop
  <2> QED BY <1>1, <2>1, <2>2
<1>5. ASSUME NEW w \in Workers, GetSlot(w) PROVE Counted'
  <2>1. CASE pool = <<>>
    BY <1>2, <1>5, <2>1 DEF GetSlot, At, Goto
  <2>2. CASE pool # <<>>
    <3>1. /\ pc[w] = "burst" /\ pc' = [pc EXCEPT ![w] = "enqueue"]
          /\ UNCHANGED <<submitted, dropped, accepted, refused, loaded>>
      BY <1>5, <2>2 DEF GetSlot, At, Goto
    <3>2. ToSubmit' = ToSubmit /\ ToDrop' = ToDrop
      BY <1>0, <3>1 DEF ToSubmit, ToDrop
    <3> QED BY <1>0, <1>1, <3>1, <3>2
  <2> QED BY <2>1, <2>2
<1>6. ASSUME NEW w \in Workers, Enqueue(w) PROVE Counted'
  <2>1. CASE Len(ring) < RingRoom
    BY <1>3, <1>6, <2>1 DEF Enqueue, At, Goto
  <2>2. CASE ~(Len(ring) < RingRoom)
    <3>1. /\ pc[w] = "enqueue" /\ pc' = [pc EXCEPT ![w] = "put_back"]
          /\ UNCHANGED <<submitted, dropped, accepted, refused, loaded>>
      BY <1>6, <2>2 DEF Enqueue, At, Goto
    <3>2. ToSubmit' = ToSubmit /\ ToDrop' = ToDrop
      BY <1>0, <3>1 DEF ToSubmit, ToDrop
    <3> QED BY <1>0, <1>1, <3>1, <3>2
  <2> QED BY <2>1, <2>2
<1>7. ASSUME NEW w \in Workers, PutBack(w) PROVE Counted'
  BY <1>2, <1>7 DEF PutBack, At, Goto
<1>8. ASSUME NEW w \in Workers, Load(w) PROVE Counted'
  <2>1. UNCHANGED <<submitted, dropped, accepted, refused>>
    BY <1>8 DEF Load, history
  <2>2. /\ \A v \in Workers : v # w => pc'[v] = pc[v] /\ loaded'[v] = loaded[v]
        /\ \/ /\ pc[w] = "load_submitted" /\ pc'[w] = "store_submitted"
              /\ loaded'[w] = submitted
           \/ /\ pc[w] = "load_dropped" /\ pc'[w] = "store_dropped"
              /\ loaded'[w] = dropped
    BY <1>0, <1>8 DEF Load, At, Goto
  <2>3. ToSubmit' = ToSubmit /\ ToDrop' = ToDrop
    BY <2>2 DEF ToSubmit, ToDrop
  <2>4. Cardinality(ToSubmit') = S /\ Cardinality(ToDrop') = D
    BY <2>3 DEF S, D
  <2> QED BY <1>i, <2>1, <2>2, <2>4 DEF Counted
<1>9. ASSUME NEW w \in Workers, Store(w) PROVE Counted'
  <2>0. /\ pc' = [pc EXCEPT ![w] = "burst"] /\ loaded' = [loaded EXCEPT ![w] = 0]
        /\ UNCHANGED <<accepted, refused>>
    BY <1>9 DEF Store, Goto, history
  <2>1. CASE pc[w] = "store_submitted"
    <3>1. submitted' = loaded[w] + 1 /\ dropped' = dropped
      BY <1>9, <2>1 DEF Store, At
    <3>2. ToDrop' = ToDrop /\ ToSubmit' = ToSubmit \ {w} /\ w \in ToSubmit
      BY <1>0, <2>0, <2>1 DEF ToSubmit, ToDrop
    <3>3. Cardinality(ToDrop') = D /\ Cardinality(ToSubmit') = S - 1
      BY <1>c, <3>2, FS_RemoveElement DEF S, D
    <3>4. \A v \in Workers : pc'[v] \in {"store_submitted", "store_dropped"}
                               => pc'[v] = pc[v] /\ loaded'[v] = loaded[v]
      BY <1>0, <2>0
    <3>5. (loaded[w] + 1) + (S - 1) <= accepted
      <4>1. loaded[w] + S <= accepted /\ loaded[w] \in Nat
        BY <1>0, <1>i, <2>1
      <4> QED BY <1>n, <4>1
    <3>6. \A v \in Workers : pc[v] = "store_submitted" => loaded[v] + (S - 1) <= accepted
      <4> SUFFICES ASSUME NEW v \in Workers, pc[v] = "store_submitted"
                   PROVE  loaded[v] + (S - 1) <= accepted
        OBVIOUS
      <4>1. loaded[v] \in Nat /\ loaded[v] + S <= accepted
        BY <1>i, <1>l
      <4> QED BY <1>a, <1>b, <4>1
    <3> QED BY <1>i, <2>0, <3>1, <3>3, <3>4, <3>5, <3>6 DEF Counted
  <2>2. CASE pc[w] = "store_dropped"
    <3>1. dropped' = loaded[w] + 1 /\ submitted' = submitted
      BY <1>9, <2>2 DEF Store, At
    <3>2. ToSubmit' = ToSubmit /\ ToDrop' = ToDrop \ {w} /\ w \in ToDrop
      BY <1>0, <2>0, <2>2 DEF ToSubmit, ToDrop
    <3>3. Cardinality(ToSubmit') = S /\ Cardinality(ToDrop') = D - 1
      BY <1>c, <3>2, FS_RemoveElement DEF S, D
    <3>4. \A v \in Workers : pc'[v] \in {"store_submitted", "store_dropped"}
                               => pc'[v] = pc[v] /\ loaded'[v] = loaded[v]
      BY <1>0, <2>0
    <3>5. (loaded[w] + 1) + (D - 1) <= refused
      <4>1. loaded[w] + D <= refused /\ loaded[w] \in Nat
        BY <1>0, <1>i, <2>2
      <4> QED BY <1>n, <4>1
    <3>6. \A v \in Workers : pc[v] = "store_dropped" => loaded[v] + (D - 1) <= refused
      <4> SUFFICES ASSUME NEW v \in Workers, pc[v] = "store_dropped"
                   PROVE  loaded[v] + (D - 1) <= refused
        OBVIOUS
      <4>1. loaded[v] \in Nat /\ loaded[v] + D <= refused
        BY <1>i, <1>l
      <4> QED BY <1>a, <1>b, <4>1
    <3> QED BY <1>i, <2>0, <3>1, <3>3, <3>4, <3>5, <3>6 DEF Counted
  <2> QED BY <1>9, <2>1, <2>2 DEF Store, At
<1>10. ASSUME Stop \/ Logger \/ UNCHANGED vars PROVE Counted'
  <2>1. UNCHANGED <<pc, loaded, submitted, dropped, accepted, refused>>
    BY <1>10 DEF Stop, Logger, Open, Dequeue, Write, Close, vars, workerVars, history
  <2>2. ToSubmit' = ToSubmit /\ ToDrop' = ToDrop
    BY <2>1 DEF ToSubmit, ToDrop
  <2> QED BY <1>1, <2>1, <2>2
<1> QED BY <1>4, <1>5, <1>6, <1>7, <1>8, <1>9, <1>10 DEF Next, Work, End

(***************************************************************************)
(* The two statistics lose updates but never claim more than happened.     *)
(***************************************************************************)
THEOREM CountersClaimNoMore == Spec => []CountersNeverExceed
<1>1. Init => Counted
  BY InitCounted, AsyncLogAssumption
<1>2. TypeInv /\ Counted /\ [Next]_vars => Counted'
  BY StepCounted, AsyncLogAssumption
<1>3. TypeInv /\ Counted => CountersNeverExceed
  <2> SUFFICES ASSUME TypeInv, Counted PROVE CountersNeverExceed
    OBVIOUS
  <2> DEFINE S == Cardinality(ToSubmit)
             D == Cardinality(ToDrop)
  <2>1. S \in Nat /\ D \in Nat
    BY Pending, AsyncLogAssumption
  <2>2. submitted + S <= accepted /\ dropped + D <= refused
    BY DEF Counted
  <2> HIDE DEF S, D
  <2> QED BY <2>1, <2>2 DEF TypeInv, CountsOK, CountersNeverExceed
<1> QED BY <1>1, <1>2, <1>3, InvariantTypeInv, PTL DEF Spec

-------------------------------------------------------------------------------
(* The order of the file *)

\* What is due is what the queued slots hold, the batch first.
Faithful ==
    /\ due \in Seq(Events \cup {NoEvent})
    /\ Len(due) = Len(batch) + Len(ring)
    /\ \A j \in 1 .. Len(batch) : due[j] = content[batch[j]]
    /\ \A j \in 1 .. Len(ring) : due[Len(batch) + j] = content[ring[j]]

\* A slot in use by a worker is not queued: writing to it disturbs no event.
LEMMA QueuedUntouched ==
  ASSUME TypeInv, Faithful, NEW s \in Slots,
         s \notin Elems(ring), s \notin Elems(batch),
         NEW e, content' = [content EXCEPT ![s] = e], UNCHANGED <<due, ring, batch>>
  PROVE  Faithful'
<1>1. content \in [Slots -> Events \cup {NoEvent}]
  BY DEF TypeInv, SharedOK
<1>2. \A j \in 1 .. Len(batch) : batch[j] \in Slots /\ batch[j] # s
  BY ElementOfSeq DEF TypeInv, SharedOK, Elems
<1>3. \A j \in 1 .. Len(ring) : ring[j] \in Slots /\ ring[j] # s
  BY ElementOfSeq DEF TypeInv, SharedOK, Elems
<1>4. \A x \in Slots : x # s => content'[x] = content[x]
  BY <1>1
<1> QED BY <1>2, <1>3, <1>4 DEF Faithful

LEMMA InitFaithful ==
  ASSUME Init PROVE Faithful
BY EmptySeq DEF Init, Faithful

LEMMA StepFaithful ==
  ASSUME AsyncLogAssumption, TypeInv, Placed, Faithful, [Next]_vars PROVE Faithful'
<1>0. /\ ring \in Seq(Slots) /\ batch \in Seq(Slots)
      /\ content \in [Slots -> Events \cup {NoEvent}]
      /\ due \in Seq(Events \cup {NoEvent})
  BY DEF TypeInv, SharedOK, Faithful
<1>n. Len(ring) \in Nat /\ Len(batch) \in Nat /\ Len(due) \in Nat
  BY <1>0, LenProperties
<1>f. /\ Len(due) = Len(batch) + Len(ring)
      /\ \A j \in 1 .. Len(batch) : due[j] = content[batch[j]]
      /\ \A j \in 1 .. Len(ring) : due[Len(batch) + j] = content[ring[j]]
  BY DEF Faithful
<1>1. ASSUME UNCHANGED <<due, ring, batch, content>> PROVE Faithful'
  BY <1>1 DEF Faithful
<1>2. ASSUME NEW w \in Workers, Enqueue(w) PROVE Faithful'
  <2>1. /\ held[w] \in Slots /\ held[w] \notin Elems(ring) /\ held[w] \notin Elems(batch)
        /\ <<w, events[w]>> \in Events
    BY <1>2 DEF Enqueue, At, TypeInv, WorkersOK, Holding, Placed, Shared, Events
  <2>2. /\ content' = [content EXCEPT ![held[w]] = <<w, events[w]>>]
        /\ batch' = batch
    BY <1>2 DEF Enqueue
  <2>3. CASE ~(Len(ring) < RingRoom)
    BY <1>2, <2>1, <2>2, <2>3, QueuedUntouched DEF Enqueue
  <2>4. CASE Len(ring) < RingRoom
    <3> DEFINE e == <<w, events[w]>>
    <3>1. ring' = Append(ring, held[w]) /\ due' = Append(due, e)
      BY <1>2, <2>4 DEF Enqueue
    <3> HIDE DEF e
    <3>2. /\ Len(ring') = Len(ring) + 1 /\ ring'[Len(ring) + 1] = held[w]
          /\ \A j \in 1 .. Len(ring) : ring'[j] = ring[j]
      BY <1>0, <2>1, <3>1, AppendProperties
    <3>3. /\ due' \in Seq(Events \cup {NoEvent})
          /\ Len(due') = Len(due) + 1 /\ due'[Len(due) + 1] = e
          /\ \A j \in 1 .. Len(due) : due'[j] = due[j]
      <4>1. e \in Events \cup {NoEvent}
        BY <2>1 DEF e
      <4> QED BY <1>0, <3>1, <4>1, AppendProperties
    <3>4. content'[held[w]] = e /\ \A x \in Slots : x # held[w] => content'[x] = content[x]
      BY <1>0, <2>1, <2>2 DEF e
    <3>5. ASSUME NEW j \in 1 .. Len(batch) PROVE due'[j] = content'[batch[j]]
      <4>1. batch[j] \in Slots /\ batch[j] # held[w]
        BY <1>0, <2>1, ElementOfSeq DEF Elems
      <4>2. j \in 1 .. Len(due)
        BY <1>n, <1>f
      <4> QED BY <1>f, <3>3, <3>4, <4>1, <4>2
    <3>6. ASSUME NEW j \in 1 .. Len(ring) + 1
          PROVE  due'[Len(batch) + j] = content'[ring'[j]]
      <4>1. CASE j = Len(ring) + 1
        <5>1. Len(batch) + j = Len(due) + 1
          BY <1>n, <1>f, <4>1
        <5> QED BY <3>2, <3>3, <3>4, <4>1, <5>1
      <4>2. CASE j # Len(ring) + 1
        <5>1. j \in 1 .. Len(ring) /\ Len(batch) + j \in 1 .. Len(due)
          BY <1>n, <1>f, <4>2
        <5>2. ring[j] \in Slots /\ ring[j] # held[w]
          BY <1>0, <2>1, <5>1, ElementOfSeq DEF Elems
        <5> QED BY <1>f, <3>2, <3>3, <3>4, <5>1, <5>2
      <4> QED BY <4>1, <4>2
    <3>7. Len(due') = Len(batch') + Len(ring')
      BY <1>n, <1>f, <2>2, <3>2, <3>3
    <3> QED BY <2>2, <3>2, <3>3, <3>5, <3>6, <3>7 DEF Faithful
  <2> QED BY <2>3, <2>4
<1>3. ASSUME NEW w \in Workers, PutBack(w) PROVE Faithful'
  <2>1. held[w] \in Slots /\ held[w] \notin Elems(ring) /\ held[w] \notin Elems(batch)
    BY <1>3 DEF PutBack, At, TypeInv, WorkersOK, Holding, Placed, Shared
  <2> QED BY <1>3, <2>1, QueuedUntouched DEF PutBack
<1>4. CASE Dequeue
  <2> DEFINE n == IF Len(ring) < BatchSize THEN Len(ring) ELSE BatchSize
             a == SubSeq(ring, 1, n)
             b == SubSeq(ring, n + 1, Len(ring))
  <2>1. batch' = a /\ ring' = b /\ due' = due /\ content' = content
    BY <1>4 DEF Dequeue, history
  <2>2. n \in 0 .. Len(ring)
    BY <1>n, ConstantsOK
  <2>3. batch = <<>> /\ Len(batch) = 0
    BY <1>4, EmptySeq DEF Dequeue, TypeInv, SharedOK
  <2> HIDE DEF n
  <2>4. Len(a) = n /\ \A j \in 1 .. n : a[j] = ring[j]
    BY <1>0, <1>n, <2>2, SubSeqProperties
  <2>5. Len(b) = Len(ring) - n /\ \A j \in 1 .. Len(ring) - n : b[j] = ring[n + j]
    BY <1>0, <1>n, <2>2, SubSeqProperties
  <2> HIDE DEF a, b
  <2>6. \A j \in 1 .. n : j \in 1 .. Len(ring) /\ Len(batch) + j = j
    BY <1>n, <2>2, <2>3
  <2>7. \A j \in 1 .. Len(ring) - n : n + j \in 1 .. Len(ring) /\ Len(batch) + (n + j) = n + j
    BY <1>n, <2>2, <2>3
  <2>8. Len(due) = n + (Len(ring) - n)
    BY <1>n, <1>f, <2>2, <2>3
  <2>9. \A j \in 1 .. n : due[j] = content[a[j]]
    BY <1>f, <2>4, <2>6
  <2>10. \A j \in 1 .. Len(ring) - n : due[n + j] = content[b[j]]
    BY <1>f, <2>5, <2>7
  <2> QED BY <1>0, <2>1, <2>4, <2>5, <2>8, <2>9, <2>10 DEF Faithful
<1>5. CASE Write
  <2> DEFINE s == Head(batch)
  <2>1. /\ due' = Tail(due) /\ batch' = Tail(batch) /\ ring' = ring
        /\ content' = [content EXCEPT ![s] = NoEvent]
    BY <1>5 DEF Write
  <2>2. batch # <<>>
    BY <1>5 DEF Write, TypeInv, SharedOK
  <2>3. /\ s \in Slots /\ s = batch[1] /\ Len(batch) \in Nat \ {0}
        /\ Len(Tail(batch)) = Len(batch) - 1
        /\ \A j \in 1 .. Len(batch) - 1 : Tail(batch)[j] = batch[j + 1]
    BY <1>0, <2>2, HeadTailProperties, EmptySeq, ElementOfSeq
  <2>4. due # <<>>
    BY <1>f, <1>n, <2>3, EmptySeq
  <2>5. /\ Tail(due) \in Seq(Events \cup {NoEvent}) /\ Len(Tail(due)) = Len(due) - 1
        /\ \A j \in 1 .. Len(due) - 1 : Tail(due)[j] = due[j + 1]
    BY <1>0, <2>4, HeadTailProperties
  <2> HIDE DEF s
  <2>6. \A x \in Slots : x # s => content'[x] = content[x]
    BY <1>0, <2>1
  <2>7. ASSUME NEW j \in 1 .. Len(batch) - 1 PROVE due'[j] = content'[batch'[j]]
    <3>1. /\ j + 1 \in 1 .. Len(batch) /\ 1 \in 1 .. Len(batch) /\ 1 # j + 1
          /\ j \in 1 .. Len(due) - 1
      BY <1>n, <1>f, <2>3
    <3>2. batch[j + 1] \in Slots /\ batch[j + 1] # s
      BY <1>0, <2>3, <3>1, ElementOfSeq DEF Placed, Distinct
    <3> QED BY <1>f, <2>1, <2>3, <2>5, <2>6, <3>1, <3>2
  <2>8. ASSUME NEW j \in 1 .. Len(ring)
        PROVE  due'[(Len(batch) - 1) + j] = content'[ring'[j]]
    <3>1. s \in Elems(batch)
      BY <1>n, <2>3 DEF Elems
    <3>2. ring[j] \in Slots /\ ring[j] # s
      <4>1. ring[j] \in Slots /\ ring[j] \in Elems(ring)
        BY <1>0, ElementOfSeq DEF Elems
      <4> QED BY <3>1, <4>1 DEF Placed, Apart
    <3>3. /\ (Len(batch) - 1) + j \in 1 .. Len(due) - 1
          /\ ((Len(batch) - 1) + j) + 1 = Len(batch) + j
      BY <1>n, <1>f, <2>3
    <3> QED BY <1>f, <2>1, <2>5, <2>6, <3>2, <3>3
  <2>9. Len(due) - 1 = (Len(batch) - 1) + Len(ring)
    BY <1>n, <1>f
  <2> QED BY <2>1, <2>3, <2>5, <2>7, <2>8, <2>9 DEF Faithful
<1>6. \/ UNCHANGED <<due, ring, batch, content>>
      \/ \E w \in Workers : Enqueue(w) \/ PutBack(w)
      \/ Dequeue \/ Write
  BY DEF Next, Stop, Work, Logger, Poll, EndBurst, GetSlot, Load, Store, Open,
         Close, End, vars, workerVars, history
<1> QED BY <1>1, <1>2, <1>3, <1>4, <1>5, <1>6

LEMMA FaithfulWaits ==
  ASSUME TypeInv, Faithful PROVE due = Waiting
<1> DEFINE q == batch \o ring
<1>1. /\ q \in Seq(Slots) /\ Len(q) = Len(batch) + Len(ring)
      /\ Len(batch) \in Nat /\ Len(ring) \in Nat
      /\ \A j \in 1 .. Len(batch) + Len(ring) :
            q[j] = IF j <= Len(batch) THEN batch[j] ELSE ring[j - Len(batch)]
  BY ConcatProperties, LenProperties DEF TypeInv, SharedOK
<1>2. Waiting = [j \in DOMAIN q |-> content[q[j]]]
  BY DEF Waiting
<1> HIDE DEF q
<1>3. DOMAIN q = 1 .. Len(due) /\ Len(due) = Len(batch) + Len(ring)
  BY <1>1, LenProperties DEF Faithful
<1>4. ASSUME NEW j \in 1 .. Len(due) PROVE due[j] = content[q[j]]
  <2>1. CASE j <= Len(batch)
    BY <1>1, <1>3, <2>1 DEF Faithful
  <2>2. CASE ~(j <= Len(batch))
    <3>1. j - Len(batch) \in 1 .. Len(ring) /\ Len(batch) + (j - Len(batch)) = j
      BY <1>1, <1>3, <2>2
    <3>2. q[j] = ring[j - Len(batch)]
      BY <1>1, <1>3, <2>2
    <3> QED BY <3>1, <3>2 DEF Faithful
  <2> QED BY <2>1, <2>2
<1>5. due = [j \in 1 .. Len(due) |-> due[j]]
  BY LenProperties DEF Faithful
<1> QED BY <1>2, <1>3, <1>4, <1>5

LEMMA OldestWritten ==
  ASSUME TypeInv, Faithful, [Next]_vars, file' # file PROVE file' = Head(due)
<1>1. Write
  BY DEF Next, Stop, Work, Logger, Poll, EndBurst, GetSlot, Enqueue, PutBack, Load, Store,
         Open, Dequeue, Close, End, vars, workerVars
<1>2. batch # <<>> /\ batch \in Seq(Slots) /\ ring \in Seq(Slots)
  BY <1>1 DEF Write, TypeInv, SharedOK
<1>3. Head(batch) = batch[1] /\ Len(batch) \in Nat \ {0} /\ Len(ring) \in Nat
  BY <1>2, HeadTailProperties, EmptySeq, LenProperties
<1>4. due # <<>>
  <2>1. Len(due) # 0
    BY <1>3 DEF Faithful
  <2> QED BY <2>1, EmptySeq
<1>5. Head(due) = due[1]
  BY <1>4, HeadTailProperties DEF Faithful
<1>6. due[1] = content[batch[1]]
  BY <1>3 DEF Faithful
<1> QED BY <1>1, <1>3, <1>5, <1>6 DEF Write

(***************************************************************************)
(* Accepted events reach the file unaltered, once and in order.            *)
(***************************************************************************)
THEOREM FileKeepsOrder == Spec => FileFollowsSubmissions
<1>1. Init => Faithful
  BY InitFaithful
<1>2. TypeInv /\ Placed /\ Faithful /\ [Next]_vars => Faithful'
  BY StepFaithful, AsyncLogAssumption
<1>3. TypeInv /\ Faithful => due = Waiting
  BY FaithfulWaits
<1>4. TypeInv /\ Faithful /\ [Next]_vars => [file' # file => file' = Head(due)]_vars
  BY OldestWritten
<1> QED BY <1>1, <1>2, <1>3, <1>4, InvariantTypeInv, InvariantPlaced, PTL
        DEF Spec, FileFollowsSubmissions

-------------------------------------------------------------------------------
(* What the logger leaves *)

\* The places of the ring that hold an event of w, and whether w is about to
\* add another.
From(w) == {j \in DOMAIN ring : content[ring[j]][1] = w}
InHand(w) == IF pc[w] = "enqueue" THEN 1 ELSE 0

\* After the logger no worker starts a burst: what it has in the ring, in hand
\* and still to come is of one burst.
OneBurst ==
    /\ left \in [Workers -> Nat]
    /\ \A w \in Workers : left[w] + InHand(w) <= Burst
    /\ logger = "done" =>
          /\ stop
          /\ \A w \in Workers : Cardinality(From(w)) + left[w] + InHand(w) <= Burst

LEMMA InitOneBurst ==
  ASSUME AsyncLogAssumption, Init PROVE OneBurst
BY DEF AsyncLogAssumption, Init, OneBurst, InHand

LEMMA PlacesCounted ==
  ASSUME TypeInv, NEW w PROVE IsFiniteSet(From(w)) /\ Cardinality(From(w)) \in Nat
<1>1. Len(ring) \in Nat /\ DOMAIN ring = 1 .. Len(ring)
  BY LenProperties DEF TypeInv, SharedOK
<1>2. IsFiniteSet(1 .. Len(ring))
  BY <1>1, FS_Interval
<1>3. From(w) \in SUBSET (1 .. Len(ring))
  BY <1>1 DEF From
<1>4. IsFiniteSet(From(w))
  BY <1>2, <1>3, FS_Subset
<1> QED BY <1>4, FS_CardinalityType

\* Writing to a slot outside the ring changes no worker's places in it.
LEMMA PlacesKept ==
  ASSUME TypeInv, NEW s \in Slots, s \notin Elems(ring),
         NEW e, content' = [content EXCEPT ![s] = e], ring' = ring
  PROVE  \A w \in Workers : From(w)' = From(w)
<1>1. content \in [Slots -> Events \cup {NoEvent}]
      /\ ring \in Seq(Slots) /\ DOMAIN ring = 1 .. Len(ring)
  BY LenProperties DEF TypeInv, SharedOK
<1>2. \A j \in 1 .. Len(ring) : ring[j] \in Slots /\ ring[j] # s
  BY <1>1, ElementOfSeq DEF Elems
<1>3. \A j \in DOMAIN ring : content'[ring[j]] = content[ring[j]]
  BY <1>1, <1>2
<1> QED BY <1>3 DEF From

LEMMA PlaceAdded ==
  ASSUME TypeInv, NEW s \in Slots, s \notin Elems(ring), NEW v \in Workers, NEW n,
         content' = [content EXCEPT ![s] = <<v, n>>], ring' = Append(ring, s)
  PROVE  \A w \in Workers :
            Cardinality(From(w)') = Cardinality(From(w)) + (IF w = v THEN 1 ELSE 0)
<1> DEFINE k == Len(ring) + 1
<1>1. /\ content \in [Slots -> Events \cup {NoEvent}] /\ ring \in Seq(Slots)
      /\ DOMAIN ring = 1 .. Len(ring) /\ Len(ring) \in Nat
  BY LenProperties DEF TypeInv, SharedOK
<1>2. /\ DOMAIN ring' = 1 .. k /\ ring'[k] = s
      /\ \A j \in 1 .. Len(ring) : ring'[j] = ring[j]
  BY <1>1, AppendProperties, LenProperties
<1>3. \A j \in 1 .. Len(ring) : ring[j] \in Slots /\ ring[j] # s
  BY <1>1, ElementOfSeq DEF Elems
<1>4. content'[s] = <<v, n>> /\ \A j \in 1 .. Len(ring) : content'[ring'[j]] = content[ring[j]]
  BY <1>1, <1>2, <1>3
<1>5. 1 .. k = (1 .. Len(ring)) \cup {k} /\ k \notin 1 .. Len(ring)
  BY <1>1
<1> HIDE DEF k
<1> SUFFICES ASSUME NEW w \in Workers
             PROVE  Cardinality(From(w)') = Cardinality(From(w)) + (IF w = v THEN 1 ELSE 0)
  OBVIOUS
<1>6. IsFiniteSet(From(w)) /\ Cardinality(From(w)) \in Nat
  BY PlacesCounted
<1>7. From(w)' = {j \in 1 .. k : content'[ring'[j]][1] = w}
  BY <1>2 DEF From
<1>8. From(w) = {j \in 1 .. Len(ring) : content[ring[j]][1] = w}
  BY <1>1 DEF From
<1>9. content'[ring'[k]][1] = v
  BY <1>2, <1>4
<1>10. CASE w = v
  <2>1. From(w)' = From(w) \cup {k} /\ k \notin From(w)
    BY <1>4, <1>5, <1>7, <1>8, <1>9, <1>10
  <2> QED BY <1>6, <1>10, <2>1, FS_AddElement
<1>11. CASE w # v
  <2>1. From(w)' = From(w)
    BY <1>4, <1>5, <1>7, <1>8, <1>9, <1>11
  <2> QED BY <1>6, <1>11, <2>1
<1> QED BY <1>10, <1>11

LEMMA StepOneBurst ==
  ASSUME AsyncLogAssumption, TypeInv, Placed, OneBurst, [Next]_vars PROVE OneBurst'
<1>0. /\ Burst \in Nat /\ pc \in [Workers -> Steps] /\ left \in [Workers -> Nat]
  BY DEF AsyncLogAssumption, TypeInv, WorkersOK, OneBurst
<1>c. \A w \in Workers : Cardinality(From(w)) \in Nat /\ left[w] \in Nat /\ InHand(w) \in 0 .. 1
  BY <1>0, PlacesCounted DEF InHand
<1>b. \A w \in Workers : left[w] + InHand(w) <= Burst
  BY DEF OneBurst
\* A step that adds nothing to the ring, and to no worker's burst once the stop
\* flag is set.
<1>1. ASSUME left' \in [Workers -> Nat],
             \A w \in Workers : left'[w] + InHand(w)' <= Burst,
             logger' = "done" => logger = "done",
             logger' = "done" => /\ stop => stop'
                                 /\ \A w \in Workers : From(w)' = From(w)
                                 /\ stop => \A w \in Workers :
                                       left'[w] + InHand(w)' <= left[w] + InHand(w)
      PROVE  OneBurst'
  <2>1. ASSUME logger' = "done", NEW w \in Workers
        PROVE  stop' /\ Cardinality(From(w)') + left'[w] + InHand(w)' <= Burst
    <3>1. /\ stop /\ Cardinality(From(w)) + left[w] + InHand(w) <= Burst
      BY <1>1, <2>1 DEF OneBurst
    <3>2. From(w)' = From(w) /\ stop' /\ left'[w] + InHand(w)' <= left[w] + InHand(w)
      BY <1>1, <2>1, <3>1
    <3>3. left'[w] \in Nat /\ InHand(w)' \in 0 .. 1
      BY <1>1 DEF InHand
    <3>4. Cardinality(From(w)') = Cardinality(From(w))
      BY <3>2
    <3> QED BY <1>0, <1>c, <3>1, <3>2, <3>3, <3>4
  <2>2. logger' = "done" => stop'
    BY <1>1 DEF OneBurst
  <2> QED BY <1>1, <2>1, <2>2 DEF OneBurst
<1>2. ASSUME UNCHANGED <<left, pc, ring, content>>, stop => stop',
             logger' = "done" => logger = "done"
      PROVE  OneBurst'
  <2>1. \A w \in Workers : InHand(w)' = InHand(w) /\ From(w)' = From(w) /\ left'[w] = left[w]
    BY <1>2 DEF InHand, From
  <2> QED BY <1>0, <1>1, <1>2, <1>c, <2>1 DEF OneBurst
<1>3. ASSUME NEW w \in Workers, Poll(w) PROVE OneBurst'
  <2>1. /\ pc[w] = "poll" /\ pc'[w] \in {"done", "burst"}
        /\ stop => left' = left
        /\ \A v \in Workers : v # w => pc'[v] = pc[v] /\ left'[v] = left[v]
        /\ left' \in [Workers -> Nat]
        /\ left'[w] = left[w] \/ left'[w] <= Burst
        /\ UNCHANGED <<stop, ring, content, logger>>
    BY <1>0, <1>3 DEF Poll, At, Goto
  <2>2. \A v \in Workers : InHand(v)' = InHand(v) /\ From(v)' = From(v)
    BY <2>1 DEF InHand, From
  <2>3. InHand(w)' = 0
    BY <2>1 DEF InHand
  <2>4. \A v \in Workers : left'[v] + InHand(v)' <= Burst
    <3> SUFFICES ASSUME NEW v \in Workers PROVE left'[v] + InHand(v)' <= Burst
      OBVIOUS
    <3>1. left[v] \in Nat /\ InHand(v) \in 0 .. 1 /\ left[v] + InHand(v) <= Burst
      BY <1>b, <1>c
    <3>2. CASE v = w
      BY <1>0, <2>1, <2>3, <3>1, <3>2
    <3>3. CASE v # w
      BY <2>1, <2>2, <3>1, <3>3
    <3> QED BY <3>2, <3>3
  <2>5. stop => \A v \in Workers : left'[v] + InHand(v)' <= left[v] + InHand(v)
    <3> SUFFICES ASSUME stop, NEW v \in Workers
                 PROVE  left'[v] + InHand(v)' <= left[v] + InHand(v)
      OBVIOUS
    <3>1. left'[v] = left[v] /\ InHand(v)' = InHand(v)
      BY <2>1, <2>2
    <3> QED BY <1>c, <3>1
  <2> QED BY <1>1, <2>1, <2>2, <2>4, <2>5
<1>4. ASSUME NEW w \in Workers, EndBurst(w) PROVE OneBurst'
  <2>1. /\ pc[w] = "burst" /\ pc' = [pc EXCEPT ![w] = "poll"]
        /\ left' = [left EXCEPT ![w] = 0]
        /\ UNCHANGED <<stop, ring, content, logger>>
    BY <1>4 DEF EndBurst, At, Goto
  <2>2. \A v \in Workers : InHand(v)' = InHand(v) /\ From(v)' = From(v)
    BY <1>0, <2>1 DEF InHand, From
  <2>3. left' \in [Workers -> Nat] /\ \A v \in Workers : left'[v] <= left[v]
    BY <1>0, <1>c, <2>1
  <2>4. \A v \in Workers : /\ left'[v] + InHand(v)' <= left[v] + InHand(v)
                           /\ left'[v] + InHand(v)' <= Burst
    <3> SUFFICES ASSUME NEW v \in Workers
                 PROVE  /\ left'[v] + InHand(v)' <= left[v] + InHand(v)
                        /\ left'[v] + InHand(v)' <= Burst
      OBVIOUS
    <3>1. left[v] \in Nat /\ InHand(v) \in 0 .. 1 /\ left[v] + InHand(v) <= Burst
      BY <1>b, <1>c
    <3>2. left'[v] \in Nat /\ left'[v] <= left[v] /\ InHand(v)' = InHand(v)
      BY <2>2, <2>3
    <3> QED BY <1>0, <3>1, <3>2
  <2> QED BY <1>1, <2>1, <2>2, <2>3, <2>4
<1>5. ASSUME NEW w \in Workers, GetSlot(w) PROVE OneBurst'
  <2>1. /\ pc[w] = "burst" /\ left[w] > 0 /\ left' = [left EXCEPT ![w] = left[w] - 1]
        /\ \E p \in {"load_dropped", "enqueue"} : pc' = [pc EXCEPT ![w] = p]
        /\ UNCHANGED <<stop, ring, content, logger>>
    BY <1>5 DEF GetSlot, At, Goto
  <2>p. left[w] \in Nat /\ left[w] - 1 \in Nat
    <3>1. left[w] \in Nat /\ left[w] > 0
      BY <1>c, <2>1
    <3> QED BY <3>1
  <2>2. /\ left' \in [Workers -> Nat]
        /\ \A v \in Workers : left'[v] = IF v = w THEN left[v] - 1 ELSE left[v]
    BY <1>0, <2>1, <2>p
  <2>h. \A v \in Workers : /\ v # w => InHand(v)' = InHand(v)
                           /\ v = w => InHand(v) = 0 /\ InHand(v)' \in {0, 1}
    <3>1. PICK p \in {"load_dropped", "enqueue"} : pc' = [pc EXCEPT ![w] = p]
      BY <2>1
    <3>2. \A v \in Workers : v # w => pc'[v] = pc[v]
      BY <1>0, <3>1
    <3>3. pc[w] # "enqueue"
      BY <2>1
    <3>4. \A v \in Workers : InHand(v)' \in {0, 1} /\ (v # w => InHand(v)' = InHand(v))
      BY <3>2 DEF InHand
    <3>5. InHand(w) = 0
      BY <3>3 DEF InHand
    <3> QED BY <3>4, <3>5
  <2>3. \A v \in Workers : From(v)' = From(v)
    BY <2>1 DEF From
  <2>4. \A v \in Workers : /\ left'[v] + InHand(v)' <= left[v] + InHand(v)
                           /\ left'[v] + InHand(v)' <= Burst
    <3> SUFFICES ASSUME NEW v \in Workers
                 PROVE  /\ left'[v] + InHand(v)' <= left[v] + InHand(v)
                        /\ left'[v] + InHand(v)' <= Burst
      OBVIOUS
    <3>1. left[v] \in Nat /\ InHand(v) \in 0 .. 1 /\ left[v] + InHand(v) <= Burst
      BY <1>b, <1>c
    <3>2. CASE v = w
      BY <1>0, <2>2, <2>h, <3>1, <3>2
    <3>3. CASE v # w
      BY <2>2, <2>h, <3>1, <3>3
    <3> QED BY <3>2, <3>3
  <2> QED BY <1>1, <2>1, <2>2, <2>3, <2>4
<1>6. ASSUME NEW w \in Workers, Enqueue(w) PROVE OneBurst'
  <2>1. /\ held[w] \in Slots /\ held[w] \notin Elems(ring)
    BY <1>6 DEF Enqueue, At, TypeInv, WorkersOK, Holding, Placed, Shared
  <2>2. /\ pc[w] = "enqueue" /\ content' = [content EXCEPT ![held[w]] = <<w, events[w]>>]
        /\ \E p \in {"load_submitted", "put_back"} : pc' = [pc EXCEPT ![w] = p]
        /\ UNCHANGED <<stop, left, logger>>
    BY <1>6 DEF Enqueue, At, Goto
  <2>3. \A v \in Workers : /\ v # w => InHand(v)' = InHand(v)
                           /\ v = w => InHand(v) = 1 /\ InHand(v)' = 0
    BY <1>0, <2>2 DEF InHand
  <2>4. \A v \in Workers : /\ left'[v] + InHand(v)' <= left[v] + InHand(v)
                           /\ left'[v] + InHand(v)' <= Burst
    <3> SUFFICES ASSUME NEW v \in Workers
                 PROVE  /\ left'[v] + InHand(v)' <= left[v] + InHand(v)
                        /\ left'[v] + InHand(v)' <= Burst
      OBVIOUS
    <3>1. left[v] \in Nat /\ InHand(v) \in 0 .. 1 /\ left[v] + InHand(v) <= Burst
      BY <1>b, <1>c
    <3>2. left'[v] = left[v]
      BY <2>2
    <3>3. CASE v = w
      BY <1>0, <2>3, <3>1, <3>2, <3>3
    <3>4. CASE v # w
      BY <2>3, <3>1, <3>2, <3>4
    <3> QED BY <3>3, <3>4
  <2>5. CASE ~(Len(ring) < RingRoom)
    <3>1. \A v \in Workers : From(v)' = From(v)
      BY <1>6, <2>1, <2>2, <2>5, PlacesKept DEF Enqueue
    <3> QED BY <1>0, <1>1, <2>2, <2>4, <3>1
  <2>6. CASE Len(ring) < RingRoom
    <3>1. \A v \in Workers :
             Cardinality(From(v)') = Cardinality(From(v)) + (IF v = w THEN 1 ELSE 0)
      <4>1. ring' = Append(ring, held[w])
        BY <1>6, <2>6 DEF Enqueue
      <4>2. content' = [content EXCEPT ![held[w]] = <<w, events[w]>>]
        BY <2>2
      <4> QED BY <2>1, <4>1, <4>2, PlaceAdded
    <3>2. ASSUME logger = "done", NEW v \in Workers
          PROVE  Cardinality(From(v)') + left'[v] + InHand(v)' <= Burst
      <4>1. Cardinality(From(v)) + left[v] + InHand(v) <= Burst
        BY <3>2 DEF OneBurst
      <4>2. left'[v] = left[v]
        BY <2>2
      <4> QED BY <1>0, <1>c, <2>3, <3>1, <4>1, <4>2
    <3> QED BY <1>0, <2>2, <2>4, <3>2 DEF OneBurst
  <2> QED BY <2>5, <2>6
<1>7. ASSUME NEW w \in Workers, PutBack(w) PROVE OneBurst'
  <2>1. /\ held[w] \in Slots /\ held[w] \notin Elems(ring)
    BY <1>7 DEF PutBack, At, TypeInv, WorkersOK, Holding, Placed, Shared
  <2>2. /\ pc[w] = "put_back" /\ content' = [content EXCEPT ![held[w]] = NoEvent]
        /\ pc' = [pc EXCEPT ![w] = "load_dropped"]
        /\ UNCHANGED <<stop, left, logger, ring>>
    BY <1>7 DEF PutBack, At, Goto
  <2>3. \A v \in Workers : InHand(v)' = InHand(v) /\ left'[v] = left[v]
    BY <1>0, <2>2 DEF InHand
  <2>4. \A v \in Workers : From(v)' = From(v)
    BY <2>1, <2>2, PlacesKept
  <2> QED BY <1>0, <1>c, <1>1, <2>2, <2>3, <2>4 DEF OneBurst
<1>8. ASSUME NEW w \in Workers, Load(w) \/ Store(w) PROVE OneBurst'
  <2>1. /\ UNCHANGED <<stop, left, ring, content, logger>>
        /\ pc[w] # "enqueue" /\ pc'[w] # "enqueue"
        /\ \A v \in Workers : v # w => pc'[v] = pc[v]
    BY <1>0, <1>8 DEF Load, Store, At, Goto
  <2>2. \A v \in Workers : InHand(v)' = InHand(v) /\ From(v)' = From(v) /\ left'[v] = left[v]
    BY <2>1 DEF InHand, From
  <2> QED BY <1>0, <1>c, <1>1, <2>1, <2>2 DEF OneBurst
<1>9. CASE Dequeue \/ Write
  <2>1. /\ UNCHANGED <<left, pc, stop>> /\ logger' # "done"
    BY <1>9 DEF Dequeue, Write, workerVars
  <2>2. \A w \in Workers : InHand(w)' = InHand(w)
    BY <2>1 DEF InHand
  <2> QED BY <1>0, <2>1, <2>2 DEF OneBurst
<1>10. CASE Close
  <2>1. UNCHANGED <<left, pc, stop, ring, content>> /\ stop /\ ring = <<>>
    BY <1>10 DEF Close, workerVars
  <2>2. \A w \in Workers : InHand(w)' = InHand(w) /\ left'[w] = left[w]
    BY <2>1 DEF InHand
  <2>3. \A w \in Workers : Cardinality(From(w)') = 0
    <3>1. \A w \in Workers : From(w)' = {}
      BY <2>1, EmptySeq DEF From
    <3> QED BY <3>1, FS_EmptySet
  <2>4. \A w \in Workers : Cardinality(From(w)') + left'[w] + InHand(w)' <= Burst
    BY <1>c, <2>2, <2>3 DEF OneBurst
  <2> QED BY <1>0, <2>1, <2>2, <2>4 DEF OneBurst
<1>11. \/ /\ UNCHANGED <<left, pc, ring, content>>
          /\ stop => stop'
          /\ logger' = "done" => logger = "done"
       \/ \E w \in Workers : \/ Poll(w) \/ EndBurst(w) \/ GetSlot(w) \/ Enqueue(w)
                             \/ PutBack(w) \/ Load(w) \/ Store(w)
       \/ Dequeue \/ Write \/ Close
  BY DEF Next, Stop, Work, Logger, Open, End, vars, workerVars, history
<1> QED BY <1>2, <1>3, <1>4, <1>5, <1>6, <1>7, <1>8, <1>9, <1>10, <1>11

(***************************************************************************)
(* The logger may end first, but what it leaves is one burst of a worker   *)
(* at most.                                                                *)
(***************************************************************************)
THEOREM OneBurstLeft == Spec => []LeavesAtMostOneBurst
<1>1. Init => OneBurst
  BY InitOneBurst, AsyncLogAssumption
<1>2. TypeInv /\ Placed /\ OneBurst /\ [Next]_vars => OneBurst'
  BY StepOneBurst, AsyncLogAssumption
<1>3. TypeInv /\ OneBurst => LeavesAtMostOneBurst
  <2> SUFFICES ASSUME TypeInv, OneBurst, logger = "done", NEW w \in Workers
               PROVE  Cardinality(From(w)) <= Burst
    BY DEF LeavesAtMostOneBurst, From
  <2>1. Cardinality(From(w)) \in Nat /\ left[w] \in Nat /\ InHand(w) \in 0 .. 1
    BY PlacesCounted DEF OneBurst, InHand
  <2>2. Cardinality(From(w)) + left[w] + InHand(w) <= Burst /\ Burst \in Nat
    BY AsyncLogAssumption DEF AsyncLogAssumption, OneBurst
  <2> QED BY <2>1, <2>2
<1> QED BY <1>1, <1>2, <1>3, InvariantTypeInv, InvariantPlaced, PTL DEF Spec
===============================================================================
