--------------------------- MODULE DataPathProofs ---------------------------
(***************************************************************************)
(* Proofs about the path of a packet's data: the loops over bursts, what   *)
(* the benchmark keeps from burst to burst, and the kernels that predict.  *)
(*                                                                         *)
(* No packet buffer is lost, freed twice or sent after it was freed, and   *)
(* packets leave in the order they came, for any pool, burst and queue.    *)
(* The benchmark reads a response under the right start address, and its   *)
(* per-sensor state covers every reading, for any ring, window and number  *)
(* of sensors.  Every kernel gives a vector the class the trained model    *)
(* gives it, in the memory it was given, for any model, word and vector.   *)
(***************************************************************************)
EXTENDS Worker, BenchModbus, Kernels, DataLemmas

\* The packets of the burst that are still to be decided on.
ToDecide == SubSeq(bufs, i + 1, Len(bufs))

TypeInv ==
    /\ TypeOK
    /\ rx_queue \in Seq(Mbufs) /\ tx_queue \in Seq(Mbufs)
    /\ pc # "packet" => bufs = <<>> /\ i = 0 /\ tx_bufs = <<>>

LEMMA InitTypeInv ==
  ASSUME WorkerAssumption, Init PROVE TypeInv
<1>1. <<>> \in Seq(Mbufs) /\ Len(<<>>) = 0
  BY EmptySeq
<1>2. BurstSize \in Nat /\ TxRoom \in Nat
  BY DEF WorkerAssumption
<1>3. bufs = <<>> /\ tx_bufs = <<>> /\ rx_queue = <<>> /\ tx_queue = <<>>
  BY DEF Init
<1>4. i = 0 /\ pool = Mbufs /\ pc = "poll"
  BY DEF Init
<1> QED BY <1>1, <1>2, <1>3, <1>4 DEF TypeInv, TypeOK

LEMMA StepTypeInv ==
  ASSUME WorkerAssumption, TypeInv, [Next]_vars PROVE TypeInv'
<1>0. /\ BurstSize \in Nat /\ TxRoom \in Nat
      /\ <<>> \in Seq(Mbufs) /\ Len(<<>>) = 0
  BY EmptySeq DEF WorkerAssumption
<1>t. /\ bufs \in Seq(Mbufs) /\ tx_bufs \in Seq(Mbufs)
      /\ rx_queue \in Seq(Mbufs) /\ tx_queue \in Seq(Mbufs)
      /\ Len(bufs) \in Nat /\ Len(tx_bufs) \in Nat /\ Len(tx_queue) \in Nat
      /\ i \in Nat /\ i <= Len(bufs) /\ Len(tx_bufs) <= i
  BY LenProperties DEF TypeInv, TypeOK
<1>1. ASSUME NEW m \in Mbufs, Arrive(m) PROVE TypeInv'
  <2>1. Append(rx_queue, m) \in Seq(Mbufs)
    BY <1>t, LastAdded
  <2> QED BY <1>1, <2>1 DEF Arrive, local, TypeInv, TypeOK
<1>2. CASE Transmit
  <2>1. /\ tx_queue' = Tail(tx_queue) /\ pool' = pool \cup {Head(tx_queue)}
        /\ UNCHANGED <<pc, bufs, i, tx_bufs, rx_queue>>
    BY <1>2 DEF Transmit, local
  <2>2. /\ Head(tx_queue) \in Mbufs /\ Tail(tx_queue) \in Seq(Mbufs)
        /\ Len(Tail(tx_queue)) = Len(tx_queue) - 1
    BY <1>2, <1>t, FirstTaken DEF Transmit
  <2>3. Len(tx_queue') <= TxRoom
    BY <1>0, <1>t, <2>1, <2>2 DEF TypeInv, TypeOK
  <2> QED BY <2>1, <2>2, <2>3 DEF TypeInv, TypeOK
<1>3. CASE Stop \/ Leave \/ Deadline \/ UNCHANGED vars
  <2>1. /\ UNCHANGED <<bufs, i, tx_bufs, pool, rx_queue, tx_queue>>
        /\ \/ UNCHANGED pc
           \/ pc = "poll" /\ pc' = "done"
    BY <1>3 DEF Stop, Leave, Deadline, vars, local, nic
  <2> QED BY <2>1 DEF TypeInv, TypeOK
<1>4. CASE Poll
  <2>1. PICK n \in 1 .. BurstSize :
          /\ n <= Len(rx_queue)
          /\ bufs' = SubSeq(rx_queue, 1, n)
          /\ rx_queue' = SubSeq(rx_queue, n + 1, Len(rx_queue))
    BY <1>4 DEF Poll, TakeBurst
  <2>2. n \in 0 .. Len(rx_queue)
    BY <1>0, <1>t, <2>1, LenProperties
  <2>3. bufs' \in Seq(Mbufs) /\ Len(bufs') = n /\ rx_queue' \in Seq(Mbufs)
    BY <1>t, <2>1, <2>2, CutInTwo
  <2>4. /\ pc = "poll" /\ pc' = "packet"
        /\ UNCHANGED <<i, tx_bufs, pool, tx_queue>>
    BY <1>4 DEF Poll
  <2>5. i = 0 /\ Len(bufs') <= BurstSize /\ i \in 0 .. Len(bufs')
    BY <1>0, <2>1, <2>2, <2>3, <2>4 DEF TypeInv
  <2> QED BY <2>3, <2>4, <2>5 DEF TypeInv, TypeOK
<1>5. CASE Drop \/ Keep
  <2>1. /\ pc = "packet" /\ i < Len(bufs) /\ i' = i + 1
        /\ UNCHANGED <<pc, bufs, rx_queue, tx_queue>>
    BY <1>5 DEF Drop, Keep, Decide, nic
  <2>2. bufs[i + 1] \in Mbufs
    BY <1>t, <2>1, ElementOfSeq
  <2>3. pool' \subseteq Mbufs
    BY <1>5, <2>2 DEF Drop, Keep, nic, TypeInv, TypeOK
  <2>4. /\ Append(tx_bufs, bufs[i + 1]) \in Seq(Mbufs)
        /\ Len(Append(tx_bufs, bufs[i + 1])) = Len(tx_bufs) + 1
    BY <1>t, <2>2, LastAdded
  <2>5. tx_bufs' \in {tx_bufs, Append(tx_bufs, bufs[i + 1])}
    BY <1>5 DEF Drop, Keep
  <2>6. tx_bufs' \in Seq(Mbufs) /\ Len(tx_bufs') <= i'
    <3>1. Len(tx_bufs) <= i + 1 /\ Len(tx_bufs) + 1 <= i + 1
      BY <1>t
    <3>2. CASE tx_bufs' = tx_bufs
      BY <1>t, <2>1, <3>1, <3>2
    <3>3. CASE tx_bufs' = Append(tx_bufs, bufs[i + 1])
      BY <2>1, <2>4, <3>1, <3>3
    <3> QED BY <2>5, <3>2, <3>3
  <2>7. i' \in 0 .. Len(bufs')
    BY <1>t, <2>1
  <2> QED BY <2>1, <2>3, <2>6, <2>7 DEF TypeInv, TypeOK
<1>6. CASE Send
  <2>1. PICK nb_tx \in 0 .. Len(tx_bufs) :
          /\ Len(tx_queue) + nb_tx <= TxRoom
          /\ tx_queue' = tx_queue \o SubSeq(tx_bufs, 1, nb_tx)
          /\ pool' = pool \cup ToSet(SubSeq(tx_bufs, nb_tx + 1, Len(tx_bufs)))
    BY <1>6 DEF Send, Discard
  <2> DEFINE sent == SubSeq(tx_bufs, 1, nb_tx)
             rest == SubSeq(tx_bufs, nb_tx + 1, Len(tx_bufs))
  <2>2. sent \in Seq(Mbufs) /\ Len(sent) = nb_tx /\ rest \in Seq(Mbufs)
    BY <1>t, CutInTwo
  <2>3. tx_queue' = tx_queue \o sent /\ pool' = pool \cup ToSet(rest)
    BY <2>1
  <2> HIDE DEF sent, rest
  <2>4. tx_queue' \in Seq(Mbufs) /\ Len(tx_queue') = Len(tx_queue) + nb_tx
    BY <1>t, <2>2, <2>3, ConcatProperties
  <2>5. ToSet(rest) \subseteq Mbufs
    BY <2>2, ElementOfSeq, LenProperties DEF ToSet
  <2>6. /\ pc' = "poll" /\ bufs' = <<>> /\ i' = 0 /\ tx_bufs' = <<>>
        /\ UNCHANGED rx_queue
    BY <1>6 DEF Send
  <2> QED BY <1>0, <2>1, <2>3, <2>4, <2>5, <2>6 DEF TypeInv, TypeOK
<1>7. CASE FreeBurst
  <2>1. /\ pc' = "poll" /\ bufs' = <<>> /\ i' = 0 /\ tx_bufs' = <<>>
        /\ pool' = pool \cup ToSet(tx_bufs)
        /\ UNCHANGED <<rx_queue, tx_queue>>
    BY <1>7 DEF FreeBurst, Discard
  <2>2. ToSet(tx_bufs) \subseteq Mbufs
    BY <1>t, ElementOfSeq, LenProperties DEF ToSet
  <2> QED BY <1>0, <2>1, <2>2 DEF TypeInv, TypeOK
<1> QED BY <1>1, <1>2, <1>3, <1>4, <1>5, <1>6, <1>7 DEF Next, Work, Idle

LEMMA InvariantTypeInv == Spec => []TypeInv
<1>1. Init => TypeInv
  BY InitTypeInv, WorkerAssumption
<1>2. TypeInv /\ [Next]_vars => TypeInv'
  BY StepTypeInv, WorkerAssumption
<1> QED BY <1>1, <1>2, PTL DEF Spec

(***************************************************************************)
(* A burst fits bufs and tx_bufs, and the TX queue takes no more than it   *)
(* has room for.                                                           *)
(***************************************************************************)
THEOREM TypeInvariant == Spec => []TypeOK
<1>1. TypeInv => TypeOK
  BY DEF TypeInv
<1> QED BY <1>1, InvariantTypeInv, PTL

-------------------------------------------------------------------------------
(* Buffers *)

\* The five holders share the buffers out between them.
Holders(p, a, t, k, u) ==
    /\ p \cap a = {} /\ p \cap t = {} /\ p \cap k = {} /\ p \cap u = {}
    /\ a \cap t = {} /\ a \cap k = {} /\ a \cap u = {}
    /\ t \cap k = {} /\ t \cap u = {} /\ k \cap u = {}
    /\ p \cup a \cup t \cup k \cup u = Mbufs

Placed ==
    /\ Distinct(rx_queue) /\ Distinct(tx_queue) /\ Distinct(tx_bufs)
    /\ Distinct(ToDecide)
    /\ Holders(pool, Elems(rx_queue), Elems(tx_queue), Elems(tx_bufs), Elems(ToDecide))

LEMMA NothingToDecide ==
  ASSUME NEW q, NEW k \in Nat, k = Len(q)
  PROVE  SubSeq(q, k + 1, Len(q)) = <<>>
BY SubSeqEmpty

LEMMA EmptyQueue == Elems(<<>>) = {} /\ Distinct(<<>>)
BY EmptySeq DEF Elems, Distinct

LEMMA InitPlaced ==
  ASSUME WorkerAssumption, Init PROVE Placed
<1>1. bufs = <<>> /\ i = 0 /\ Len(<<>>) = 0
  BY EmptySeq DEF Init
<1>2. ToDecide = <<>>
  BY <1>1, NothingToDecide DEF ToDecide
<1>3. rx_queue = <<>> /\ tx_queue = <<>> /\ tx_bufs = <<>> /\ pool = Mbufs
  BY DEF Init
<1> QED BY <1>2, <1>3, EmptyQueue DEF Placed, Holders

LEMMA StepPlaced ==
  ASSUME WorkerAssumption, TypeInv, Placed, [Next]_vars PROVE Placed'
<1> DEFINE R == Elems(rx_queue)
           T == Elems(tx_queue)
           K == Elems(tx_bufs)
           U == Elems(ToDecide)
<1>t. /\ bufs \in Seq(Mbufs) /\ tx_bufs \in Seq(Mbufs)
      /\ rx_queue \in Seq(Mbufs) /\ tx_queue \in Seq(Mbufs)
      /\ Len(bufs) \in Nat /\ Len(rx_queue) \in Nat /\ i \in 0 .. Len(bufs)
  BY LenProperties DEF TypeInv, TypeOK
<1>p. /\ Distinct(rx_queue) /\ Distinct(tx_queue) /\ Distinct(tx_bufs)
      /\ Distinct(ToDecide) /\ Holders(pool, R, T, K, U)
  BY DEF Placed
<1>e. /\ R' = Elems(rx_queue') /\ T' = Elems(tx_queue')
      /\ K' = Elems(tx_bufs') /\ U' = Elems(ToDecide')
  OBVIOUS
<1>g. ASSUME Distinct(rx_queue'), Distinct(tx_queue'), Distinct(tx_bufs'),
             Distinct(ToDecide'), Holders(pool', R', T', K', U')
      PROVE  Placed'
  BY <1>g DEF Placed, Holders
<1>n. ToDecide' = SubSeq(bufs', i' + 1, Len(bufs'))
  BY DEF ToDecide
<1> HIDE DEF R, T, K, U
<1>1. ASSUME NEW m \in Mbufs, Arrive(m) PROVE Placed'
  <2>1. /\ rx_queue' = Append(rx_queue, m) /\ pool' = pool \ {m} /\ m \in pool
        /\ UNCHANGED <<bufs, i, tx_bufs, tx_queue>>
    BY <1>1 DEF Arrive, local
  <2>2. ToDecide' = ToDecide
    BY <2>1, <1>n DEF ToDecide
  <2>3. m \notin R
    BY <1>p, <2>1 DEF Holders
  <2>4. Distinct(rx_queue') /\ R' = R \cup {m}
    BY <1>e, <1>p, <1>t, <2>1, <2>3, LastAdded DEF R
  <2>5. T' = T /\ K' = K /\ U' = U
    BY <1>e, <2>1, <2>2 DEF T, K, U
  <2>6. Holders(pool', R', T', K', U')
    BY <1>p, <2>1, <2>4, <2>5 DEF Holders
  <2> QED BY <1>g, <1>p, <2>1, <2>2, <2>4, <2>6
<1>2. CASE Transmit
  <2>1. /\ tx_queue # <<>> /\ tx_queue' = Tail(tx_queue)
        /\ pool' = pool \cup {Head(tx_queue)}
        /\ UNCHANGED <<bufs, i, tx_bufs, rx_queue>>
    BY <1>2 DEF Transmit, local
  <2>2. ToDecide' = ToDecide
    BY <2>1, <1>n DEF ToDecide
  <2>3. Distinct(tx_queue') /\ Head(tx_queue) \in T /\ T' = T \ {Head(tx_queue)}
    BY <1>e, <1>p, <1>t, <2>1, FirstTaken DEF T
  <2>4. R' = R /\ K' = K /\ U' = U
    BY <1>e, <2>1, <2>2 DEF R, K, U
  <2>5. Holders(pool', R', T', K', U')
    BY <1>p, <2>1, <2>3, <2>4 DEF Holders
  <2> QED BY <1>g, <1>p, <2>1, <2>2, <2>3, <2>5
<1>3. CASE Stop \/ Leave \/ Deadline \/ UNCHANGED vars
  <2>1. UNCHANGED <<bufs, i, tx_bufs, pool, rx_queue, tx_queue>>
    BY <1>3 DEF Stop, Leave, Deadline, vars, local, nic
  <2>2. ToDecide' = ToDecide
    BY <2>1, <1>n DEF ToDecide
  <2>3. R' = R /\ T' = T /\ K' = K /\ U' = U
    BY <1>e, <2>1, <2>2 DEF R, T, K, U
  <2> QED BY <1>g, <1>p, <2>1, <2>2, <2>3
<1>4. CASE Poll
  <2>1. PICK n \in 1 .. BurstSize :
          /\ n <= Len(rx_queue)
          /\ bufs' = SubSeq(rx_queue, 1, n)
          /\ rx_queue' = SubSeq(rx_queue, n + 1, Len(rx_queue))
    BY <1>4 DEF Poll, TakeBurst
  <2>2. /\ pc = "poll" /\ UNCHANGED <<i, tx_bufs, pool, tx_queue>>
    BY <1>4 DEF Poll
  <2>3. i = 0 /\ bufs = <<>>
    BY <2>2 DEF TypeInv
  <2>4. ToDecide = <<>>
    BY <2>3, EmptySeq, NothingToDecide DEF ToDecide
  <2>5. U = {}
    BY <2>4, EmptyQueue DEF U
  <2>6. n \in 0 .. Len(rx_queue)
    BY <1>t, <2>1 DEF WorkerAssumption
  <2>7. /\ bufs' \in Seq(Mbufs)
        /\ R = Elems(bufs') \cup Elems(rx_queue')
        /\ Distinct(bufs') /\ Distinct(rx_queue')
        /\ Elems(bufs') \cap Elems(rx_queue') = {}
    BY <1>p, <1>t, <2>1, <2>6, CutInTwo DEF R
  <2>8. ToDecide' = bufs'
    BY <1>n, <2>2, <2>3, <2>7, SubSeqFull
  <2>9. T' = T /\ K' = K /\ U' = Elems(bufs') /\ R' = Elems(rx_queue')
    BY <1>e, <2>2, <2>8 DEF T, K
  <2>10. Holders(pool', R', T', K', U')
    BY <1>p, <2>2, <2>5, <2>7, <2>9 DEF Holders
  <2> QED BY <1>g, <1>p, <2>2, <2>7, <2>8, <2>10
<1>5. CASE Drop \/ Keep
  <2>1. i < Len(bufs) /\ i' = i + 1 /\ UNCHANGED <<bufs, rx_queue, tx_queue>>
    BY <1>5 DEF Drop, Keep, Decide, nic
  <2> DEFINE m == bufs[i + 1]
  <2>2. ToDecide' = SubSeq(bufs, i + 2, Len(bufs))
    <3>1. (i + 1) + 1 = i + 2
      BY <1>t
    <3> QED BY <1>n, <2>1, <3>1
  <2>3. m \in Mbufs /\ m \in U /\ Distinct(ToDecide') /\ U' = U \ {m}
    BY <1>e, <1>p, <1>t, <2>1, <2>2, RestTaken DEF U, ToDecide
  <2> HIDE DEF m
  <2>4. R' = R /\ T' = T
    BY <1>e, <2>1 DEF R, T
  <2>5. CASE Drop
    <3>1. pool' = pool \cup {m} /\ UNCHANGED tx_bufs
      BY <2>5 DEF Drop, m
    <3>2. K' = K
      BY <1>e, <3>1 DEF K
    <3>3. Holders(pool', R', T', K', U')
      BY <1>p, <2>3, <2>4, <3>1, <3>2 DEF Holders
    <3> QED BY <1>g, <1>p, <2>1, <2>3, <3>1, <3>3
  <2>6. CASE Keep
    <3>1. tx_bufs' = Append(tx_bufs, m) /\ UNCHANGED pool
      BY <2>6 DEF Keep, nic, m
    <3>2. m \notin K
      BY <1>p, <2>3 DEF Holders
    <3>3. Distinct(tx_bufs') /\ K' = K \cup {m}
      BY <1>e, <1>p, <1>t, <2>3, <3>1, <3>2, LastAdded DEF K
    <3>4. Holders(pool', R', T', K', U')
      BY <1>p, <2>3, <2>4, <3>1, <3>3 DEF Holders
    <3> QED BY <1>g, <1>p, <2>1, <2>3, <3>3, <3>4
  <2> QED BY <1>5, <2>5, <2>6
<1>6. CASE Send
  <2>1. PICK nb_tx \in 0 .. Len(tx_bufs) :
          /\ tx_queue' = tx_queue \o SubSeq(tx_bufs, 1, nb_tx)
          /\ pool' = pool \cup ToSet(SubSeq(tx_bufs, nb_tx + 1, Len(tx_bufs)))
    BY <1>6 DEF Send, Discard
  <2> DEFINE sent == SubSeq(tx_bufs, 1, nb_tx)
             rest == SubSeq(tx_bufs, nb_tx + 1, Len(tx_bufs))
  <2>2. /\ i = Len(bufs) /\ bufs' = <<>> /\ i' = 0 /\ tx_bufs' = <<>>
        /\ UNCHANGED rx_queue
    BY <1>6 DEF Send
  <2>3. ToDecide = <<>> /\ ToDecide' = <<>>
    BY <1>n, <1>t, <2>2, EmptySeq, NothingToDecide DEF ToDecide
  <2>4. /\ sent \in Seq(Mbufs) /\ rest \in Seq(Mbufs) /\ Distinct(sent)
        /\ K = Elems(sent) \cup Elems(rest) /\ Elems(sent) \cap Elems(rest) = {}
    BY <1>p, <1>t, CutInTwo DEF K
  <2>5. tx_queue' = tx_queue \o sent /\ pool' = pool \cup ToSet(rest)
    BY <2>1
  <2> HIDE DEF sent, rest
  <2>6. ToSet(rest) = Elems(rest)
    BY <2>4, LenProperties DEF ToSet, Elems
  <2>7. T \cap Elems(sent) = {}
    BY <1>p, <2>4 DEF Holders
  <2>8. Distinct(tx_queue') /\ T' = T \cup Elems(sent)
    BY <1>e, <1>p, <1>t, <2>4, <2>5, <2>7, Joined DEF T
  <2>9. R' = R /\ K' = {} /\ U = {} /\ U' = {}
    BY <1>e, <2>2, <2>3, EmptyQueue DEF R, U
  <2>10. Holders(pool', R', T', K', U')
    BY <1>p, <2>4, <2>5, <2>6, <2>8, <2>9 DEF Holders
  <2> QED BY <1>g, <1>p, <2>2, <2>3, <2>8, <2>10, EmptyQueue
<1>7. CASE FreeBurst
  <2>1. /\ i = Len(bufs) /\ bufs' = <<>> /\ i' = 0 /\ tx_bufs' = <<>>
        /\ pool' = pool \cup ToSet(tx_bufs)
        /\ UNCHANGED <<rx_queue, tx_queue>>
    BY <1>7 DEF FreeBurst, Discard
  <2>2. ToDecide = <<>> /\ ToDecide' = <<>>
    BY <1>n, <1>t, <2>1, EmptySeq, NothingToDecide DEF ToDecide
  <2>3. ToSet(tx_bufs) = K
    BY <1>t, LenProperties DEF ToSet, Elems, K
  <2>4. R' = R /\ T' = T /\ K' = {} /\ U = {} /\ U' = {}
    BY <1>e, <2>1, <2>2, EmptyQueue DEF R, T, U
  <2>5. Holders(pool', R', T', K', U')
    BY <1>p, <2>1, <2>3, <2>4 DEF Holders
  <2> QED BY <1>g, <1>p, <2>1, <2>2, <2>5, EmptyQueue
<1> QED BY <1>1, <1>2, <1>3, <1>4, <1>5, <1>6, <1>7 DEF Next, Work, Idle

LEMMA PlacedOnce ==
  ASSUME TypeInv, Placed PROVE MbufsConserved
<1> DEFINE Held(q, m) == Cardinality({j \in DOMAIN q : q[j] = m})
<1>1. /\ rx_queue \in Seq(Mbufs) /\ tx_queue \in Seq(Mbufs) /\ tx_bufs \in Seq(Mbufs)
      /\ bufs \in Seq(Mbufs) /\ i \in 0 .. Len(bufs) /\ Len(bufs) \in Nat
  BY LenProperties DEF TypeInv, TypeOK
<1>2. ToDecide \in Seq(Mbufs)
  <2>1. i + 1 \in Int /\ \A j \in i + 1 .. Len(bufs) : bufs[j] \in Mbufs
    BY <1>1, ElementOfSeq
  <2> QED BY <1>1, <2>1, SubSeqProperties DEF ToDecide
<1>3. ASSUME NEW m \in Mbufs
      PROVE  Held(rx_queue, m) + Held(tx_queue, m) + Held(tx_bufs, m)
               + Held(ToDecide, m) + (IF m \in pool THEN 1 ELSE 0) = 1
  <2>1. /\ Held(rx_queue, m) = IF m \in Elems(rx_queue) THEN 1 ELSE 0
        /\ Held(tx_queue, m) = IF m \in Elems(tx_queue) THEN 1 ELSE 0
        /\ Held(tx_bufs, m) = IF m \in Elems(tx_bufs) THEN 1 ELSE 0
        /\ Held(ToDecide, m) = IF m \in Elems(ToDecide) THEN 1 ELSE 0
    BY <1>1, <1>2, OccursOnce DEF Placed
  <2> HIDE DEF Held
  <2> QED BY <2>1 DEF Placed, Holders
<1> QED BY <1>3 DEF MbufsConserved, ToDecide

(***************************************************************************)
(* Every buffer has one holder, whatever the verdicts and however much of  *)
(* a burst is sent.                                                        *)
(***************************************************************************)
THEOREM EveryBufferHeldOnce == Spec => []MbufsConserved
<1>1. Init => Placed
  BY InitPlaced, WorkerAssumption
<1>2. TypeInv /\ Placed /\ [Next]_vars => Placed'
  BY StepPlaced, WorkerAssumption
<1>3. TypeInv /\ Placed => MbufsConserved
  BY PlacedOnce
<1> QED BY <1>1, <1>2, <1>3, InvariantTypeInv, PTL DEF Spec

-------------------------------------------------------------------------------
(* Order *)

Seen == {arrival[m] : m \in Mbufs} \cup {0}

\* What is ahead in the worker's line came before what is behind.
Ahead(t, k, u, a) ==
    /\ Before(t, k, arrival) /\ Before(t, u, arrival) /\ Before(t, a, arrival)
    /\ Before(k, u, arrival) /\ Before(k, a, arrival) /\ Before(u, a, arrival)

\* Arrivals have a last one, and the four queues are one line.
InLine ==
    /\ arrival \in [Mbufs -> Nat]
    /\ \E n \in Seen : \A x \in Seen : x <= n
    /\ Sorted(tx_queue, arrival) /\ Sorted(tx_bufs, arrival)
    /\ Sorted(ToDecide, arrival) /\ Sorted(rx_queue, arrival)
    /\ Ahead(Elems(tx_queue), Elems(tx_bufs), Elems(ToDecide), Elems(rx_queue))

LEMMA LastArrival ==
  ASSUME arrival \in [Mbufs -> Nat], \E n \in Seen : \A x \in Seen : x <= n
  PROVE  /\ Arrived \in Nat
         /\ \A m \in Mbufs : arrival[m] < Arrived + 1
<1>1. Arrived = CHOOSE n \in Seen : \A x \in Seen : x <= n
  BY DEF Arrived, Seen
<1>2. Arrived \in Seen /\ \A x \in Seen : x <= Arrived
  BY <1>1
<1>3. Seen \subseteq Nat
  BY DEF Seen
<1>4. \A m \in Mbufs : arrival[m] \in Seen /\ arrival[m] \in Nat
  BY DEF Seen
<1>5. Arrived \in Nat /\ \A m \in Mbufs : arrival[m] \in Nat /\ arrival[m] <= Arrived
  BY <1>2, <1>3, <1>4
<1> HIDE DEF Arrived
<1> QED BY <1>5

LEMMA EmptySorted == \A f : Sorted(<<>>, f)
BY EmptySeq DEF Sorted

LEMMA InitInLine ==
  ASSUME WorkerAssumption, Init PROVE InLine
<1>1. bufs = <<>> /\ i = 0 /\ Len(<<>>) = 0
  BY EmptySeq DEF Init
<1>2. ToDecide = <<>>
  BY <1>1, NothingToDecide DEF ToDecide
<1>3. /\ rx_queue = <<>> /\ tx_queue = <<>> /\ tx_bufs = <<>>
      /\ arrival = [m \in Mbufs |-> 0]
  BY DEF Init
<1>4. Seen = {0}
  BY <1>3 DEF Seen
<1>5. \E n \in Seen : \A x \in Seen : x <= n
  BY <1>4
<1> QED BY <1>2, <1>3, <1>5, EmptyQueue, EmptySorted DEF InLine, Ahead, Before

LEMMA StepInLine ==
  ASSUME WorkerAssumption, TypeInv, Placed, InLine, [Next]_vars PROVE InLine'
<1> DEFINE R == Elems(rx_queue)
           T == Elems(tx_queue)
           K == Elems(tx_bufs)
           U == Elems(ToDecide)
<1>t. /\ bufs \in Seq(Mbufs) /\ tx_bufs \in Seq(Mbufs)
      /\ rx_queue \in Seq(Mbufs) /\ tx_queue \in Seq(Mbufs)
      /\ Len(bufs) \in Nat /\ Len(rx_queue) \in Nat /\ i \in 0 .. Len(bufs)
  BY LenProperties DEF TypeInv, TypeOK
<1>u. ToDecide \in Seq(Mbufs)
  <2>1. i + 1 \in Int /\ \A j \in i + 1 .. Len(bufs) : bufs[j] \in Mbufs
    BY <1>t, ElementOfSeq
  <2> QED BY <1>t, <2>1, SubSeqProperties DEF ToDecide
<1>p. /\ Sorted(tx_queue, arrival) /\ Sorted(tx_bufs, arrival)
      /\ Sorted(ToDecide, arrival) /\ Sorted(rx_queue, arrival)
      /\ Ahead(T, K, U, R)
  BY DEF InLine
<1>e. /\ R' = Elems(rx_queue') /\ T' = Elems(tx_queue')
      /\ K' = Elems(tx_bufs') /\ U' = Elems(ToDecide')
  OBVIOUS
<1>n. ToDecide' = SubSeq(bufs', i' + 1, Len(bufs'))
  BY DEF ToDecide
<1>s. /\ T \subseteq Mbufs /\ K \subseteq Mbufs /\ U \subseteq Mbufs /\ R \subseteq Mbufs
  BY <1>t, <1>u, ElemsInSet
<1>d. Holders(pool, R, T, K, U)
  BY DEF Placed
<1>g. ASSUME UNCHANGED arrival,
             Sorted(tx_queue', arrival), Sorted(tx_bufs', arrival),
             Sorted(ToDecide', arrival), Sorted(rx_queue', arrival),
             Ahead(T', K', U', R')
      PROVE  InLine'
  <2>1. Seen' = Seen
    BY <1>g DEF Seen
  <2> QED BY <1>g, <2>1 DEF InLine, Ahead
<1> HIDE DEF R, T, K, U
<1>1. ASSUME NEW m \in Mbufs, Arrive(m) PROVE InLine'
  <2>1. /\ rx_queue' = Append(rx_queue, m) /\ m \in pool
        /\ arrival' = [arrival EXCEPT ![m] = Arrived + 1]
        /\ UNCHANGED <<bufs, i, tx_bufs, tx_queue>>
    BY <1>1 DEF Arrive, local
  <2>2. ToDecide' = ToDecide
    BY <2>1, <1>n DEF ToDecide
  <2>3. Arrived \in Nat /\ \A x \in Mbufs : arrival[x] < Arrived + 1
    BY LastArrival DEF InLine
  <2> DEFINE last == Arrived + 1
  <2>4. last \in Nat /\ \A x \in Mbufs : arrival[x] \in Nat /\ arrival[x] < last
    BY <2>3 DEF InLine
  <2>5. \A x \in Mbufs : arrival'[x] = IF x = m THEN last ELSE arrival[x]
    BY <2>1 DEF InLine
  <2>6. arrival' \in [Mbufs -> Nat]
    BY <2>1, <2>4 DEF InLine
  <2> HIDE DEF last
  <2>7. \E n \in Seen' : \A x \in Seen' : x <= n
    <3>1. last \in Seen'
      BY <2>5 DEF Seen
    <3>2. \A x \in Mbufs : arrival'[x] <= last
      BY <2>4, <2>5
    <3>3. \A x \in Seen' : x <= last
      BY <2>4, <3>2 DEF Seen
    <3> QED BY <3>1, <3>3
  <2>8. m \notin T /\ m \notin K /\ m \notin U /\ m \notin R
    BY <1>d, <2>1 DEF Holders
  <2>9. \A x \in T \cup K \cup U \cup R : arrival'[x] = arrival[x] /\ arrival'[x] < arrival'[m]
    BY <1>s, <2>4, <2>5, <2>8
  <2>10. /\ Sorted(tx_queue, arrival') /\ Sorted(tx_bufs, arrival')
         /\ Sorted(ToDecide, arrival') /\ Sorted(rx_queue, arrival')
    BY <1>p, <1>t, <1>u, <2>9, SortedBySame DEF T, K, U, R
  <2>11. Before(R, {m}, arrival')
    BY <2>9 DEF Before
  <2>12. Sorted(rx_queue', arrival') /\ R' = R \cup {m}
    BY <1>e, <1>t, <2>1, <2>10, <2>11, LastAdded, SortedLastAdded DEF R
  <2>13. T' = T /\ K' = K /\ U' = U
    BY <1>e, <2>1, <2>2 DEF T, K, U
  <2>14. /\ Before(T, K, arrival') /\ Before(T, U, arrival') /\ Before(K, U, arrival')
         /\ Before(T, R, arrival') /\ Before(K, R, arrival') /\ Before(U, R, arrival')
    BY <1>p, <2>9 DEF Ahead, Before
  <2>15. /\ Before(T, R \cup {m}, arrival') /\ Before(K, R \cup {m}, arrival')
         /\ Before(U, R \cup {m}, arrival')
    BY <2>9, <2>14 DEF Before
  <2>16. Ahead(T, K, U, R)' 
    BY <2>12, <2>13, <2>14, <2>15 DEF Ahead
  <2> QED BY <1>e, <2>1, <2>2, <2>6, <2>7, <2>10, <2>12, <2>16 DEF InLine
<1>2. CASE Transmit
  <2>1. /\ tx_queue # <<>> /\ tx_queue' = Tail(tx_queue)
        /\ UNCHANGED <<bufs, i, tx_bufs, rx_queue, arrival>>
    BY <1>2 DEF Transmit, local
  <2>2. ToDecide' = ToDecide
    BY <2>1, <1>n DEF ToDecide
  <2>3. Sorted(tx_queue', arrival)
    BY <1>p, <1>t, <2>1, SortedFirstTaken
  <2>4. T' \subseteq T
    BY <1>e, <1>t, <2>1, FirstTaken DEF T, Placed
  <2>5. R' = R /\ K' = K /\ U' = U
    BY <1>e, <2>1, <2>2 DEF R, K, U
  <2>6. Ahead(T', K', U', R')
    BY <1>p, <2>4, <2>5 DEF Ahead, Before
  <2> QED BY <1>g, <1>p, <2>1, <2>2, <2>3, <2>6
<1>3. CASE Stop \/ Leave \/ Deadline \/ UNCHANGED vars
  <2>1. UNCHANGED <<bufs, i, tx_bufs, rx_queue, tx_queue, arrival>>
    BY <1>3 DEF Stop, Leave, Deadline, vars, local, nic
  <2>2. ToDecide' = ToDecide
    BY <2>1, <1>n DEF ToDecide
  <2>3. R' = R /\ T' = T /\ K' = K /\ U' = U
    BY <1>e, <2>1, <2>2 DEF R, T, K, U
  <2> QED BY <1>g, <1>p, <2>1, <2>2, <2>3
<1>4. CASE Poll
  <2>1. PICK n \in 1 .. BurstSize :
          /\ n <= Len(rx_queue)
          /\ bufs' = SubSeq(rx_queue, 1, n)
          /\ rx_queue' = SubSeq(rx_queue, n + 1, Len(rx_queue))
    BY <1>4 DEF Poll, TakeBurst
  <2>2. /\ pc = "poll" /\ UNCHANGED <<i, tx_bufs, tx_queue, arrival>>
    BY <1>4 DEF Poll
  <2>3. i = 0
    BY <2>2 DEF TypeInv
  <2>4. n \in 0 .. Len(rx_queue)
    BY <1>t, <2>1 DEF WorkerAssumption
  <2>5. /\ bufs' \in Seq(Mbufs)
        /\ R = Elems(bufs') \cup Elems(rx_queue')
    BY <1>t, <2>1, <2>4, CutInTwo DEF R
  <2>6. /\ Sorted(bufs', arrival) /\ Sorted(rx_queue', arrival)
        /\ Before(Elems(bufs'), Elems(rx_queue'), arrival)
    BY <1>p, <1>t, <2>1, <2>4, SortedCutInTwo
  <2>7. ToDecide' = bufs'
    BY <1>n, <2>2, <2>3, <2>5, SubSeqFull
  <2>8. T' = T /\ K' = K /\ U' = Elems(bufs') /\ R' = Elems(rx_queue')
    BY <1>e, <2>2, <2>7 DEF T, K
  <2>9. Ahead(T', K', U', R')
    BY <1>p, <2>5, <2>6, <2>8 DEF Ahead, Before
  <2> QED BY <1>g, <1>p, <2>2, <2>6, <2>7, <2>9
<1>5. CASE Drop \/ Keep
  <2>1. i < Len(bufs) /\ i' = i + 1 /\ UNCHANGED <<bufs, rx_queue, tx_queue, arrival>>
    BY <1>5 DEF Drop, Keep, Decide, nic
  <2> DEFINE m == bufs[i + 1]
  <2>2. ToDecide' = SubSeq(bufs, i + 2, Len(bufs))
    <3>1. (i + 1) + 1 = i + 2
      BY <1>t
    <3> QED BY <1>n, <2>1, <3>1
  <2>3. m \in Mbufs /\ m \in U /\ U' = U \ {m}
    BY <1>e, <1>t, <2>1, <2>2, RestTaken DEF U, ToDecide, Placed
  <2>4. Sorted(ToDecide', arrival) /\ Before({m}, U', arrival)
    BY <1>e, <1>p, <1>t, <2>1, <2>2, SortedRestTaken DEF ToDecide
  <2> HIDE DEF m
  <2>5. R' = R /\ T' = T
    BY <1>e, <2>1 DEF R, T
  <2>6. CASE Drop
    <3>1. UNCHANGED tx_bufs
      BY <2>6 DEF Drop
    <3>2. K' = K
      BY <1>e, <3>1 DEF K
    <3>3. Ahead(T', K', U', R')
      BY <1>p, <2>3, <2>5, <3>2 DEF Ahead, Before
    <3> QED BY <1>g, <1>p, <2>1, <2>4, <3>1, <3>3
  <2>7. CASE Keep
    <3>1. tx_bufs' = Append(tx_bufs, m)
      BY <2>7 DEF Keep, m
    <3>2. Before(K, {m}, arrival)
      BY <1>p, <2>3 DEF Ahead, Before
    <3>3. Sorted(tx_bufs', arrival) /\ K' = K \cup {m}
      BY <1>e, <1>p, <1>t, <2>3, <3>1, <3>2, LastAdded, SortedLastAdded DEF K
    <3>4. Ahead(T', K', U', R')
      BY <1>p, <2>3, <2>4, <2>5, <3>3 DEF Ahead, Before
    <3> QED BY <1>g, <1>p, <2>1, <2>4, <3>3, <3>4
  <2> QED BY <1>5, <2>6, <2>7
<1>6. CASE Send
  <2>1. PICK nb_tx \in 0 .. Len(tx_bufs) :
          tx_queue' = tx_queue \o SubSeq(tx_bufs, 1, nb_tx)
    BY <1>6 DEF Send
  <2> DEFINE sent == SubSeq(tx_bufs, 1, nb_tx)
             rest == SubSeq(tx_bufs, nb_tx + 1, Len(tx_bufs))
  <2>2. /\ bufs' = <<>> /\ i' = 0 /\ tx_bufs' = <<>> /\ UNCHANGED <<rx_queue, arrival>>
    BY <1>6 DEF Send
  <2>3. ToDecide' = <<>>
    BY <1>n, <2>2, EmptySeq, NothingToDecide
  <2>4. sent \in Seq(Mbufs) /\ K = Elems(sent) \cup Elems(rest)
    BY <1>t, CutInTwo DEF K
  <2>5. Sorted(sent, arrival)
    BY <1>p, <1>t, SortedCutInTwo
  <2>6. tx_queue' = tx_queue \o sent
    BY <2>1
  <2> HIDE DEF sent, rest
  <2>7. Before(T, Elems(sent), arrival)
    BY <1>p, <2>4 DEF Ahead, Before
  <2>8. Sorted(tx_queue', arrival) /\ T' = T \cup Elems(sent)
    BY <1>e, <1>p, <1>t, <2>4, <2>5, <2>6, <2>7, Joined, SortedJoined DEF T
  <2>9. R' = R /\ K' = {} /\ U' = {}
    BY <1>e, <2>2, <2>3, EmptyQueue DEF R
  <2>10. Ahead(T', K', U', R')
    BY <1>p, <2>4, <2>8, <2>9 DEF Ahead, Before
  <2> QED BY <1>g, <1>p, <2>2, <2>3, <2>8, <2>10, EmptySorted
<1>7. CASE FreeBurst
  <2>1. /\ bufs' = <<>> /\ i' = 0 /\ tx_bufs' = <<>>
        /\ UNCHANGED <<rx_queue, tx_queue, arrival>>
    BY <1>7 DEF FreeBurst
  <2>2. ToDecide' = <<>>
    BY <1>n, <2>1, EmptySeq, NothingToDecide
  <2>3. R' = R /\ T' = T /\ K' = {} /\ U' = {}
    BY <1>e, <2>1, <2>2, EmptyQueue DEF R, T
  <2>4. Ahead(T', K', U', R')
    BY <1>p, <2>3 DEF Ahead, Before
  <2> QED BY <1>g, <1>p, <2>1, <2>2, <2>4, EmptySorted
<1> QED BY <1>1, <1>2, <1>3, <1>4, <1>5, <1>6, <1>7 DEF Next, Work, Idle

(***************************************************************************)
(* Packets are queued for sending in the order they arrived.               *)
(***************************************************************************)
THEOREM OrderIsKept == Spec => []ForwardedInOrder
<1>1. Init => Placed /\ InLine
  BY InitPlaced, InitInLine, WorkerAssumption
<1>2. TypeInv /\ Placed /\ InLine /\ [Next]_vars => Placed' /\ InLine'
  BY StepPlaced, StepInLine, WorkerAssumption
<1>3. TypeInv /\ InLine => ForwardedInOrder
  BY LenProperties DEF TypeInv, InLine, Sorted, ForwardedInOrder
<1> QED BY <1>1, <1>2, <1>3, InvariantTypeInv, PTL DEF Spec

-----------------------------------------------------------------------------
(* The benchmark's ring of pending requests *)

Places == 0 .. PendingCap - 1
Ages == 1 .. PendingCap
Requests == [key : ReqKeys, start : Addrs]
Asks == [key : ReqKeys \cup {None}, start : Addrs \cup {0}, valid : BOOLEAN]

\* What counts up modulo n.
LEMMA UpOnce ==
  ASSUME NEW n \in Nat \ {0}, NEW a \in 0 .. n - 1
  PROVE  (a + 1) % n = IF a + 1 < n THEN a + 1 ELSE 0
OBVIOUS

\* A place was written this many requests ago.
Age(j) == IF j < pending_wr THEN pending_wr - j ELSE pending_wr + (PendingCap - j)

RingOK ==
  /\ pending_wr \in Places /\ asked \subseteq Requests /\ confused \in BOOLEAN
  /\ pending \in [Places -> Asks] /\ recent \in [Ages -> Asks]

\* A request that may still be answered has the start of all unanswered ones
\* with its identifier, which agree on it.
OneStart ==
  /\ \A q \in asked : \A d \in Unanswered(q.key) : recent[d].start = q.start
  /\ \A d, x \in Ages : /\ recent[d].valid /\ recent[x].valid
                        /\ recent[d].key = recent[x].key
                        => recent[d].start = recent[x].start

\* f gives each valid place an unanswered request with its identifier and start
\* address, no older than the place, and no request to two places.
StandsFor(f) ==
  /\ f \in [Places -> Ages]
  /\ \A j \in Places : pending[j].valid =>
       /\ f[j] <= Age(j) /\ recent[f[j]].valid
       /\ recent[f[j]].key = pending[j].key /\ recent[f[j]].start = pending[j].start
  /\ \A j, x \in Places : pending[j].valid /\ pending[x].valid /\ f[j] = f[x] => j = x

Attributable == ~confused => OneStart /\ \E f : StandsFor(f)

RingInv == RingOK /\ Attributable /\ AttributionRight

LEMMA Capacities == PendingCap \in Nat \ {0}
BY BenchModbusAssumption

\* The place that is written next is the oldest, the others grow older by one.
LEMMA AgesGrow ==
  ASSUME pending_wr \in Places, pending_wr' = (pending_wr + 1) % PendingCap
  PROVE  /\ pending_wr' \in Places
         /\ \A j \in Places : Age(j) \in Ages
         /\ \A j \in Places : j = pending_wr => Age(j)' = 1
         /\ \A j \in Places \ {pending_wr} : Age(j) + 1 \in Ages /\ Age(j)' = Age(j) + 1
<1>1. pending_wr \in 0 .. PendingCap - 1 /\ PendingCap \in Nat \ {0}
  BY Capacities DEF Places
<1>2. pending_wr' = IF pending_wr + 1 < PendingCap THEN pending_wr + 1 ELSE 0
  BY <1>1, UpOnce
<1>3. \A j \in Places : Age(j) \in Ages
  BY <1>1 DEF Places, Ages, Age
<1>4. pending_wr' \in Places
  BY <1>1, <1>2 DEF Places
<1>6. \A j \in Places : j = pending_wr => Age(j)' = 1
  BY <1>1, <1>2 DEF Places, Age
<1>5. ASSUME NEW j \in Places, j # pending_wr
      PROVE  Age(j) + 1 \in Ages /\ Age(j)' = Age(j) + 1
  BY <1>1, <1>2, <1>5 DEF Places, Ages, Age
<1> QED BY <1>3, <1>4, <1>5, <1>6

LEMMA RequestKeepsRing ==
  ASSUME RingInv, NEW k \in ReqKeys, NEW a \in Addrs, NEW sent \in BOOLEAN,
         RecvRequest(k, a, sent)
  PROVE  RingInv'
<1> DEFINE p == [key |-> k, start |-> a, valid |-> TRUE]
           q0 == [key |-> k, start |-> a]
<1>1. /\ pending_wr' = (pending_wr + 1) % PendingCap
      /\ pending' = [pending EXCEPT ![pending_wr] = p]
      /\ recent' = [d \in Ages |-> IF d = 1 THEN p ELSE recent[d - 1]]
      /\ confused' = (\/ confused \/ \E q \in asked : q.key = k /\ q.start # a
                      \/ \E d \in Unanswered(k) : recent[d].start # a)
      /\ asked' = IF sent THEN asked \cup {q0} ELSE asked
      /\ resp = None /\ resp' = resp
  BY DEF RecvRequest, add_pending, Receive, Ages
<1>2. /\ pending_wr \in Places /\ DOMAIN pending = Places /\ DOMAIN recent = Ages
      /\ PendingCap \in Nat \ {0}
  BY Capacities DEF RingInv, RingOK
<1>3. p \in Asks /\ q0 \in Requests
  BY DEF Asks, Requests
<1>4. p.valid /\ p.key = k /\ p.start = a /\ q0.key = k /\ q0.start = a
  OBVIOUS
<1> HIDE DEF p, q0
<1>5. /\ pending_wr' \in Places
      /\ \A j \in Places : Age(j) \in Ages
      /\ \A j \in Places : j = pending_wr => Age(j)' = 1
      /\ \A j \in Places \ {pending_wr} : Age(j) + 1 \in Ages /\ Age(j)' = Age(j) + 1
  BY <1>1, <1>2, AgesGrow
<1>6. /\ pending'[pending_wr] = p
      /\ \A j \in Places \ {pending_wr} : pending'[j] = pending[j]
  BY <1>1, <1>2
<1>7. /\ recent'[1] = p /\ 1 \in Ages
      /\ \A d \in Ages \ {1} : d - 1 \in Ages /\ recent'[d] = recent[d - 1]
      /\ \A d \in Ages : d + 1 \in Ages => d + 1 # 1 /\ (d + 1) - 1 = d
  BY <1>1, <1>2 DEF Ages
<1>8. RingOK'
  <2>1. asked' \subseteq Requests
    BY <1>1, <1>3 DEF RingInv, RingOK
  <2>2. confused' \in BOOLEAN
    BY <1>1 DEF RingInv, RingOK
  <2>3. pending' \in [Places -> Asks]
    BY <1>1, <1>3 DEF RingInv, RingOK
  <2>4. recent' \in [Ages -> Asks]
    <3>1. ASSUME NEW d \in Ages PROVE recent'[d] \in Asks
      BY <1>3, <1>7 DEF RingInv, RingOK
    <3> QED BY <1>1, <3>1
  <2> QED BY <1>5, <2>1, <2>2, <2>3, <2>4 DEF RingOK
<1>9. Attributable'
  <2> SUFFICES ASSUME ~confused' PROVE OneStart' /\ (\E f : StandsFor(f))'
    BY DEF Attributable
  <2>1. /\ ~confused /\ OneStart
        /\ \A q \in asked : q.key = k => q.start = a
        /\ \A d \in Ages : recent[d].valid /\ recent[d].key = k => recent[d].start = a
    BY <1>1 DEF RingInv, Attributable, Unanswered, Ages
  \* An unanswered request is the new one or was there before.
  <2>2. ASSUME NEW d \in Ages, recent'[d].valid
        PROVE  \/ recent'[d] = p
               \/ \E x \in Ages : recent'[d] = recent[x] /\ recent[x].valid
    BY <1>7, <2>2
  <2>3. ASSUME NEW q \in asked', NEW d \in Ages, recent'[d].valid, recent'[d].key = q.key
        PROVE  recent'[d].start = q.start
    <3>1. q \in asked \/ q = q0
      BY <1>1
    <3>2. CASE recent'[d] = p
      BY <1>4, <2>1, <2>3, <3>1, <3>2
    <3>3. CASE \E x \in Ages : recent'[d] = recent[x] /\ recent[x].valid
      BY <1>4, <2>1, <2>3, <3>1, <3>3 DEF OneStart, Unanswered, Ages
    <3> QED BY <2>2, <2>3, <3>2, <3>3
  <2>4. ASSUME NEW d \in Ages, NEW x \in Ages, recent'[d].valid, recent'[x].valid,
               recent'[d].key = recent'[x].key
        PROVE  recent'[d].start = recent'[x].start
    <3>1. /\ \/ recent'[d] = p
             \/ \E y \in Ages : recent'[d] = recent[y] /\ recent[y].valid
          /\ \/ recent'[x] = p
             \/ \E y \in Ages : recent'[x] = recent[y] /\ recent[y].valid
      BY <2>2, <2>4
    <3> QED BY <1>4, <2>1, <2>4, <3>1 DEF OneStart
  <2>5. OneStart'
    BY <2>3, <2>4 DEF OneStart, Unanswered, Ages
  <2>6. PICK f : StandsFor(f)
    BY <2>1 DEF RingInv, Attributable
  <2> DEFINE g == [j \in Places |-> IF j = pending_wr THEN 1
                                    ELSE IF pending[j].valid THEN f[j] + 1 ELSE 1]
  <2>7. /\ f \in [Places -> Ages]
        /\ \A j \in Places : pending[j].valid =>
             /\ f[j] <= Age(j) /\ recent[f[j]].valid
             /\ recent[f[j]].key = pending[j].key /\ recent[f[j]].start = pending[j].start
        /\ \A j, x \in Places : pending[j].valid /\ pending[x].valid /\ f[j] = f[x] => j = x
    BY <2>6 DEF StandsFor
  <2>8. ASSUME NEW j \in Places \ {pending_wr}, pending[j].valid
        PROVE  /\ g[j] = f[j] + 1 /\ g[j] \in Ages /\ g[j] # 1
               /\ g[j] <= Age(j)' /\ recent'[g[j]] = recent[f[j]]
    <3>1. g[j] = f[j] + 1 /\ f[j] \in Ages /\ f[j] <= Age(j)
      BY <2>7, <2>8
    <3>2. Age(j) + 1 \in Ages /\ Age(j)' = Age(j) + 1
      BY <1>5
    <3>3. f[j] + 1 \in Ages /\ f[j] + 1 <= Age(j)'
      <4>1. \A x, y \in Ages : x <= y /\ y + 1 \in Ages => x + 1 \in Ages /\ x + 1 <= y + 1
        BY <1>2 DEF Ages
      <4> QED BY <1>5, <3>1, <3>2, <4>1
    <3>4. (f[j] + 1) - 1 = f[j] /\ f[j] + 1 # 1
      BY <1>7, <3>1, <3>3
    <3> QED BY <1>7, <3>1, <3>3, <3>4
  <2>9. g[pending_wr] = 1
    BY <1>2
  <2>10. \A j \in Places : g[j] \in Ages
    BY <1>7, <2>8
  <2>11. g \in [Places -> Ages]
    BY <2>10
  <2> HIDE DEF g
  <2>12. ASSUME NEW j \in Places, pending'[j].valid
         PROVE  /\ g[j] <= Age(j)' /\ recent'[g[j]].valid
                /\ recent'[g[j]].key = pending'[j].key
                /\ recent'[g[j]].start = pending'[j].start
    <3>1. CASE j = pending_wr
      BY <1>4, <1>5, <1>6, <1>7, <2>9, <3>1
    <3>2. CASE j # pending_wr
      BY <1>6, <2>7, <2>8, <2>12, <3>2
    <3> QED BY <3>1, <3>2
  <2>13. ASSUME NEW j \in Places, NEW x \in Places, pending'[j].valid, pending'[x].valid,
                g[j] = g[x]
         PROVE  j = x
    <3>1. CASE j = pending_wr \/ x = pending_wr
      BY <1>6, <2>8, <2>9, <2>13, <3>1
    <3>2. CASE j # pending_wr /\ x # pending_wr
      <4>1. /\ pending[j].valid /\ pending[x].valid /\ f[j] + 1 = f[x] + 1
            /\ f[j] \in Ages /\ f[x] \in Ages
        BY <1>6, <2>7, <2>8, <2>13, <3>2
      <4>2. f[j] = f[x]
        BY <1>2, <4>1 DEF Ages
      <4> QED BY <2>7, <4>1, <4>2
    <3> QED BY <3>1, <3>2
  <2>14. \E h : /\ h \in [Places -> Ages]
                /\ \A j \in Places : pending'[j].valid =>
                     /\ h[j] <= Age(j)' /\ recent'[h[j]].valid
                     /\ recent'[h[j]].key = pending'[j].key
                     /\ recent'[h[j]].start = pending'[j].start
                /\ \A j, x \in Places : pending'[j].valid /\ pending'[x].valid /\ h[j] = h[x]
                                       => j = x
    BY <2>11, <2>12, <2>13
  <2>15. (\E h : StandsFor(h))'
    BY <2>14 DEF StandsFor, Places, Ages
  <2> QED BY <2>5, <2>15
<1>10. AttributionRight'
  BY <1>1 DEF AttributionRight
<1> QED BY <1>8, <1>9, <1>10 DEF RingInv

\* The oldest unanswered request that has the identifier, if any, no longer is.
Closes(k) ==
  \/ recent' = recent /\ \A d \in Ages : ~(recent[d].valid /\ recent[d].key = k)
  \/ \E d \in Ages : /\ recent[d].valid /\ recent[d].key = k
                     /\ \A x \in Ages : recent[x].valid /\ recent[x].key = k => x <= d
                     /\ recent' = [recent EXCEPT ![d].valid = FALSE]

LEMMA AnsweredIs ==
  ASSUME RingInv, NEW q \in asked, NEW again \in BOOLEAN, Answered(q, again)
  PROVE  confused' = confused /\ asked' \subseteq asked /\ Closes(q.key)
<1>1. confused' = confused /\ asked' \subseteq asked
  BY DEF Answered
<1>2. Closes(q.key)
  BY DEF Answered, Unanswered, Ages, Closes
<1> QED BY <1>1, <1>2

\* What is kept when fewer requests are unanswered.
LEMMA FewerUnanswered ==
  ASSUME RingOK, OneStart, asked' \subseteq asked, NEW d0 \in Ages,
         recent' = recent \/ recent' = [recent EXCEPT ![d0].valid = FALSE]
  PROVE  /\ recent' \in [Ages -> Asks] /\ OneStart'
         /\ \A d \in Ages : /\ recent'[d].key = recent[d].key
                            /\ recent'[d].start = recent[d].start
                            /\ recent'[d].valid => recent[d].valid
<1>1. recent' \in [Ages -> Asks]
  BY DEF RingOK, Asks
<1>2. \A d \in Ages : /\ recent'[d].key = recent[d].key
                      /\ recent'[d].start = recent[d].start
                      /\ recent'[d].valid => recent[d].valid
  BY DEF RingOK, Asks
<1>3. OneStart'
  BY <1>2 DEF OneStart, Unanswered, Ages
<1> QED BY <1>1, <1>2, <1>3

\* A response takes a place of the ring and an unanswered request; where another
\* place stood for that request, it stands for the one of the place taken.
LEMMA ResponseKeepsRing ==
  ASSUME RingInv, NEW q \in asked, NEW again \in BOOLEAN, NEW regs,
         RecvResponse(q, regs, again)
  PROVE  RingInv'
<1>1. PICK j \in DOMAIN pending :
        /\ find_pending(q.key, j)
        /\ resp' = [unit |-> q.key[2], start |-> pending[j].start,
                    regs |-> regs, genuine |-> q.start]
  BY DEF RecvResponse
<1>2. /\ pending[j].valid /\ pending[j].key = q.key
      /\ pending' = [pending EXCEPT ![j].valid = FALSE]
      /\ pending_wr' = pending_wr /\ Answered(q, again)
  BY <1>1 DEF RecvResponse, find_pending, Matches
<1>3. j \in Places /\ DOMAIN pending = Places /\ DOMAIN recent = Ages
  BY DEF RingInv, RingOK
<1>4. \A x \in Places : /\ pending'[x].key = pending[x].key
                        /\ pending'[x].start = pending[x].start
                        /\ pending'[x].valid => pending[x].valid /\ x # j
                        /\ Age(x)' = Age(x)
  BY <1>2, <1>3 DEF RingInv, RingOK, Asks, Age
<1>5. confused' = confused /\ asked' \subseteq asked /\ Closes(q.key)
  BY <1>2, AnsweredIs
<1>6. RingOK'
  <2>1. pending' \in [Places -> Asks]
    BY <1>2, <1>3 DEF RingInv, RingOK, Asks
  <2>2. recent' \in [Ages -> Asks]
    BY <1>5 DEF RingInv, RingOK, Asks, Closes
  <2> QED BY <1>2, <1>5, <2>1, <2>2 DEF RingInv, RingOK
<1>7. ASSUME ~confused' PROVE /\ OneStart' /\ (\E f : StandsFor(f))'
                              /\ pending[j].start = q.start
  <2>1. PICK f : StandsFor(f)
    BY <1>5, <1>7 DEF RingInv, Attributable
  <2>2. /\ f \in [Places -> Ages]
        /\ \A x \in Places : pending[x].valid =>
             /\ f[x] <= Age(x) /\ recent[f[x]].valid
             /\ recent[f[x]].key = pending[x].key /\ recent[f[x]].start = pending[x].start
        /\ \A x, y \in Places : pending[x].valid /\ pending[y].valid /\ f[x] = f[y] => x = y
    BY <2>1 DEF StandsFor
  <2>3. OneStart
    BY <1>5, <1>7 DEF RingInv, Attributable
  <2>4. /\ f[j] \in Ages /\ recent[f[j]].valid /\ recent[f[j]].key = q.key
        /\ recent[f[j]].start = pending[j].start
    BY <1>2, <1>3, <2>2
  <2>5. pending[j].start = q.start
    BY <2>3, <2>4 DEF OneStart, Unanswered, Ages
  <2>6. PICK d \in Ages : /\ recent[d].valid /\ recent[d].key = q.key
                          /\ \A x \in Ages : recent[x].valid /\ recent[x].key = q.key
                                             => x <= d
                          /\ recent' = [recent EXCEPT ![d].valid = FALSE]
    BY <1>5, <2>4 DEF Closes
  <2>7. /\ OneStart'
        /\ \A x \in Ages \ {d} : recent'[x] = recent[x]
    <3>1. RingOK /\ (recent' = recent \/ recent' = [recent EXCEPT ![d].valid = FALSE])
      BY <2>6 DEF RingInv
    <3> QED BY <1>3, <1>5, <2>3, <2>6, <3>1, FewerUnanswered
  <2> DEFINE g == [x \in Places |-> IF f[x] = d THEN f[j] ELSE f[x]]
  <2>8. g \in [Places -> Ages]
    BY <2>2, <2>4
  <2>9. \A x \in Places : g[x] = IF f[x] = d THEN f[j] ELSE f[x]
    OBVIOUS
  <2> HIDE DEF g
  <2>10. ASSUME NEW x \in Places, pending'[x].valid
         PROVE  /\ g[x] # d /\ g[x] <= Age(x) /\ recent[g[x]].valid
                /\ recent[g[x]].key = pending[x].key
                /\ recent[g[x]].start = pending[x].start
    <3>1. pending[x].valid /\ x # j /\ f[x] # f[j]
      BY <1>2, <1>3, <1>4, <2>2, <2>10
    <3>2. CASE f[x] = d
      <4>1. g[x] = f[j] /\ f[j] # d
        BY <2>9, <3>1, <3>2
      <4>2. f[j] <= Age(x)
        <5>1. f[j] <= f[x] /\ f[x] <= Age(x)
          BY <2>2, <2>4, <2>6, <3>1, <3>2
        <5>2. f[j] \in Ages /\ f[x] \in Ages /\ Age(x) \in Ages
          <6>1. pending_wr \in Places /\ PendingCap \in Nat \ {0}
            BY Capacities DEF RingInv, RingOK
          <6>2. Age(x) \in Ages
            BY <6>1 DEF Age, Places, Ages
          <6> QED BY <2>2, <2>4, <6>2
        <5>3. \A a, b, c \in Ages : a <= b /\ b <= c => a <= c
          BY Capacities DEF Ages
        <5> QED BY <5>1, <5>2, <5>3
      <4>3. recent[f[j]].key = pending[x].key
        BY <2>2, <2>4, <2>6, <3>1, <3>2
      <4>4. recent[f[j]].start = recent[f[x]].start
        BY <2>2, <2>3, <2>4, <2>6, <3>2 DEF OneStart
      <4> QED BY <2>2, <2>4, <3>1, <4>1, <4>2, <4>3, <4>4
    <3>3. CASE f[x] # d
      BY <2>2, <2>9, <3>1, <3>3
    <3> QED BY <3>2, <3>3
  <2>11. ASSUME NEW x \in Places, NEW y \in Places, pending'[x].valid, pending'[y].valid,
                g[x] = g[y]
         PROVE  x = y
    <3>1. /\ pending[x].valid /\ pending[y].valid /\ x # j /\ y # j
      BY <1>4, <2>11
    <3>2. f[x] # f[j] /\ f[y] # f[j]
      BY <1>2, <1>3, <2>2, <3>1
    <3>3. f[x] = f[y]
      BY <2>9, <2>11, <3>2
    <3> QED BY <2>2, <3>1, <3>3
  <2>12. ASSUME NEW x \in Places, pending'[x].valid
         PROVE  /\ g[x] <= Age(x)' /\ recent'[g[x]].valid
                /\ recent'[g[x]].key = pending'[x].key
                /\ recent'[g[x]].start = pending'[x].start
    <3>1. g[x] \in Ages \ {d}
      BY <2>8, <2>10, <2>12
    <3>2. recent'[g[x]] = recent[g[x]]
      BY <2>7, <3>1
    <3> QED BY <1>4, <2>10, <2>12, <3>2
  <2>13. StandsFor(g)'
    BY <2>8, <2>11, <2>12 DEF StandsFor, Places, Ages
  <2> QED BY <2>5, <2>7, <2>13
<1>8. Attributable'
  BY <1>7 DEF Attributable
<1>9. AttributionRight'
  BY <1>1, <1>7 DEF AttributionRight
<1> QED BY <1>6, <1>8, <1>9 DEF RingInv

\* A response that finds no place: none stands for the request it answers.
LEMMA UnmatchedKeepsRing ==
  ASSUME RingInv, NEW q \in asked, NEW again \in BOOLEAN, RecvUnmatched(q, again)
  PROVE  RingInv'
<1>1. /\ pending' = pending /\ pending_wr' = pending_wr /\ resp' = resp /\ resp = None
      /\ Answered(q, again)
      /\ \A x \in Places : pending[x].valid => pending[x].key # q.key
  BY DEF RecvUnmatched, Receive, ring, Matches, Places
<1>2. /\ confused' = confused /\ asked' \subseteq asked
      /\ \/ recent' = recent
         \/ \E d \in Ages : /\ recent[d].valid /\ recent[d].key = q.key
                            /\ recent' = [recent EXCEPT ![d].valid = FALSE]
  BY <1>1 DEF Answered, Unanswered, Ages
<1>3. RingOK'
  <2>1. recent' \in [Ages -> Asks]
    BY <1>2 DEF RingInv, RingOK, Asks
  <2> QED BY <1>1, <1>2, <2>1 DEF RingInv, RingOK
<1>4. ASSUME ~confused' PROVE OneStart' /\ (\E f : StandsFor(f))'
  <2>1. PICK f : StandsFor(f)
    BY <1>2, <1>4 DEF RingInv, Attributable
  <2>2. OneStart /\ RingOK
    BY <1>2, <1>4 DEF RingInv, Attributable
  <2>3. CASE recent' = recent
    <3>1. OneStart'
      BY <1>2, <2>2, <2>3 DEF OneStart, Unanswered
    <3>2. StandsFor(f)'
      BY <1>1, <2>1, <2>3 DEF StandsFor, Age
    <3> QED BY <3>1, <3>2
  <2>4. CASE \E d \in Ages : /\ recent[d].valid /\ recent[d].key = q.key
                             /\ recent' = [recent EXCEPT ![d].valid = FALSE]
    <3>1. PICK d \in Ages : /\ recent[d].valid /\ recent[d].key = q.key
                            /\ recent' = [recent EXCEPT ![d].valid = FALSE]
      BY <2>4
    <3>2. OneStart'
      BY <1>2, <2>2, <3>1, FewerUnanswered
    <3>3. ASSUME NEW x \in Places, pending[x].valid PROVE recent'[f[x]] = recent[f[x]]
      <4>1. f[x] \in Ages /\ recent[f[x]].key = pending[x].key
        BY <2>1, <3>3 DEF StandsFor
      <4>2. f[x] # d
        BY <1>1, <3>1, <3>3, <4>1
      <4> QED BY <2>2, <3>1, <4>1, <4>2 DEF RingOK
    <3>4. StandsFor(f)'
      <4>1. \A x \in Places : Age(x)' = Age(x)
        BY <1>1 DEF Age
      <4> QED BY <1>1, <2>1, <3>3, <4>1 DEF StandsFor
    <3> QED BY <3>2, <3>4
  <2> QED BY <1>2, <2>3, <2>4
<1>5. Attributable'
  BY <1>4 DEF Attributable
<1>6. AttributionRight'
  BY <1>1 DEF AttributionRight
<1> QED BY <1>3, <1>5, <1>6 DEF RingInv

LEMMA RingSame ==
  ASSUME RingInv, UNCHANGED <<ring, recent, confused>>, asked' \subseteq asked,
         resp' = None \/ (resp' = resp /\ resp # None)
  PROVE  RingInv'
<1>1. UNCHANGED <<pending, pending_wr, recent, confused>>
  BY DEF ring
<1>2. RingOK'
  BY <1>1 DEF RingInv, RingOK
<1>3. Attributable'
  <2>1. OneStart => OneStart'
    BY <1>1 DEF OneStart, Unanswered
  <2>2. \A f : StandsFor(f) => StandsFor(f)'
    BY <1>1 DEF StandsFor, Age
  <2> QED BY <1>1, <2>1, <2>2 DEF RingInv, Attributable
<1>4. AttributionRight'
  BY <1>1 DEF RingInv, AttributionRight
<1> QED BY <1>2, <1>3, <1>4 DEF RingInv

LEMMA RingAtFirst == ASSUME MbInit PROVE RingInv
<1>1. /\ asked = {} /\ confused = FALSE /\ pending_wr = 0 /\ resp = None
      /\ pending = [j \in Places |-> NoPending] /\ recent = [d \in Ages |-> NoPending]
  BY DEF MbInit, Places, Ages
<1>2. 0 \in Places /\ 1 \in Ages
  BY Capacities DEF Places, Ages
<1>3. NoPending \in Asks /\ ~NoPending.valid
  BY DEF NoPending, Asks
<1>4. RingOK
  BY <1>1, <1>2, <1>3 DEF RingOK
<1>5. OneStart
  BY <1>1, <1>3 DEF OneStart
<1>6. StandsFor([j \in Places |-> 1])
  BY <1>1, <1>2, <1>3 DEF StandsFor
<1> QED BY <1>1, <1>4, <1>5, <1>6 DEF RingInv, Attributable, AttributionRight

LEMMA RingKept == ASSUME RingInv, [MbNext]_mb_vars PROVE RingInv'
<1>1. CASE \E k \in ReqKeys, a \in Addrs, sent \in BOOLEAN : RecvRequest(k, a, sent)
  BY <1>1, RequestKeepsRing
<1>2. ASSUME NEW q \in asked, RecvIgnored(q) PROVE RingInv'
  <2>1. UNCHANGED <<ring, recent, confused, resp>> /\ asked' \subseteq asked /\ resp = None
    BY <1>2 DEF RecvIgnored, Receive
  <2> QED BY <2>1, RingSame
<1>3. ASSUME NEW q \in asked, NEW again \in BOOLEAN, RecvUnmatched(q, again) PROVE RingInv'
  BY <1>3, UnmatchedKeepsRing
<1>4. CASE ReadRegister \/ ResponseDone \/ MbIdle \/ UNCHANGED mb_vars
  <2>1. /\ UNCHANGED <<ring, recent, confused, asked>>
        /\ resp' = None \/ (resp' = resp /\ resp # None)
    BY <1>4 DEF ReadRegister, ResponseDone, MbIdle, mb_vars, network, ring
  <2> QED BY <2>1, RingSame
<1> QED BY <1>1, <1>2, <1>3, <1>4, ResponseKeepsRing DEF MbNext

(***************************************************************************)
(* A response is read under the start address of the request it answers    *)
(* (add_pending and find_pending of the benchmark), for every size of the  *)
(* ring, every set of identifiers and any use of them that does not reuse  *)
(* one for another address too early: a valid place, whether or not it is  *)
(* the one that was written for the request, stands for an unanswered      *)
(* request of its own with the same identifier, and these agree on the     *)
(* start address.                                                          *)
(***************************************************************************)
THEOREM BenchAttribution == MbSpec => []AttributionRight
<1>1. MbInit => RingInv
  BY RingAtFirst
<1>2. RingInv /\ [MbNext]_mb_vars => RingInv'
  BY RingKept
<1>3. RingInv => AttributionRight
  BY DEF RingInv
<1> QED BY <1>1, <1>2, <1>3, PTL DEF MbSpec

-----------------------------------------------------------------------------
(* Sums of sequences *)

MaxStep(g, f, s) == IF s = {} THEN 0 ELSE g[s \ {Max(s)}] + f[Max(s)]
IsFold(g, f, S) == g = [s \in SUBSET S |-> MaxStep(g, f, s)]

LEMMA FoldIs ==
  ASSUME NEW q PROVE Sum(q) = (CHOOSE g : IsFold(g, q, DOMAIN q))[DOMAIN q]
BY DEF Sum, FoldLeft, MapThenFoldSet, IsFold, MaxStep

\* The sum of a sequence, from the left, is the sum over its places.
LEMMA SumOfSeq ==
  ASSUME NEW q \in Seq(Int) PROVE Sum(q) = SumOver(q, 1 .. Len(q)) /\ Sum(q) \in Int
<1> DEFINE S == 1 .. Len(q)
           m == [s \in SUBSET S |-> SumOver(q, s)]
           g == CHOOSE h : IsFold(h, q, S)
<1>1. /\ Len(q) \in Nat /\ DOMAIN q = S /\ \A j \in S : q[j] \in Int
  BY LenProperties, ElementOfSeq
<1>2. ASSUME NEW s \in SUBSET S
      PROVE  SumOver(q, s) \in Int /\ SumOver(q, s) = MaxStep(m, q, s)
  <2>1. CASE s = {}
    BY <2>1, SumEmpty DEF MaxStep
  <2>2. CASE s # {}
    <3> DEFINE x == Max(s)
               t == s \ {x}
    <3>1. x \in s /\ IsFiniteSet(s)
      BY <1>1, <2>2, LastPlace
    <3>2. /\ IsFiniteSet(t) /\ x \notin t /\ s = t \cup {x} /\ t \in SUBSET S
      BY <3>1, FS_Subset
    <3> HIDE DEF x, t
    <3>3. \A y \in t \cup {x} : q[y] \in Int
      BY <1>1, <3>2
    <3>4. SumOver(q, s) = SumOver(q, t) + q[x] /\ SumOver(q, t) \in Int
      BY <3>2, <3>3, SumAdd
    <3>5. m[t] = SumOver(q, t)
      BY <3>2
    <3>6. q[x] \in Int
      BY <3>2, <3>3
    <3> HIDE DEF m
    <3>7. MaxStep(m, q, s) = m[t] + q[x]
      BY <2>2 DEF MaxStep, x, t
    <3> QED BY <3>4, <3>5, <3>6, <3>7
  <2> QED BY <2>1, <2>2
<1>3. IsFold(m, q, S)
  <2> DEFINE a(s) == SumOver(q, s)
             b(s) == MaxStep(m, q, s)
  <2>1. \A s \in SUBSET S : a(s) = b(s)
    BY <1>2
  <2>2. m = [s \in SUBSET S |-> a(s)]
    OBVIOUS
  <2> HIDE DEF a, b, m
  <2>3. m = [s \in SUBSET S |-> b(s)]
    BY <2>1, <2>2
  <2> QED BY <2>3 DEF IsFold, b
<1>4. IsFold(g, q, S)
  <2> HIDE DEF m
  <2> QED BY <1>3
<1>5. \A s \in SUBSET S : /\ g[s] = MaxStep(g, q, s)
                          /\ m[s] = MaxStep(m, q, s)
  <2> HIDE DEF m, g
  <2> QED BY <1>3, <1>4 DEF IsFold
<1>6. m[S] = SumOver(q, S) /\ SumOver(q, S) \in Int
  BY <1>2
<1> HIDE DEF g, m
<1>7. g[S] = m[S]
  <2> DEFINE Same(s) == g[s] = m[s]
             N == {n \in Nat : \A s \in Upto(S, n) : Same(s)}
  <2>1. IsFiniteSet(S)
    BY <1>1, FS_Interval
  <2>2. 0 \in N
    <3>1. \A s \in Upto(S, 0) : s = {} /\ s \in SUBSET S
      BY <2>1, UptoMore DEF Upto
    <3> QED BY <1>5, <3>1 DEF MaxStep
  <2>3. ASSUME NEW n \in N PROVE n + 1 \in N
    <3>1. ASSUME NEW s \in Upto(S, n + 1) PROVE Same(s)
      <4>1. s \in SUBSET S /\ Cardinality(s) <= n + 1 /\ n \in Nat
        BY DEF Upto
      <4>2. CASE s = {}
        BY <1>5, <4>1, <4>2 DEF MaxStep
      <4>3. CASE s # {}
        <5> DEFINE t == s \ {Max(s)}
        <5>1. Max(s) \in s /\ IsFiniteSet(s) /\ Cardinality(s) \in Nat
          BY <1>1, <4>1, <4>3, LastPlace, FS_CardinalityType
        <5>2. Cardinality(t) = Cardinality(s) - 1
          BY <5>1, FS_RemoveElement
        <5>3. t \in Upto(S, n)
          <6>1. t \in SUBSET S
            BY <4>1
          <6> HIDE DEF t, S
          <6>2. Cardinality(t) <= n
            BY <4>1, <5>1, <5>2
          <6> QED BY <6>1, <6>2 DEF Upto
        <5>4. g[t] = m[t]
          BY <5>3
        <5> QED BY <1>5, <4>1, <4>3, <5>4 DEF MaxStep
      <4> QED BY <4>2, <4>3
    <3>2. n + 1 \in Nat
      OBVIOUS
    <3> QED BY <3>1, <3>2
  <2>4. Cardinality(S) \in N /\ S \in Upto(S, Cardinality(S))
    <3>1. N \subseteq Nat
      OBVIOUS
    <3> HIDE DEF N
    <3> QED BY <2>1, <2>2, <2>3, <3>1, EverySize
  <2> QED BY <2>4
<1>8. Sum(q) = g[S]
  BY <1>1, FoldIs DEF g
<1> QED BY <1>6, <1>7, <1>8

\* A sequence and one after it.
LEMMA SumJoined ==
  ASSUME NEW h \in Seq(Int), NEW w \in Seq(Int), NEW t \in Nat,
         t + Len(w) <= Len(h), \A j \in 1 .. Len(w) : w[j] = h[t + j]
  PROVE  /\ SumOver(h, 1 .. t + Len(w)) = SumOver(h, 1 .. t) + SumOver(w, 1 .. Len(w))
         /\ SumOver(h, 1 .. t) \in Int /\ SumOver(w, 1 .. Len(w)) \in Int
<1>1. /\ Len(h) \in Nat /\ Len(w) \in Nat
      /\ \A j \in 1 .. Len(h) : h[j] \in Int
      /\ \A j \in 1 .. Len(w) : w[j] \in Int
  BY LenProperties, ElementOfSeq
<1>2. ASSUME NEW q \in Seq(Int), NEW n \in Nat, n + 1 <= Len(q),
             \A j \in 1 .. Len(q) : q[j] \in Int, Len(q) \in Nat
      PROVE  /\ SumOver(q, 1 .. n + 1) = SumOver(q, 1 .. n) + q[n + 1]
             /\ SumOver(q, 1 .. n) \in Int
  <2>1. 1 .. n + 1 = (1 .. n) \cup {n + 1} /\ n + 1 \notin 1 .. n
    OBVIOUS
  <2>2. \A j \in (1 .. n) \cup {n + 1} : q[j] \in Int
    BY <1>2
  <2>3. IsFiniteSet(1 .. n)
    BY FS_Interval
  <2> DEFINE S == 1 .. n
             x == n + 1
  <2>4. x \notin S /\ \A j \in S \cup {x} : q[j] \in Int
    BY <2>1, <2>2
  <2> HIDE DEF S, x
  <2>5. SumOver(q, S \cup {x}) = SumOver(q, S) + q[x] /\ SumOver(q, S) \in Int
    BY <2>3, <2>4, SumAdd DEF S
  <2> QED BY <2>1, <2>5 DEF S, x
<1> DEFINE T == {n \in Nat : n <= Len(w) =>
                   /\ SumOver(h, 1 .. t + n) = SumOver(h, 1 .. t) + SumOver(w, 1 .. n)
                   /\ SumOver(w, 1 .. n) \in Int}
<1>3. SumOver(h, 1 .. t) \in Int
  <2>1. CASE t = Len(h)
    BY <1>1, <2>1, SumOfSeq
  <2>2. CASE t # Len(h)
    BY <1>1, <1>2, <2>2
  <2> QED BY <2>1, <2>2
<1>4. 0 \in T
  <2>1. 1 .. 0 = {} /\ t + 0 = t
    OBVIOUS
  <2>2. SumOver(w, 1 .. 0) = 0
    BY <2>1, SumEmpty
  <2> QED BY <1>3, <2>1, <2>2
<1>5. ASSUME NEW n \in T PROVE n + 1 \in T
  <2>1. n \in Nat /\ n + 1 \in Nat
    OBVIOUS
  <2>2. ASSUME n + 1 <= Len(w)
        PROVE  /\ SumOver(h, 1 .. t + (n + 1)) = SumOver(h, 1 .. t) + SumOver(w, 1 .. n + 1)
               /\ SumOver(w, 1 .. n + 1) \in Int
    <3>1. n <= Len(w)
      BY <1>1, <2>1, <2>2
    <3>2. /\ SumOver(h, 1 .. t + n) = SumOver(h, 1 .. t) + SumOver(w, 1 .. n)
          /\ SumOver(w, 1 .. n) \in Int
      BY <3>1
    <3>3. SumOver(w, 1 .. n + 1) = SumOver(w, 1 .. n) + w[n + 1]
      BY <1>1, <1>2, <2>1, <2>2
    <3>4. /\ t + n \in Nat /\ (t + n) + 1 <= Len(h) /\ t + (n + 1) = (t + n) + 1
      BY <1>1, <2>1, <2>2
    <3>5. SumOver(h, 1 .. t + (n + 1)) = SumOver(h, 1 .. t + n) + h[(t + n) + 1]
      BY <1>1, <1>2, <3>4
    <3>6. w[n + 1] = h[(t + n) + 1] /\ w[n + 1] \in Int
      BY <1>1, <2>1, <2>2, <3>4
    <3>7. /\ SumOver(h, 1 .. t + (n + 1)) = SumOver(h, 1 .. t + n) + w[n + 1]
          /\ w[n + 1] \in Int
      BY <3>5, <3>6
    <3> DEFINE s == SumOver(h, 1 .. t + (n + 1))
               u == SumOver(h, 1 .. t + n)
               a == SumOver(h, 1 .. t)
               b == SumOver(w, 1 .. n)
               c == SumOver(w, 1 .. n + 1)
               x == w[n + 1]
    <3>8. /\ s = u + x /\ u = a + b /\ c = b + x
          /\ a \in Int /\ b \in Int /\ x \in Int
      BY <1>3, <3>2, <3>3, <3>7
    <3> HIDE DEF s, u, a, b, c, x
    <3>9. s = a + c /\ c \in Int
      BY <3>8
    <3> QED BY <3>9 DEF s, a, c
  <2> QED BY <2>1, <2>2
<1>6. Len(w) \in T
  <2>1. T \subseteq Nat
    OBVIOUS
  <2> HIDE DEF T
  <2> QED BY <1>1, <1>4, <1>5, <2>1, Inductive
<1> QED BY <1>1, <1>3, <1>6

-----------------------------------------------------------------------------
(* The state of a sensor *)

LEMMA Multiple ==
  ASSUME NEW w \in Nat \ {0}, NEW m \in Nat PROVE (w * m) % w = 0 /\ w * m \in Nat
<1>1. (w * m + 0) % w = 0
  BY DivModIs
<1>2. w * m \in Nat /\ w * m + 0 = w * m
  OBVIOUS
<1> QED BY <1>1, <1>2

MbEntries == [readings : [0 .. WindowSize - 1 -> Int], sample_count : Nat, write_index : Nat,
              ewma : Seq(Int), mean : Int \X Int, total_samples : Nat]

\* What the entry of a sensor says of its readings h; first is or will be the
\* first of them.
Describes(e, h, first) ==
  /\ e \in MbEntries /\ \E m \in Nat : e.total_samples = WindowSize * m
  /\ e.sample_count < WindowSize /\ e.write_index = e.sample_count
  /\ Len(h) = e.total_samples + e.sample_count
  /\ \A j \in 0 .. e.sample_count - 1 : e.readings[j] = h[e.total_samples + j + 1]
  /\ e.ewma = IF e.total_samples = 0 THEN <<first>>
              ELSE SubSeq(h, e.total_samples - WindowSize + 1, e.total_samples)
  /\ e.total_samples # 0 =>
       e.mean[1] * e.total_samples = SumOver(h, 1 .. e.total_samples) * e.mean[2]

\* What a vector f says of the readings h.
Covers(f, h) ==
  LET n == Len(h)
  IN  /\ n % WindowSize = 0 /\ f.total_samples = n
      /\ f.ewma = SubSeq(h, n - WindowSize + 1, n)
      /\ f.ewma_before = IF n = WindowSize THEN <<h[1]>>
                         ELSE SubSeq(h, n - 2 * WindowSize + 1, n - WindowSize)
      /\ f.mean[1] * n = Sum(h) * f.mean[2]

LEMMA WindowIs == WindowSize \in Nat \ {0}
BY BenchModbusAssumption

LEMMA NewDescribes == ASSUME NEW v \in Int PROVE Describes(NewEntry(v), <<>>, v)
<1> DEFINE e == NewEntry(v)
<1>1. /\ e.sample_count = 0 /\ e.write_index = 0 /\ e.total_samples = 0
      /\ e.ewma = <<v>> /\ e \in MbEntries
  <2>1. [j \in 0 .. WindowSize - 1 |-> 0] \in [0 .. WindowSize - 1 -> Int]
    OBVIOUS
  <2>2. <<v>> \in Seq(Int) /\ <<v, 1>> \in Int \X Int
    OBVIOUS
  <2> QED BY <2>1, <2>2 DEF NewEntry, MbEntries
<1>2. WindowSize * 0 = 0 /\ 0 \in Nat /\ 0 < WindowSize
  BY WindowIs
<1>3. Len(<<>>) = 0
  OBVIOUS
<1> HIDE DEF e
<1> QED BY <1>1, <1>2, <1>3 DEF Describes, e

LEMMA PartOf ==
  ASSUME NEW q \in Seq(Int), NEW a \in 1 .. Len(q), NEW b \in a .. Len(q)
  PROVE  /\ SubSeq(q, a, b) \in Seq(Int) /\ Len(SubSeq(q, a, b)) = b - a + 1
         /\ \A j \in 1 .. b - a + 1 : SubSeq(q, a, b)[j] = q[a + j - 1]
<1>1. a \in Int /\ b \in Int /\ a <= b /\ \A j \in a .. b : q[j] \in Int
  <2>1. Len(q) \in Nat /\ \A j \in 1 .. Len(q) : q[j] \in Int
    BY LenProperties, ElementOfSeq
  <2> QED BY <2>1
<1> QED BY <1>1, SubSeqProperties

LEMMA Grown ==
  ASSUME NEW h \in Seq(Int), NEW v \in Int
  PROVE  /\ Append(h, v) \in Seq(Int) /\ Len(h) \in Nat /\ Len(Append(h, v)) = Len(h) + 1
         /\ Append(h, v)[Len(h) + 1] = v
         /\ \A j \in 1 .. Len(h) : Append(h, v)[j] = h[j] /\ h[j] \in Int
         /\ \A t \in 0 .. Len(h) :
              SumOver(Append(h, v), 1 .. t) = SumOver(h, 1 .. t)
         /\ \A a \in 1 .. Len(h) : \A b \in a .. Len(h) :
              SubSeq(Append(h, v), a, b) = SubSeq(h, a, b)
<1> DEFINE g == Append(h, v)
<1>1. /\ g \in Seq(Int) /\ Len(h) \in Nat /\ Len(g) = Len(h) + 1
      /\ g[Len(h) + 1] = v
      /\ \A j \in 1 .. Len(h) : g[j] = h[j] /\ h[j] \in Int
  BY AppendProperties, LenProperties, ElementOfSeq
<1> HIDE DEF g
<1>2. ASSUME NEW t \in 0 .. Len(h) PROVE SumOver(g, 1 .. t) = SumOver(h, 1 .. t)
  <2>1. IsFiniteSet(1 .. t) /\ \A j \in 1 .. t : g[j] = h[j]
    BY <1>1, FS_Interval
  <2> DEFINE S == 1 .. t
  <2> HIDE DEF S
  <2>2. SumOver(g, S) = SumOver(h, S)
    BY <2>1, SumSame DEF S
  <2> QED BY <2>2 DEF S
<1>3. ASSUME NEW a \in 1 .. Len(h), NEW b \in a .. Len(h)
      PROVE  SubSeq(g, a, b) = SubSeq(h, a, b)
  <2>1. a \in 1 .. Len(g) /\ b \in a .. Len(g)
    BY <1>1
  <2>2. /\ SubSeq(g, a, b) \in Seq(Int) /\ SubSeq(h, a, b) \in Seq(Int)
        /\ Len(SubSeq(g, a, b)) = b - a + 1 /\ Len(SubSeq(h, a, b)) = b - a + 1
        /\ \A j \in 1 .. b - a + 1 : /\ SubSeq(g, a, b)[j] = g[a + j - 1]
                                     /\ SubSeq(h, a, b)[j] = h[a + j - 1]
    BY <1>1, <2>1, PartOf
  <2>3. \A j \in 1 .. b - a + 1 : a + j - 1 \in 1 .. Len(h)
    BY <1>1
  <2>4. \A j \in 1 .. b - a + 1 : SubSeq(g, a, b)[j] = SubSeq(h, a, b)[j]
    BY <1>1, <2>2, <2>3
  <2> QED BY <2>2, <2>4, SeqEqual
<1> QED BY <1>1, <1>2, <1>3 DEF g

\* The mean of n readings whose sum is a, and of as many more as make c.
LEMMA MeanOfAll ==
  ASSUME NEW a \in Int, NEW b \in Int, NEW c \in Int, NEW m1 \in Int, NEW m2 \in Int,
         NEW n \in Int, m1 * n = a * m2
  PROVE  (m1 * n + b * m2) * c = (a + b) * (m2 * c)
<1>1. (m1 * n + b * m2) * c = (a * m2 + b * m2) * c
  OBVIOUS
<1>2. (a * m2 + b * m2) * c = (a + b) * (m2 * c)
  OBVIOUS
<1> QED BY <1>1, <1>2

\* The readings of an entry, v in its place.
WithReading(e, v) == [e.readings EXCEPT ![e.write_index] = v]

\* A reading that does not fill the window.
Filling(e, v) ==
  [e EXCEPT !.readings = WithReading(e, v), !.sample_count = @ + 1, !.write_index = @ + 1]

\* One that does: the window, and the entry after its vector.
Window(e, v) == [j \in 1 .. WindowSize |-> WithReading(e, v)[j - 1]]
Filled(e, v) ==
  LET f == compute_features(e, Window(e, v))
  IN  [readings |-> WithReading(e, v), sample_count |-> 0, write_index |-> 0,
       ewma |-> f.ewma, mean |-> f.mean, total_samples |-> f.total_samples]

\* The sizes of an entry, and its readings with v.
LEMMA Measures ==
  ASSUME NEW e, NEW h \in Seq(Int), NEW v \in Int, NEW first, Describes(e, h, first)
  PROVE  /\ e.total_samples \in Nat /\ e.sample_count \in 0 .. WindowSize - 1
         /\ e.total_samples # 0 => e.total_samples >= WindowSize
         /\ \E m \in Nat : e.total_samples = WindowSize * m
         /\ Len(h) = e.total_samples + e.sample_count
         /\ e.mean \in Int \X Int /\ e.mean[1] \in Int /\ e.mean[2] \in Int
         /\ e.ewma \in Seq(Int)
         /\ WithReading(e, v) \in [0 .. WindowSize - 1 -> Int]
         /\ \A j \in 0 .. e.sample_count :
              WithReading(e, v)[j] = Append(h, v)[e.total_samples + j + 1]
<1>1. /\ e \in MbEntries /\ e.sample_count < WindowSize /\ e.write_index = e.sample_count
      /\ Len(h) = e.total_samples + e.sample_count
      /\ \A j \in 0 .. e.sample_count - 1 : e.readings[j] = h[e.total_samples + j + 1]
  BY DEF Describes
<1>2. /\ e.total_samples \in Nat /\ e.sample_count \in Nat /\ e.mean \in Int \X Int
      /\ e.readings \in [0 .. WindowSize - 1 -> Int] /\ e.ewma \in Seq(Int)
  BY <1>1 DEF MbEntries
<1>3. PICK m \in Nat : e.total_samples = WindowSize * m
  BY DEF Describes
<1>4. e.total_samples # 0 => e.total_samples >= WindowSize
  <2>1. CASE m = 0
    BY <1>3, <2>1, WindowIs
  <2>2. CASE m # 0
    <3>1. PICK m1 \in Nat : m = m1 + 1
      <4>1. m - 1 \in Nat /\ m = (m - 1) + 1
        BY <2>2
      <4> QED BY <4>1
    <3>2. WindowSize * (m1 + 1) = WindowSize * m1 + WindowSize /\ WindowSize * m1 >= 0
      BY WindowIs
    <3> QED BY <1>2, <1>3, <3>1, <3>2, WindowIs
  <2> QED BY <2>1, <2>2
<1>5. e.sample_count \in 0 .. WindowSize - 1
  BY <1>1, <1>2, WindowIs
<1>6. /\ WithReading(e, v) \in [0 .. WindowSize - 1 -> Int]
      /\ WithReading(e, v)[e.sample_count] = v
      /\ \A j \in 0 .. e.sample_count - 1 : WithReading(e, v)[j] = e.readings[j]
  <2> DEFINE R == 0 .. WindowSize - 1
             f == e.readings
             w == e.sample_count
  <2>1. f \in [R -> Int] /\ w \in R /\ WithReading(e, v) = [f EXCEPT ![w] = v]
    BY <1>1, <1>2, <1>5 DEF WithReading
  <2>2. \A j \in 0 .. w - 1 : j \in R /\ j # w
    BY <1>5, WindowIs
  <2> HIDE DEF R, f, w
  <2>3. /\ WithReading(e, v) \in [R -> Int] /\ WithReading(e, v)[w] = v
        /\ \A j \in R : j # w => WithReading(e, v)[j] = f[j]
    BY <2>1
  <2> QED BY <2>2, <2>3 DEF R, f, w
<1>7. ASSUME NEW j \in 0 .. e.sample_count
      PROVE  WithReading(e, v)[j] = Append(h, v)[e.total_samples + j + 1]
  <2>1. CASE j = e.sample_count
    <3>1. e.total_samples + j + 1 = Len(h) + 1
      BY <1>1, <2>1
    <3> QED BY <1>6, <2>1, <3>1, Grown
  <2>2. CASE j # e.sample_count
    <3>1. j \in 0 .. e.sample_count - 1 /\ e.total_samples + j + 1 \in 1 .. Len(h)
      <4> DEFINE s == e.sample_count
                 n == e.total_samples
      <4>1. s \in Nat /\ n \in Nat /\ Len(h) = n + s /\ j \in 0 .. s /\ j # s
        BY <1>1, <1>2, <2>2
      <4> HIDE DEF s, n
      <4>2. j \in 0 .. s - 1 /\ n + j + 1 \in 1 .. Len(h)
        BY ONLY <4>1
      <4> QED BY ONLY <4>2 DEF s, n
    <3> QED BY <1>1, <1>6, <3>1, Grown
  <2> QED BY <2>1, <2>2
<1> QED BY <1>1, <1>2, <1>3, <1>4, <1>5, <1>6, <1>7

\* Of the readings with v, what is said of the windows before is still true.
LEMMA OldWindows ==
  ASSUME NEW e, NEW h \in Seq(Int), NEW v \in Int, NEW first, Describes(e, h, first)
  PROVE  /\ e.ewma = IF e.total_samples = 0 THEN <<first>>
                     ELSE SubSeq(Append(h, v), e.total_samples - WindowSize + 1,
                                 e.total_samples)
         /\ SumOver(Append(h, v), 1 .. e.total_samples)
              = SumOver(h, 1 .. e.total_samples)
<1> DEFINE n == e.total_samples
           g == Append(h, v)
<1>1. /\ n \in Nat /\ e.sample_count \in 0 .. WindowSize - 1
      /\ n # 0 => n >= WindowSize
      /\ Len(h) = n + e.sample_count
  BY Measures
<1>2. e.ewma = IF n = 0 THEN <<first>> ELSE SubSeq(h, n - WindowSize + 1, n)
  BY DEF Describes
<1>3. /\ \A t \in 0 .. Len(h) : SumOver(g, 1 .. t) = SumOver(h, 1 .. t)
      /\ \A a \in 1 .. Len(h) : \A b \in a .. Len(h) : SubSeq(g, a, b) = SubSeq(h, a, b)
  BY Grown
<1> HIDE DEF n, g
<1>4. n \in 0 .. Len(h)
  BY <1>1
<1>5. n # 0 => SubSeq(g, n - WindowSize + 1, n) = SubSeq(h, n - WindowSize + 1, n)
  <2> SUFFICES ASSUME n # 0
               PROVE  SubSeq(g, n - WindowSize + 1, n) = SubSeq(h, n - WindowSize + 1, n)
    OBVIOUS
  <2>1. n - WindowSize + 1 \in 1 .. Len(h) /\ n \in n - WindowSize + 1 .. Len(h)
    BY <1>1, WindowIs
  <2> QED BY <1>3, <2>1
<1> QED BY <1>2, <1>3, <1>4, <1>5 DEF n, g

LEMMA FillingDescribes ==
  ASSUME NEW e, NEW h \in Seq(Int), NEW v \in Int, NEW first, Describes(e, h, first),
         e.sample_count + 1 # WindowSize
  PROVE  Describes(Filling(e, v), Append(h, v), first)
<1> DEFINE d == Filling(e, v)
           g == Append(h, v)
<1>1. /\ e.total_samples \in Nat /\ e.sample_count \in 0 .. WindowSize - 1
      /\ \E m \in Nat : e.total_samples = WindowSize * m
      /\ Len(h) = e.total_samples + e.sample_count
      /\ WithReading(e, v) \in [0 .. WindowSize - 1 -> Int]
      /\ \A j \in 0 .. e.sample_count : WithReading(e, v)[j] = g[e.total_samples + j + 1]
  BY Measures
<1>2. e \in MbEntries /\ e.write_index = e.sample_count
  BY DEF Describes
<1>3. /\ d \in MbEntries
      /\ d.sample_count = e.sample_count + 1 /\ d.write_index = e.write_index + 1
      /\ d.readings = WithReading(e, v)
      /\ d.total_samples = e.total_samples /\ d.mean = e.mean /\ d.ewma = e.ewma
  <2>1. /\ e.sample_count + 1 \in Nat /\ e.write_index + 1 \in Nat
        /\ e.ewma \in Seq(Int) /\ e.mean \in Int \X Int
        /\ DOMAIN e = {"readings", "sample_count", "write_index", "ewma", "mean",
                       "total_samples"}
    BY <1>1, <1>2 DEF MbEntries
  <2>2. /\ d.sample_count = e.sample_count + 1 /\ d.write_index = e.write_index + 1
        /\ d.readings = WithReading(e, v)
        /\ d.total_samples = e.total_samples /\ d.mean = e.mean /\ d.ewma = e.ewma
    BY <1>2 DEF Filling, MbEntries
  <2>3. d = [readings |-> d.readings, sample_count |-> d.sample_count,
             write_index |-> d.write_index, ewma |-> d.ewma, mean |-> d.mean,
             total_samples |-> d.total_samples]
    <3>1. d = [e EXCEPT !.readings = WithReading(e, v), !.sample_count = @ + 1,
                        !.write_index = @ + 1]
      BY DEF Filling
    <3> HIDE DEF d
    <3> QED BY <2>1, <3>1
  <2> HIDE DEF d
  <2> QED BY <1>1, <2>1, <2>2, <2>3 DEF MbEntries
<1>4. /\ e.ewma = IF e.total_samples = 0 THEN <<first>>
                  ELSE SubSeq(g, e.total_samples - WindowSize + 1, e.total_samples)
      /\ SumOver(g, 1 .. e.total_samples) = SumOver(h, 1 .. e.total_samples)
  BY OldWindows
<1>5. Len(g) = Len(h) + 1
  BY Grown
<1>6. e.total_samples # 0 =>
        e.mean[1] * e.total_samples = SumOver(h, 1 .. e.total_samples) * e.mean[2]
  BY DEF Describes
<1> HIDE DEF d, g
<1>7. /\ d.sample_count < WindowSize /\ d.write_index = d.sample_count
      /\ Len(g) = d.total_samples + d.sample_count
  <2>1. /\ e.total_samples \in Nat /\ e.sample_count \in Nat
        /\ e.sample_count + 1 < WindowSize /\ Len(h) = e.total_samples + e.sample_count
    BY <1>1, WindowIs
  <2> QED BY <1>2, <1>3, <1>5, <2>1
<1>8. \A j \in 0 .. d.sample_count - 1 : d.readings[j] = g[d.total_samples + j + 1]
  <2>1. 0 .. d.sample_count - 1 = 0 .. e.sample_count
    BY <1>1, <1>3
  <2> QED BY <1>1, <1>3, <2>1
<1> QED BY <1>1, <1>3, <1>4, <1>6, <1>7, <1>8 DEF Describes, d, g

\* A window filled: the vector covers all readings, and the entry is as before
\* the first reading of a window.
LEMMA FilledDescribes ==
  ASSUME NEW e, NEW h \in Seq(Int), NEW v \in Int, NEW first \in Int,
         Describes(e, h, first), e.sample_count + 1 = WindowSize,
         Append(h, v)[1] = first
  PROVE  /\ Covers(compute_features(e, Window(e, v)), Append(h, v))
         /\ Describes(Filled(e, v), Append(h, v), first)
<1> DEFINE n == e.total_samples
           g == Append(h, v)
           w == Window(e, v)
           f == compute_features(e, w)
           d == Filled(e, v)
           c == n + WindowSize
           a == SumOver(h, 1 .. n)
<1>1. /\ n \in Nat /\ e.sample_count \in 0 .. WindowSize - 1
      /\ n # 0 => n >= WindowSize
      /\ \E m \in Nat : n = WindowSize * m
      /\ Len(h) = n + e.sample_count
      /\ e.mean \in Int \X Int /\ e.mean[1] \in Int /\ e.mean[2] \in Int
      /\ e.ewma \in Seq(Int)
      /\ WithReading(e, v) \in [0 .. WindowSize - 1 -> Int]
      /\ \A j \in 0 .. e.sample_count : WithReading(e, v)[j] = g[n + j + 1]
  BY Measures
<1>2. /\ e.ewma = IF n = 0 THEN <<first>> ELSE SubSeq(g, n - WindowSize + 1, n)
      /\ SumOver(g, 1 .. n) = a
  BY OldWindows
<1>3. n # 0 => e.mean[1] * n = a * e.mean[2]
  BY DEF Describes
<1>4. g \in Seq(Int) /\ Len(g) = Len(h) + 1
  BY Grown
<1>5. /\ f.ewma = w /\ f.ewma_before = e.ewma /\ f.total_samples = c
      /\ f.mean = IF n = 0 THEN <<Sum(w), WindowSize>>
                  ELSE <<e.mean[1] * n + Sum(w) * e.mean[2], e.mean[2] * c>>
  BY DEF compute_features
<1>6. /\ d.readings = WithReading(e, v) /\ d.sample_count = 0 /\ d.write_index = 0
      /\ d.ewma = f.ewma /\ d.mean = f.mean /\ d.total_samples = f.total_samples
      /\ d = [readings |-> WithReading(e, v), sample_count |-> 0, write_index |-> 0,
              ewma |-> f.ewma, mean |-> f.mean, total_samples |-> f.total_samples]
  BY DEF Filled
<1>7. w \in Seq(Int) /\ Len(w) = WindowSize /\ \A j \in 1 .. WindowSize : w[j] = g[n + j]
  <2>1. ASSUME NEW j \in 1 .. WindowSize
        PROVE  WithReading(e, v)[j - 1] \in Int /\ WithReading(e, v)[j - 1] = g[n + j]
    <3>1. /\ j - 1 \in 0 .. WindowSize - 1 /\ j - 1 \in 0 .. e.sample_count
          /\ n + (j - 1) + 1 = n + j
      BY <1>1, WindowIs
    <3>2. WithReading(e, v)[j - 1] = g[n + (j - 1) + 1]
      BY <1>1, <3>1
    <3> QED BY <1>1, <3>1, <3>2
  <2>2. /\ w \in [1 .. WindowSize -> Int]
        /\ \A j \in 1 .. WindowSize : w[j] = WithReading(e, v)[j - 1]
    BY <2>1 DEF Window
  <2> HIDE DEF w
  <2>3. w \in Seq(Int) /\ Len(w) = WindowSize
    BY <2>2, WindowIs
  <2> QED BY <2>1, <2>2, <2>3
<1> HIDE DEF n, g, w, f, d, a
<1>8. c \in Nat /\ c # 0 /\ Len(g) = c /\ n + Len(w) <= Len(g) /\ Len(w) = WindowSize
  <2>1. Len(h) = n + e.sample_count /\ n \in Nat /\ e.sample_count + 1 = WindowSize
    BY <1>1
  <2>2. Len(g) = Len(h) + 1 /\ Len(w) = WindowSize /\ e.sample_count \in Nat
    BY <1>1, <1>4, <1>7, WindowIs
  <2> QED BY <2>1, <2>2, WindowIs
<1>9. /\ SumOver(g, 1 .. c) = a + Sum(w) /\ a \in Int /\ Sum(w) \in Int
      /\ Sum(g) = SumOver(g, 1 .. c)
  <2>1. \A j \in 1 .. Len(w) : w[j] = g[n + j]
    BY <1>7, <1>8
  <2>2. /\ SumOver(g, 1 .. n + Len(w)) = SumOver(g, 1 .. n) + SumOver(w, 1 .. Len(w))
        /\ SumOver(g, 1 .. n) \in Int
    BY <1>1, <1>4, <1>7, <1>8, <2>1, SumJoined
  <2>3. Sum(w) = SumOver(w, 1 .. Len(w)) /\ Sum(w) \in Int
    BY <1>7, SumOfSeq
  <2>4. Sum(g) = SumOver(g, 1 .. Len(g))
    BY <1>4, SumOfSeq
  <2> QED BY <1>2, <1>8, <2>2, <2>3, <2>4
<1>10. f.mean \in Int \X Int /\ f.mean[1] * c = (a + Sum(w)) * f.mean[2]
  <2>1. CASE n = 0
    <3>1. a = 0
      <4>1. 1 .. n = {}
        BY <2>1
      <4> QED BY <4>1, SumEmpty DEF a
    <3>2. f.mean = <<Sum(w), WindowSize>> /\ c = WindowSize
      BY <1>5, <2>1, WindowIs
    <3>3. a + Sum(w) = Sum(w)
      BY <1>9, <3>1
    <3> QED BY <1>9, <3>2, <3>3, WindowIs
  <2>2. CASE n # 0
    <3> DEFINE m1 == e.mean[1]
               m2 == e.mean[2]
               b == Sum(w)
    <3>1. f.mean = <<m1 * n + b * m2, m2 * c>>
      BY <1>5, <2>2
    <3>2. m1 \in Int /\ m2 \in Int /\ b \in Int /\ a \in Int /\ n \in Int /\ c \in Int
      BY <1>1, <1>8, <1>9
    <3>3. m1 * n = a * m2
      BY <1>3, <2>2
    <3> HIDE DEF m1, m2, b, c
    <3>4. (m1 * n + b * m2) * c = (a + b) * (m2 * c)
      BY <3>2, <3>3, MeanOfAll
    <3>5. m1 * n + b * m2 \in Int /\ m2 * c \in Int
      BY <3>2
    <3> QED BY <3>1, <3>4, <3>5 DEF b
  <2> QED BY <2>1, <2>2
<1>11. w = SubSeq(g, c - WindowSize + 1, c)
  <2>1. c - WindowSize + 1 = n + 1
    <3>1. n \in Nat
      BY <1>1
    <3> QED BY <3>1, WindowIs
  <2>2. /\ SubSeq(g, n + 1, c) \in Seq(Int)
        /\ Len(SubSeq(g, n + 1, c)) = c - (n + 1) + 1
        /\ \A j \in 1 .. c - (n + 1) + 1 : SubSeq(g, n + 1, c)[j] = g[n + 1 + j - 1]
    <3> DEFINE low == n + 1
    <3>1. low \in 1 .. Len(g) /\ c \in low .. Len(g)
      <4>1. n \in Nat /\ Len(g) = c /\ c = n + WindowSize
        BY <1>1, <1>8
      <4> HIDE DEF c
      <4> QED BY <4>1, WindowIs
    <3> HIDE DEF low, c
    <3> QED BY <1>4, <3>1, PartOf DEF low
  <2>3. c - (n + 1) + 1 = WindowSize /\ \A j \in 1 .. WindowSize : n + 1 + j - 1 = n + j
    <3>1. n \in Nat
      BY <1>1
    <3> QED BY <3>1, WindowIs
  <2>4. \A j \in 1 .. WindowSize : SubSeq(g, n + 1, c)[j] = w[j]
    BY <1>7, <2>2, <2>3
  <2>5. SubSeq(g, n + 1, c) = w
    BY <1>7, <2>2, <2>3, <2>4, SeqEqual
  <2> QED BY <2>1, <2>5
<1>12. PICK k \in Nat : c = WindowSize * k
  <2>1. PICK m \in Nat : n = WindowSize * m
    BY <1>1
  <2>2. m + 1 \in Nat /\ WindowSize * (m + 1) = WindowSize * m + WindowSize
    BY WindowIs
  <2> QED BY <2>1, <2>2
<1>13. Covers(f, g)
  <2>1. c % WindowSize = 0
    BY <1>12, Multiple, WindowIs
  <2>2. f.ewma_before = IF c = WindowSize THEN <<g[1]>>
                        ELSE SubSeq(g, c - 2 * WindowSize + 1, c - WindowSize)
    <3>1. c = WindowSize <=> n = 0
      BY <1>1, WindowIs
    <3>2. c - 2 * WindowSize + 1 = n - WindowSize + 1 /\ c - WindowSize = n
      BY <1>1, WindowIs
    <3>3. g[1] = first
      BY DEF g
    <3> QED BY <1>2, <1>5, <3>1, <3>2, <3>3
  <2>3. f.mean[1] * c = Sum(g) * f.mean[2]
    BY <1>9, <1>10
  <2> HIDE DEF c
  <2> QED BY <1>5, <1>8, <1>11, <2>1, <2>2, <2>3 DEF Covers
<1>14. Describes(d, g, first)
  <2>1. d \in MbEntries
    BY <1>1, <1>5, <1>6, <1>7, <1>8, <1>10 DEF MbEntries
  <2>2. 0 < WindowSize /\ Len(g) = c + 0 /\ 0 .. 0 - 1 = {}
    BY <1>8, WindowIs
  <2>3. f.mean[1] * c = SumOver(g, 1 .. c) * f.mean[2]
    BY <1>9, <1>10
  <2> HIDE DEF c
  <2> QED BY <1>5, <1>6, <1>8, <1>11, <1>12, <2>1, <2>2, <2>3 DEF Describes
<1> QED BY <1>13, <1>14 DEF f, g, w, d

-----------------------------------------------------------------------------
(* The sensors *)

EntryNumbers == 0 .. MaxSensors - 1

\* The entry of a sensor, as far as it has one.
SensorOK(k) ==
  IF s_hash[k] = -1 THEN history[k] = <<>>
  ELSE history[k] # <<>> /\ Describes(entries[s_hash[k]], history[k], history[k][1])

SensorTypes ==
  /\ s_next \in 0 .. MaxSensors /\ s_hash \in [SensorKeys -> -1 .. s_next - 1]
  /\ DOMAIN entries = EntryNumbers /\ history \in [SensorKeys -> Seq(Int)]

OwnEntry ==
  \A k, x \in SensorKeys : s_hash[k] # -1 /\ s_hash[k] = s_hash[x] => k = x

ResponseOK ==
  /\ r \in Nat
  /\ resp # None => /\ resp.unit \in Units /\ resp.start \in Int
                    /\ resp.regs \in Seq(RegVals)

SensorsInv ==
  /\ SensorTypes /\ OwnEntry /\ \A k \in SensorKeys : SensorOK(k)
  /\ StateCoversHistory

LEMMA VectorCovers ==
  StateCoversHistory <=> (feature_sink # None => Covers(feature_sink.fv, feature_sink.of))
BY DEF StateCoversHistory, Covers

LEMMA SensorSizes ==
  /\ MaxSensors \in Nat /\ MaxRegs \in Nat
  /\ AddrSpace \in Nat \ {0} /\ Addrs \subseteq 0 .. AddrSpace - 1
<1>1. /\ MaxSensors \in Nat \ {0} /\ MaxRegs \in Nat
      /\ AddrSpace \in Nat \ {0} /\ Addrs \subseteq 0 .. AddrSpace - 1
  BY BenchModbusAssumption
<1> QED BY <1>1

LEMMA RegisterIs == \A v \in Words : v \in Int /\ Signed16(v) \in Int
<1>1. \A v \in Words : v \in Int
  BY SMT DEF Words
<1>2. \A v \in Int : Signed16(v) \in Int
  BY DEF Signed16
<1> QED BY <1>1, <1>2

LEMMA EntryIs ==
  ASSUME SensorsInv, NEW k \in SensorKeys, s_hash[k] # -1
  PROVE  s_hash[k] \in EntryNumbers
<1>1. MaxSensors \in Nat
  BY SensorSizes
<1>2. s_next \in 0 .. MaxSensors /\ s_hash[k] \in -1 .. s_next - 1
  BY DEF SensorsInv, SensorTypes
<1> QED BY <1>1, <1>2 DEF EntryNumbers

LEMMA SensorsSame ==
  ASSUME SensorsInv, UNCHANGED <<s_hash, s_next, entries, feature_sink, history>>
  PROVE  SensorsInv'
BY DEF SensorsInv, SensorTypes, OwnEntry, SensorOK, StateCoversHistory

\* A reading into entry e, as it was before or just zeroed.
LEMMA RecordKeeps ==
  ASSUME SensorsInv, NEW k \in SensorKeys, NEW n \in EntryNumbers, NEW e, NEW v \in Int,
         Describes(e, history[k], Append(history[k], v)[1]),
         s_hash' \in [SensorKeys -> -1 .. s_next' - 1], s_next' \in 0 .. MaxSensors,
         s_hash'[k] = n, OwnEntry', \A x \in SensorKeys \ {k} : s_hash'[x] = s_hash[x],
         Record(n, e, k, v)
  PROVE  SensorsInv'
<1> DEFINE h == history[k]
           g == Append(h, v)
           d == entries'[n]
<1>1. h \in Seq(Int)
  BY DEF SensorsInv, SensorTypes
<1>2. /\ g \in Seq(Int) /\ g # <<>> /\ g[1] \in Int
  <2>1. /\ g \in Seq(Int) /\ Len(h) \in Nat /\ Len(g) = Len(h) + 1
    BY <1>1, Grown
  <2>2. Len(g) # 0 /\ 1 \in 1 .. Len(g)
    BY <2>1
  <2> HIDE DEF g
  <2> QED BY <2>1, <2>2, EmptySeq, ElementOfSeq
<1>3. /\ history' = [history EXCEPT ![k] = g]
      /\ \/ /\ e.sample_count + 1 = WindowSize
            /\ entries' = [entries EXCEPT ![n] = Filled(e, v)]
            /\ feature_sink' = [fv |-> compute_features(e, Window(e, v)), of |-> g]
         \/ /\ e.sample_count + 1 # WindowSize
            /\ entries' = [entries EXCEPT ![n] = Filling(e, v)]
            /\ feature_sink' = feature_sink
  BY DEF Record, Filled, Filling, Window, WithReading
<1>4. DOMAIN entries = EntryNumbers /\ history \in [SensorKeys -> Seq(Int)]
  BY DEF SensorsInv, SensorTypes
<1> HIDE DEF h, g
<1>5. /\ SensorTypes' /\ history'[k] = g
      /\ \A x \in SensorKeys \ {k} : history'[x] = history[x]
      /\ \A m \in EntryNumbers \ {n} : entries'[m] = entries[m]
  BY <1>2, <1>3, <1>4 DEF SensorTypes, EntryNumbers
<1>6. Describes(d, g, g[1]) /\ StateCoversHistory'
  <2>1. Describes(e, h, g[1])
    BY DEF h, g
  <2>2. CASE e.sample_count + 1 = WindowSize
    <3>1. d = Filled(e, v) /\ feature_sink' = [fv |-> compute_features(e, Window(e, v)), of |-> g]
      BY <1>3, <1>4, <2>2
    <3>2. /\ Covers(compute_features(e, Window(e, v)), g)
          /\ Describes(Filled(e, v), g, g[1])
      <4> DEFINE first == g[1]
      <4>1. first \in Int /\ Describes(e, h, first) /\ Append(h, v)[1] = first
        BY <1>2, <2>1 DEF g
      <4> HIDE DEF first
      <4>2. /\ Covers(compute_features(e, Window(e, v)), Append(h, v))
            /\ Describes(Filled(e, v), Append(h, v), first)
        BY <1>1, <2>2, <4>1, FilledDescribes
      <4> QED BY <4>2 DEF g, first
    <3>3. Covers(feature_sink'.fv, feature_sink'.of)
      BY <3>1, <3>2
    <3>4. StateCoversHistory'
      BY <3>3 DEF StateCoversHistory, Covers
    <3> QED BY <3>1, <3>2, <3>4
  <2>3. CASE e.sample_count + 1 # WindowSize
    <3>1. d = Filling(e, v) /\ feature_sink' = feature_sink
      BY <1>3, <1>4, <2>3
    <3>2. Describes(Filling(e, v), g, g[1])
      <4> DEFINE first == g[1]
      <4>1. Describes(e, h, first)
        BY <2>1
      <4> HIDE DEF first
      <4>2. Describes(Filling(e, v), Append(h, v), first)
        BY <1>1, <2>3, <4>1, FillingDescribes
      <4> QED BY <4>2 DEF g, first
    <3>3. StateCoversHistory'
      BY <3>1 DEF SensorsInv, StateCoversHistory
    <3> QED BY <3>1, <3>2, <3>3
  <2> QED BY <2>2, <2>3
<1>7. ASSUME NEW x \in SensorKeys PROVE SensorOK(x)'
  <2>1. CASE x = k
    <3>1. n # -1
      BY DEF EntryNumbers
    <3> QED BY <1>2, <1>5, <1>6, <2>1, <3>1 DEF SensorOK
  <2>2. CASE x # k
    <3>1. s_hash'[x] = s_hash[x] /\ history'[x] = history[x] /\ SensorOK(x)
      BY <1>5, <2>2 DEF SensorsInv
    <3>2. CASE s_hash[x] = -1
      BY <3>1, <3>2 DEF SensorOK
    <3>3. CASE s_hash[x] # -1
      <4>1. s_hash'[x] # n
        BY <2>2, <3>1, <3>3 DEF OwnEntry
      <4>2. s_hash[x] \in EntryNumbers
        BY <3>3, EntryIs
      <4>3. entries'[s_hash'[x]] = entries[s_hash[x]]
        BY <1>5, <3>1, <4>1, <4>2
      <4> QED BY <3>1, <3>3, <4>3 DEF SensorOK
    <3> QED BY <3>2, <3>3
  <2> QED BY <2>1, <2>2
<1> QED BY <1>5, <1>6, <1>7 DEF SensorsInv

LEMMA ReadingKeeps ==
  ASSUME SensorsInv, NEW k \in SensorKeys, NEW v \in Int, handle_reading(k, v)
  PROVE  SensorsInv'
<1>1. /\ s_next \in 0 .. MaxSensors /\ s_hash \in [SensorKeys -> -1 .. s_next - 1]
      /\ MaxSensors \in Nat /\ s_hash[k] \in -1 .. s_next - 1
  <2>1. s_next \in 0 .. MaxSensors /\ s_hash \in [SensorKeys -> -1 .. s_next - 1]
    BY DEF SensorsInv, SensorTypes
  <2>2. s_hash[k] \in -1 .. s_next - 1
    BY <2>1
  <2> QED BY <2>1, <2>2, SensorSizes
<1>2. CASE Pool!Hit(k) /\ Record(s_hash[k], entries[s_hash[k]], k, v)
  <2>1. s_hash[k] # -1 /\ s_hash' = s_hash /\ s_next' = s_next
    BY <1>1, <1>2 DEF Pool!Hit, Pool!Tracked, Pool!vars
  <2>2. s_hash[k] \in EntryNumbers
    BY <2>1, EntryIs
  <2>3. /\ history[k] \in Seq(Int) /\ history[k] # <<>>
        /\ Describes(entries[s_hash[k]], history[k], history[k][1])
    BY <2>1 DEF SensorsInv, SensorTypes, SensorOK
  <2>4. Append(history[k], v)[1] = history[k][1]
    <3>1. 1 \in 1 .. Len(history[k])
      BY <2>3, EmptySeq, LenProperties
    <3> QED BY <2>3, <3>1, Grown
  <2>5. OwnEntry'
    BY <2>1 DEF SensorsInv, OwnEntry
  <2> QED BY <1>1, <1>2, <2>1, <2>2, <2>3, <2>4, <2>5, RecordKeeps
<1>3. CASE Pool!Alloc(k) /\ Record(s_hash'[k], NewEntry(v), k, v)
  <2>1. /\ s_hash[k] = -1 /\ s_next < MaxSensors
        /\ s_hash' = [s_hash EXCEPT ![k] = s_next] /\ s_next' = s_next + 1
    BY <1>1, <1>3 DEF Pool!Alloc, Pool!Tracked
  <2>2. /\ s_next' \in 0 .. MaxSensors /\ s_next \in EntryNumbers
        /\ s_hash' \in [SensorKeys -> -1 .. s_next' - 1] /\ s_hash'[k] = s_next
        /\ \A x \in SensorKeys \ {k} : s_hash'[x] = s_hash[x] /\ s_hash[x] # s_next
    BY <1>1, <2>1 DEF EntryNumbers
  <2>3. OwnEntry'
    BY <2>2 DEF SensorsInv, OwnEntry
  <2>4. history[k] = <<>>
    BY <2>1 DEF SensorsInv, SensorOK
  <2>5. Append(history[k], v)[1] = v
    BY <2>4
  <2>6. Describes(NewEntry(v), history[k], Append(history[k], v)[1])
    BY <2>4, <2>5, NewDescribes
  <2> QED BY <1>3, <2>2, <2>3, <2>6, RecordKeeps
<1>4. CASE Pool!NoEntry(k) /\ UNCHANGED <<entries, feature_sink, history, readings>>
  <2>1. UNCHANGED <<s_hash, s_next, entries, feature_sink, history>>
    BY <1>4 DEF Pool!NoEntry, Pool!vars
  <2> QED BY <2>1, SensorsSame
<1> QED BY <1>2, <1>3, <1>4 DEF handle_reading

LEMMA ValueIs ==
  ASSUME ResponseOK, resp # None, r < Len(resp.regs)
  PROVE  sensor_val \in Int /\ key \in SensorKeys
<1>1. \A v \in RegVals : v \in Int /\ Signed16(v) \in Int
  <2>1. \A v \in Words : v \in Int /\ Signed16(v) \in Int
    BY RegisterIs
  <2>2. RegVals \subseteq Words
    BY BenchModbusAssumption
  <2> QED BY <2>1, <2>2
<1>2. /\ r \in Nat /\ resp.unit \in Units /\ resp.start \in Int
      /\ resp.regs \in Seq(RegVals) /\ Len(resp.regs) \in Nat
  BY LenProperties DEF ResponseOK
<1>3. \A j \in 1 .. Len(resp.regs) : resp.regs[j] \in RegVals
  BY <1>2, ElementOfSeq
<1>4. sensor_val \in Int
  <2>1. CASE Paired
    <3>1. r + 2 \in 1 .. Len(resp.regs)
      BY <1>2, <2>1 DEF Paired
    <3> QED BY <1>1, <1>3, <2>1, <3>1 DEF sensor_val
  <2>2. CASE ~Paired
    <3>1. r + 1 \in 1 .. Len(resp.regs)
      BY <1>2
    <3> QED BY <1>1, <1>3, <2>2, <3>1 DEF sensor_val
  <2> QED BY <2>1, <2>2
<1>5. key \in SensorKeys
  <2>1. AddrSpace \in Nat \ {0} /\ resp.start + r \in Int
    BY <1>2, SensorSizes
  <2>2. (resp.start + r) % AddrSpace \in 0 .. AddrSpace - 1
    BY <2>1, DivMod
  <2> QED BY <1>2, <2>2 DEF key, SensorKeys
<1> QED BY <1>4, <1>5

LEMMA SensorsAtFirst == ASSUME MbInit PROVE SensorsInv /\ ResponseOK
<1>1. /\ resp = None /\ r = 0 /\ feature_sink = None
      /\ s_hash = [k \in SensorKeys |-> -1] /\ s_next = 0
      /\ entries = [n \in EntryNumbers |-> NewEntry(0)]
      /\ history = [k \in SensorKeys |-> <<>>]
  BY DEF MbInit, Pool!Init, EntryNumbers
<1>2. MaxSensors \in Nat /\ <<>> \in Seq(Int)
  BY SensorSizes
<1>3. SensorTypes
  BY <1>1, <1>2 DEF SensorTypes
<1>4. OwnEntry /\ \A k \in SensorKeys : SensorOK(k)
  BY <1>1 DEF OwnEntry, SensorOK
<1>5. StateCoversHistory
  BY <1>1 DEF StateCoversHistory
<1>6. ResponseOK
  BY <1>1 DEF ResponseOK
<1> QED BY <1>3, <1>4, <1>5, <1>6 DEF SensorsInv

LEMMA SensorsKept ==
  ASSUME RingInv, SensorsInv, ResponseOK, [MbNext]_mb_vars
  PROVE  SensorsInv' /\ ResponseOK'
<1>1. ASSUME UNCHANGED <<sensors, resp, r>> PROVE SensorsInv' /\ ResponseOK'
  <2>1. SensorsInv'
    BY <1>1, SensorsSame DEF sensors
  <2> QED BY <1>1, <2>1 DEF ResponseOK
<1>2. ASSUME NEW q \in asked, NEW again \in BOOLEAN, NEW m \in 0 .. MaxRegs,
             NEW regs \in [1 .. m -> RegVals], RecvResponse(q, regs, again)
      PROVE  SensorsInv' /\ ResponseOK'
  <2>1. PICK j \in DOMAIN pending :
          resp' = [unit |-> q.key[2], start |-> pending[j].start,
                   regs |-> regs, genuine |-> q.start]
    BY <1>2 DEF RecvResponse
  <2>2. q.key[2] \in Units
    BY DEF RingInv, RingOK, Requests, ReqKeys
  <2>3. pending[j].start \in Int
    <3>1. AddrSpace \in Nat /\ Addrs \subseteq 0 .. AddrSpace - 1
      BY SensorSizes
    <3>2. pending[j].start \in Addrs \cup {0}
      BY DEF RingInv, RingOK, Asks
    <3>3. \A a \in Addrs \cup {0} : a \in Int
      BY <3>1
    <3> QED BY <3>2, <3>3
  <2>4. regs \in Seq(RegVals)
    <3>1. m \in Nat
      BY SensorSizes
    <3> QED BY <3>1
  <2>5. r' = 0 /\ UNCHANGED sensors
    BY <1>2 DEF RecvResponse
  <2>6. ResponseOK'
    BY <2>1, <2>2, <2>3, <2>4, <2>5 DEF ResponseOK
  <2> QED BY <2>5, <2>6, SensorsSame DEF sensors
<1>3. ASSUME ReadRegister PROVE SensorsInv' /\ ResponseOK'
  <2>1. sensor_val \in Int /\ key \in SensorKeys
    BY <1>3, ValueIs DEF ReadRegister
  <2>2. handle_reading(key, sensor_val)
    BY <1>3 DEF ReadRegister
  <2>3. SensorsInv'
    BY <2>1, <2>2, ReadingKeeps
  <2>4. ResponseOK'
    BY <1>3 DEF ReadRegister, ring, ResponseOK
  <2> QED BY <2>3, <2>4
<1>4. ASSUME ResponseDone PROVE SensorsInv' /\ ResponseOK'
  <2>1. SensorsInv'
    BY <1>4, SensorsSame DEF ResponseDone, sensors
  <2> QED BY <1>4, <2>1 DEF ResponseDone, ResponseOK
<1>5. CASE \/ MbIdle \/ UNCHANGED mb_vars
           \/ \E k \in ReqKeys, a \in Addrs, sent \in BOOLEAN : RecvRequest(k, a, sent)
           \/ \E q \in asked : \/ RecvIgnored(q)
                              \/ \E again \in BOOLEAN : RecvUnmatched(q, again)
  <2>1. UNCHANGED <<sensors, resp, r>>
    BY <1>5 DEF MbIdle, mb_vars, RecvRequest, RecvIgnored, RecvUnmatched
  <2> QED BY <1>1, <2>1
<1> QED BY <1>2, <1>3, <1>4, <1>5 DEF MbNext

(***************************************************************************)
(* The state a sensor keeps across windows says of all its readings what   *)
(* it is meant to (compute_features and handle_reading of the benchmark),  *)
(* for every size of window and of pool, every content of the registers    *)
(* and any number of readings: the EWMA compared with is the previous      *)
(* window's, and the mean is the mean of every reading.                    *)
(***************************************************************************)
THEOREM BenchStateCovers == MbSpec => []StateCoversHistory
<1> DEFINE Inv == RingInv /\ SensorsInv /\ ResponseOK
<1>1. MbInit => Inv
  BY RingAtFirst, SensorsAtFirst
<1>2. Inv /\ [MbNext]_mb_vars => Inv'
  BY RingKept, SensorsKept
<1>3. Inv => StateCoversHistory
  BY DEF SensorsInv
<1> QED BY <1>1, <1>2, <1>3, PTL DEF MbSpec

-----------------------------------------------------------------------------
(* The kernels: the scratch memory *)

\* The cells a layer of n neurons takes up in an activation buffer.
Cells(n) == IF model.kind = "mlp" THEN n ELSE WordsFor(n)
Reads == in .. in + Cells(size(l)) - 1
Writes == out .. out + Cells(size(l + 1)) - 1

Buffers == \/ in = 0 /\ out = BufB
           \/ in = BufB /\ out = 0
           \/ Hardcoded /\ l = 1 /\ in = Input /\ out = 0

Layered == model.kind \in {"mlp", "bnn"}

KernelTypeOK ==
    /\ model \in Models
    /\ phase \in {"ready", "layer", "argmax"}
    /\ phase # "ready" => Layered
    /\ phase = "layer" => /\ l \in 1 .. Layers /\ o \in 0 .. size(l + 1) - 1
                          /\ Buffers

ScratchInv == KernelTypeOK /\ StaysInScratch

\* The sizes of a network, all of them within the greatest.
LEMMA NetworkSizes ==
  ASSUME KernelAssumption, model \in Models, Layered
  PROVE  /\ IsNetwork(model)
         /\ Layers \in Nat \ {0} /\ MaxSize \in Nat \ {0}
         /\ \A n \in 1 .. Layers + 1 : size(n) \in Nat \ {0} /\ size(n) <= MaxSize
         /\ Dim(model) = size(1)
<1>1. IsNetwork(model)
  BY DEF KernelAssumption, Layered
<1>2. Layers \in Nat \ {0}
  BY <1>1, LenProperties DEF IsNetwork, Layers
<1>3. model.sizes \in [1 .. Layers + 1 -> Nat \ {0}]
  BY <1>1 DEF IsNetwork, Layers
<1>4. \A n \in 1 .. Layers + 1 : size(n) \in Nat \ {0}
  BY <1>3 DEF size
<1>5. PICK hi \in Nat : \A n \in 1 .. Layers + 1 : size(n) <= hi
  <2>1. Layers + 1 \in Nat /\ \A n \in 1 .. Layers + 1 : model.sizes[n] \in Nat
    BY <1>2, <1>4 DEF size
  <2> QED BY <2>1, GreatestSize DEF size
<1>6. Range(model.sizes) = {size(n) : n \in 1 .. Layers + 1}
  BY <1>3 DEF Range, size
<1> DEFINE V == {size(n) : n \in 1 .. Layers + 1}
<1>7. /\ V \in SUBSET Int /\ size(1) \in V /\ V \subseteq Nat \ {0}
      /\ \A v \in V : v <= hi
  BY <1>2, <1>4, <1>5
<1>8. Max(V) \in V /\ \A v \in V : v <= Max(V)
  <2>1. V # {} /\ hi \in Int
    BY <1>7
  <2> HIDE DEF V
  <2> QED BY <1>7, <2>1, MaxIs
<1>9. MaxSize = Max(V)
  BY <1>6 DEF MaxSize
<1>10. MaxSize \in Nat \ {0}
  BY <1>7, <1>8, <1>9
<1>11. \A n \in 1 .. Layers + 1 : size(n) <= MaxSize
  BY <1>8, <1>9
<1>12. Dim(model) = size(1)
  <2>1. model.mean \in [1 .. size(1) -> Int] /\ size(1) \in Nat
    BY <1>1, <1>2, <1>4 DEF IsNetwork, size
  <2>2. model.mean \in Seq(Int)
    BY <2>1
  <2> QED BY <2>1, <2>2, LenProperties DEF Dim
<1> QED BY <1>1, <1>2, <1>4, <1>10, <1>11, <1>12

\* A word more for every WordBits bits, or a part of them.
LEMMA WordsEnough ==
  ASSUME KernelAssumption, NEW n \in Nat
  PROVE  /\ WordsFor(n) \in Nat
         /\ \A k \in 0 .. n - 1 : k \div WordBits \in 0 .. WordsFor(n) - 1
         /\ \A k \in Nat : k <= n => WordsFor(k) <= WordsFor(n)
         /\ n <= WordBits * WordsFor(n)
         /\ WordBits * WordsFor(n) < n + WordBits
<1> DEFINE b == WordBits
           U(k) == (k + b - 1) \div b
<1>1. b \in Nat \ {0}
  BY DEF KernelAssumption
<1> HIDE DEF b
<1>2. ASSUME NEW k \in Nat
      PROVE  U(k) \in Nat /\ k <= b * U(k) /\ b * U(k) < k + b
  <2> DEFINE a == k + b - 1
             q == a \div b
             s == a % b
  <2>1. a \in Nat /\ a = k + b - 1
    BY <1>1
  <2> HIDE DEF a
  <2>2. s \in 0 .. b - 1 /\ q \in Int /\ a = b * q + s
    BY <1>1, <2>1, DivMod
  <2>3. U(k) = q
    BY DEF a
  <2> HIDE DEF q, s, U
  <2>4. b * q \in Int
    BY <1>1, <2>2
  <2>5. k <= b * q /\ b * q < k + b
    BY <1>1, <2>1, <2>2, <2>4
  <2>6. ~(q < 0)
    <3> SUFFICES ASSUME q < 0 PROVE FALSE
      OBVIOUS
    <3>1. b * q + b <= b * 0 /\ b * 0 = 0
      BY <1>1, <2>2, Multiples
    <3> QED BY <1>1, <2>4, <2>5, <3>1
  <2> QED BY <2>2, <2>3, <2>5, <2>6
<1>3. ASSUME NEW k \in 0 .. n - 1 PROVE k \div b \in 0 .. U(n) - 1
  <2> DEFINE q == k \div b
             s == k % b
             u == U(n)
  <2>1. s \in 0 .. b - 1 /\ q \in Int /\ k = b * q + s
    BY <1>1, DivMod
  <2>2. u \in Nat /\ n <= b * u
    BY <1>2
  <2> HIDE DEF q, s, u
  <2>3. b * q \in Int /\ b * u \in Int
    BY <1>1, <2>1, <2>2
  <2>4. ~(q < 0)
    <3> SUFFICES ASSUME q < 0 PROVE FALSE
      OBVIOUS
    <3>1. b * q + b <= b * 0 /\ b * 0 = 0
      BY <1>1, <2>1, Multiples
    <3> QED BY <1>1, <2>1, <2>3, <3>1
  <2>5. ~(u < q)
    <3> SUFFICES ASSUME u < q PROVE FALSE
      OBVIOUS
    <3>1. b * u + b <= b * q
      BY <1>1, <2>1, <2>2, Multiples
    <3> QED BY <1>1, <2>1, <2>2, <2>3, <3>1
  <2>6. u # q
    BY <2>1, <2>2, <2>3, <1>1
  <2>7. q \in 0 .. u - 1
    BY <2>1, <2>2, <2>4, <2>5, <2>6
  <2> QED BY <2>7 DEF q, u
<1>4. ASSUME NEW k \in Nat, k <= n PROVE U(k) <= U(n)
  <2> DEFINE v == U(k)
             u == U(n)
  <2>1. v \in Nat /\ b * v < k + b /\ u \in Nat /\ n <= b * u
    BY <1>2
  <2> HIDE DEF u, v
  <2>2. b * v \in Int /\ b * u \in Int
    BY <1>1, <2>1
  <2>3. ~(u < v)
    <3> SUFFICES ASSUME u < v PROVE FALSE
      OBVIOUS
    <3>1. b * u + b <= b * v
      BY <1>1, <2>1, Multiples
    <3> QED BY <1>1, <1>4, <2>1, <2>2, <3>1
  <2>4. v <= u
    BY <2>1, <2>3
  <2> QED BY <2>4 DEF u, v
<1>5. /\ U(n) \in Nat /\ n <= b * U(n) /\ b * U(n) < n + b
  BY <1>2
<1> HIDE DEF U
<1>6. \A k \in 0 .. n - 1 : k \div b \in 0 .. U(n) - 1
  BY <1>3
<1>7. \A k \in Nat : k <= n => U(k) <= U(n)
  BY <1>4
<1> QED BY <1>5, <1>6, <1>7 DEF WordsFor, U, b

\* A layer fits into a buffer, and the buffers into the memory asked for.
LEMMA CellsFit ==
  ASSUME KernelAssumption, model \in Models, Layered
  PROVE  /\ ScratchCells \in Nat /\ BufB \in Nat \ {0}
         /\ \A n \in 1 .. Layers + 1 :
               Cells(size(n)) \in Nat /\ Cells(size(n)) <= BufB
         /\ 2 * BufB <= ScratchCells
         /\ Hardcoded => /\ model.kind = "mlp" /\ Input = 2 * BufB
                         /\ Input + size(1) = ScratchCells
         /\ model.kind = "bnn" => /\ Scores = 2 * BufB
                                  /\ Scores + MaxSize = ScratchCells
<1>1. /\ Layers \in Nat \ {0} /\ MaxSize \in Nat \ {0}
      /\ \A n \in 1 .. Layers + 1 : size(n) \in Nat \ {0} /\ size(n) <= MaxSize
  BY NetworkSizes
<1>2. Hardcoded => model.kind = "mlp"
  BY NetworkSizes DEF IsNetwork, Hardcoded
<1>3. CASE model.kind = "mlp"
  <2>1. BufB = MaxSize /\ Input = 2 * MaxSize /\ \A n : Cells(n) = n
    BY <1>3 DEF BufB, Input, Cells
  <2>2. ScratchCells = IF Hardcoded THEN 2 * MaxSize + size(1) ELSE 2 * MaxSize
    BY <1>3 DEF ScratchCells
  <2>3. size(1) \in Nat \ {0}
    BY <1>1
  <2> QED BY <1>1, <1>3, <2>1, <2>2, <2>3
<1>4. CASE model.kind = "bnn"
  <2>1. BufB = WordsFor(MaxSize) /\ \A n : Cells(n) = WordsFor(n)
    BY <1>4 DEF BufB, Cells
  <2>2. Scores = 2 * BufB /\ ScratchCells = 2 * BufB + MaxSize
    BY <1>4, <2>1 DEF Scores, ScratchCells
  <2>3. WordsFor(MaxSize) \in Nat \ {0}
    <3>1. 0 \div WordBits \in 0 .. WordsFor(MaxSize) - 1 /\ WordsFor(MaxSize) \in Nat
      <4>1. 0 \in 0 .. MaxSize - 1
        BY <1>1
      <4> QED BY <1>1, <4>1, WordsEnough
    <3> QED BY <3>1
  <2>4. \A n \in 1 .. Layers + 1 :
           WordsFor(size(n)) \in Nat /\ WordsFor(size(n)) <= WordsFor(MaxSize)
    BY <1>1, WordsEnough
  <2> QED BY <1>1, <1>2, <1>4, <2>1, <2>2, <2>3, <2>4
<1> QED BY <1>3, <1>4 DEF Layered

\* The memory is cleared before the first prediction.
LEMMA InitScratch ==
  ASSUME KernelAssumption, KernelInit PROVE ScratchInv
<1>1. KernelTypeOK
  BY DEF KernelInit, KernelTypeOK
<1>2. StaysInScratch
  BY DEF KernelInit, Cleared, StaysInScratch
<1> QED BY <1>1, <1>2 DEF ScratchInv

\* Writing cells of the memory adds none.
LEMMA StoredCells ==
  ASSUME NEW cells, NEW mem, NEW n, DOMAIN mem = 0 .. n - 1,
         DOMAIN cells \subseteq 0 .. n - 1
  PROVE  DOMAIN Stored(cells, mem) = 0 .. n - 1
BY DEF Stored

\* The layout is the model's.
LEMMA LayoutKept ==
  ASSUME UNCHANGED model
  PROVE  /\ Layers' = Layers /\ BufB' = BufB /\ Input' = Input
         /\ ScratchCells' = ScratchCells
         /\ Hardcoded' = Hardcoded /\ Layered' = Layered
BY DEF Layers, BufB, Input, ScratchCells, Hardcoded, Layered, size, MaxSize, WordsFor

\* The layer is done, or it goes on: where the next step finds things.
LEMMA AdvanceKeeps ==
  ASSUME KernelAssumption, KernelTypeOK, phase = "layer", NEW n \in Nat \ {0},
         Advance(n), UNCHANGED model
  PROVE  KernelTypeOK'
<1>1. /\ model \in Models /\ Layered /\ l \in 1 .. Layers
      /\ o \in 0 .. model.sizes[l + 1] - 1 /\ Buffers
  BY DEF KernelTypeOK, size
<1>2. /\ Layers \in Nat \ {0}
      /\ \A k \in 1 .. Layers + 1 : model.sizes[k] \in Nat \ {0}
  BY <1>1, NetworkSizes DEF size
<1>3. /\ BufB \in Nat \ {0}
      /\ Hardcoded => Input = 2 * BufB /\ BufB = MaxSize
  BY <1>1, CellsFit DEF BufB
<1>4. SUFFICES /\ phase' \in {"ready", "layer", "argmax"}
               /\ phase' = "layer" => /\ l' \in 1 .. Layers
                                      /\ o' \in 0 .. model.sizes[l' + 1] - 1
                                      /\ Buffers'
  BY <1>1, LayoutKept DEF KernelTypeOK, size
<1>5. CASE o + n < model.sizes[l + 1]
  <2>1. o' = o + n /\ UNCHANGED <<l, in, out, phase>>
    BY <1>5 DEF Advance, size
  <2>2. model.sizes[l + 1] \in Nat \ {0}
    BY <1>1, <1>2
  <2>3. o' \in 0 .. model.sizes[l + 1] - 1
    BY <1>1, <1>5, <2>1, <2>2
  <2>4. Buffers'
    BY <1>1, <2>1, LayoutKept DEF Buffers
  <2> QED BY <1>1, <2>1, <2>3, <2>4
<1>6. CASE ~(o + n < model.sizes[l + 1])
  <2>1. /\ o' = 0 /\ in' = out
        /\ out' = IF Hardcoded /\ in = Input THEN MaxSize ELSE in
        /\ phase' \in {"layer", "argmax"}
        /\ phase' = "layer" => l # Layers /\ l' = l + 1
    BY <1>6 DEF Advance, size
  <2>2. ASSUME phase' = "layer"
        PROVE  l' \in 1 .. Layers /\ o' \in 0 .. model.sizes[l' + 1] - 1
    <3>1. l' \in 1 .. Layers /\ l' + 1 \in 1 .. Layers + 1
      BY <1>1, <1>2, <2>1, <2>2
    <3>2. model.sizes[l' + 1] \in Nat \ {0}
      BY <1>2, <3>1
    <3> QED BY <2>1, <3>1, <3>2
  <2>3. Buffers'
    <3>1. CASE Hardcoded /\ in = Input
      <4>1. out = 0
        BY <1>1, <1>3, <3>1 DEF Buffers
      <4>2. in' = 0 /\ out' = BufB
        BY <1>3, <2>1, <3>1, <4>1
      <4> QED BY <4>2, LayoutKept DEF Buffers
    <3>2. CASE ~(Hardcoded /\ in = Input)
      <4>1. out' = in /\ in' = out
        BY <2>1, <3>2
      <4>2. \/ in = 0 /\ out = BufB
            \/ in = BufB /\ out = 0
        BY <1>1, <3>2 DEF Buffers
      <4> QED BY <4>1, <4>2, LayoutKept DEF Buffers
    <3> QED BY <3>1, <3>2
  <2> QED BY <1>1, <2>1, <2>2, <2>3
<1> QED BY <1>5, <1>6

\* The packed or copied input lies in the first buffer.
LEMMA EntryKeeps ==
  ASSUME KernelAssumption, KernelTypeOK, StaysInScratch, NEW v \in Vectors, Predict(v)
  PROVE  KernelTypeOK' /\ StaysInScratch'
<1> DEFINE s == IF model.kernel = "hardcoded_raw" THEN v ELSE Scaled(model, v)
<1>1. /\ model \in Models /\ model.kind # "rf" /\ Entry(s) /\ UNCHANGED model
  BY DEF Predict, Entry, KernelTypeOK
<1>2. Layered
  BY <1>1 DEF KernelAssumption, Layered
<1>3. /\ Layers \in Nat \ {0}
      /\ \A k \in 1 .. Layers + 1 : size(k) \in Nat \ {0}
      /\ Dim(model) = size(1)
  BY <1>1, <1>2, NetworkSizes
<1>4. /\ ScratchCells \in Nat /\ BufB \in Nat \ {0}
      /\ Cells(size(1)) \in Nat /\ Cells(size(1)) <= BufB
      /\ 2 * BufB <= ScratchCells
      /\ Hardcoded => /\ model.kind = "mlp" /\ Input = 2 * BufB
                      /\ Input + size(1) = ScratchCells
  BY <1>1, <1>2, <1>3, CellsFit
<1>5. /\ Layers' = Layers /\ BufB' = BufB /\ Input' = Input
      /\ Hardcoded' = Hardcoded /\ Layered' = Layered /\ ScratchCells' = ScratchCells
  BY <1>1, LayoutKept
<1>6. KernelTypeOK'
  <2>1. phase' = "layer" /\ l' = 1 /\ o' = 0
    BY <1>1 DEF Entry
  <2>2. Buffers'
    <3>1. CASE Hardcoded
      <4>1. in' = Input /\ out' = 0
        BY <1>1, <3>1 DEF Entry
      <4> QED BY <1>5, <2>1, <3>1, <4>1 DEF Buffers
    <3>2. CASE ~Hardcoded
      <4>1. in' = 0 /\ out' = BufB
        BY <1>1, <3>2 DEF Entry
      <4> QED BY <1>5, <4>1 DEF Buffers
    <3> QED BY <3>1, <3>2
  <2>3. 1 + 1 = 2 /\ 2 \in 1 .. Layers + 1 /\ model.sizes[2] \in Nat \ {0}
    BY <1>3 DEF size
  <2>4. 0 \in 0 .. model.sizes[1 + 1] - 1 /\ 1 \in 1 .. Layers
    BY <1>3, <2>3
  <2> QED BY <1>1, <1>2, <1>5, <2>1, <2>2, <2>4 DEF KernelTypeOK, size
<1>7. StaysInScratch'
  <2> DEFINE cells == IF model.kind # "mlp" THEN pack_input_bits(s)
                      ELSE IF Hardcoded
                      THEN [c \in Input .. Input + Dim(model) - 1 |->
                               s[c - Input + 1]]
                      ELSE memcpy(s)
  <2>1. scratch' = Stored(cells, scratch)
    BY <1>1 DEF Entry
  <2>2. DOMAIN cells \subseteq 0 .. ScratchCells - 1
    <3>1. CASE model.kind # "mlp"
      <4>1. cells = pack_input_bits(s)
        BY <3>1
      <4> HIDE DEF cells
      <4>2. DOMAIN cells = 0 .. Cells(size(1)) - 1
        BY <1>3, <3>1, <4>1 DEF pack_input_bits, Cells
      <4> QED BY <1>4, <4>2
    <3>2. CASE model.kind = "mlp" /\ Hardcoded
      <4>1. DOMAIN cells = Input .. Input + Dim(model) - 1
        BY <3>2
      <4>2. size(1) \in Nat \ {0}
        BY <1>3
      <4> QED BY <1>3, <1>4, <3>2, <4>1, <4>2
    <3>3. CASE model.kind = "mlp" /\ ~Hardcoded
      <4>1. cells = memcpy(s)
        BY <3>3
      <4> HIDE DEF cells
      <4>2. DOMAIN cells = 0 .. Cells(size(1)) - 1
        BY <1>3, <3>3, <4>1 DEF memcpy, Cells
      <4> QED BY <1>4, <4>2
    <3> QED BY <3>1, <3>2, <3>3
  <2> HIDE DEF cells
  <2>3. DOMAIN Stored(cells, scratch) = 0 .. ScratchCells - 1
    BY <2>2, StoredCells DEF StaysInScratch
  <2> QED BY <1>5, <2>1, <2>3 DEF StaysInScratch
<1> QED BY <1>6, <1>7

\* The outputs that Write writes are of this layer.
LEMMA WriteKeeps ==
  ASSUME KernelAssumption, KernelTypeOK, StaysInScratch, phase = "layer",
         model.kind = "mlp", NEW n \in Nat \ {0}, Room(n), NEW acc, Write(n, acc)
  PROVE  KernelTypeOK' /\ StaysInScratch'
<1>1. /\ model \in Models /\ Layered /\ l \in 1 .. Layers
      /\ o \in 0 .. size(l + 1) - 1 /\ Buffers
  BY DEF KernelTypeOK
<1>2. KernelTypeOK'
  BY AdvanceKeeps DEF Write
<1>3. Layers \in Nat \ {0} /\ l + 1 \in 1 .. Layers + 1 /\ size(l + 1) \in Nat \ {0}
  <2>1. Layers \in Nat \ {0}
    BY <1>1, NetworkSizes
  <2>2. l + 1 \in 1 .. Layers + 1
    BY <1>1, <2>1
  <2> QED BY <1>1, <2>1, <2>2, NetworkSizes
<1>4. /\ ScratchCells \in Nat /\ BufB \in Nat \ {0} /\ size(l + 1) <= BufB
      /\ 2 * BufB <= ScratchCells
  BY <1>1, <1>3, CellsFit DEF Cells
<1>5. out \in {0, BufB}
  BY <1>1 DEF Buffers
<1>6. out + o .. out + o + n - 1 \subseteq 0 .. ScratchCells - 1
  BY <1>1, <1>3, <1>4, <1>5 DEF Room
<1>7. StaysInScratch'
  <2> DEFINE cells == [c \in out + o .. out + o + n - 1 |-> Activated(acc[c - out])]
  <2>1. scratch' = Stored(cells, scratch) /\ model' = model
    BY DEF Write
  <2>2. DOMAIN cells \subseteq 0 .. ScratchCells - 1
    BY <1>6
  <2> HIDE DEF cells
  <2>3. DOMAIN Stored(cells, scratch) = 0 .. ScratchCells - 1
    BY <2>2, StoredCells DEF StaysInScratch
  <2>4. ScratchCells' = ScratchCells
    BY <2>1 DEF ScratchCells, Hardcoded, MaxSize, size, WordsFor
  <2> QED BY <2>1, <2>3, <2>4 DEF StaysInScratch
<1> QED BY <1>2, <1>7

\* A tile ends where the layer does, or before.
LEMMA TileFits ==
  ASSUME KernelAssumption, NEW n \in Nat, NEW b \in block_plan(n)
  PROVE  b[1] \in Nat /\ b[2] \in Nat \ {0} /\ b[1] + b[2] <= n
<1> DEFINE f == 4 * Lanes
           d == 2 * Lanes
           r16 == n % f
           r8 == n % d
           p == n \div f
<1>1. /\ Lanes \in Nat \ {0} /\ f \in Nat \ {0} /\ d \in Nat \ {0}
      /\ f = 4 * Lanes /\ d = 2 * Lanes /\ n \in Int
  BY DEF KernelAssumption
<1> HIDE DEF f, d
<1>2. r16 \in 0 .. f - 1 /\ p \in Int /\ n = f * p + r16
  BY <1>1, DivMod
<1>3. r8 \in 0 .. d - 1 /\ n = d * (n \div d) + r8 /\ n \div d \in Int
  BY <1>1, DivMod
<1> HIDE DEF r16, r8, p
<1>4. f * p \in Int /\ d * (n \div d) \in Int /\ r8 <= n /\ r16 <= n
  <2>1. \A c \in Nat \ {0} : n % c <= n
    <3> TAKE c \in Nat \ {0}
    <3>1. n % c \in 0 .. c - 1 /\ n \div c \in Int /\ n = c * (n \div c) + (n % c)
      BY DivMod
    <3> DEFINE q == n \div c
               s == n % c
    <3> HIDE DEF q, s
    <3>2. q \in Int /\ s \in 0 .. c - 1 /\ n = c * q + s
      BY <3>1 DEF q, s
    <3>3. ~(q < 0)
      <4> SUFFICES ASSUME q < 0 PROVE FALSE
        OBVIOUS
      <4>1. c * q + c <= c * 0 /\ c * 0 = 0 /\ c * q \in Int
        BY <3>2, Multiples
      <4> QED BY <3>2, <4>1
    <3>4. c * q \in Nat
      BY <3>2, <3>3
    <3>5. s <= n
      BY <3>2, <3>4
    <3> QED BY <3>5 DEF s
  <2>2. r16 <= n /\ r8 <= n
    BY <1>1, <2>1 DEF r8, r16
  <2>3. f * p \in Int /\ d * (n \div d) \in Int
    <3> DEFINE e == n \div d
    <3> HIDE DEF e
    <3>1. f * p \in Int /\ d * e \in Int
      BY <1>1, <1>2, <1>3 DEF e
    <3> QED BY <3>1 DEF e
  <2> QED BY <2>2, <2>3
<1>5. \/ \E j \in 0 .. n - r16 - 1 : j % f = 0 /\ b = <<j, f>>
      \/ r16 >= d /\ b = <<n - r16, d>>
      \/ r8 >= Lanes /\ b = <<n - r8, Lanes>>
  BY DEF block_plan, f, d, r16, r8
<1>6. ASSUME NEW j \in 0 .. n - r16 - 1, j % f = 0, b = <<j, f>>
      PROVE  b[1] \in Nat /\ b[2] \in Nat \ {0} /\ b[1] + b[2] <= n
  <2> DEFINE q == j \div f
  <2>1. q \in Int /\ j = f * q
    <3>0. j \in Int
      BY <1>1, <1>2
    <3>1. j = f * (j \div f) + (j % f) /\ j \div f \in Int
      BY <1>1, <3>0, DivMod
    <3>2. f * (j \div f) \in Int
      BY <1>1, <3>1
    <3> QED BY <1>6, <3>0, <3>1, <3>2
  <2> HIDE DEF q
  <2>2. f * q \in Int /\ f * q < f * p
    BY <1>1, <1>2, <1>4, <2>1
  <2>3. ~(p < q) /\ p # q
    <3>1. ASSUME p < q PROVE FALSE
      <4>1. f * p + f <= f * q
        BY <1>1, <1>2, <2>1, <3>1, Multiples
      <4> QED BY <1>1, <1>4, <2>2, <4>1
    <3>2. p # q
      BY <1>4, <2>2
    <3> QED BY <3>1, <3>2
  <2>4. q < p
    BY <1>2, <2>1, <2>3
  <2>5. f * q + f <= f * p
    BY <1>1, <1>2, <2>1, <2>4, Multiples
  <2> QED BY <1>1, <1>2, <1>4, <1>6, <2>1, <2>2, <2>5
<1>7. ASSUME r16 >= d, b = <<n - r16, d>>
      PROVE  b[1] \in Nat /\ b[2] \in Nat \ {0} /\ b[1] + b[2] <= n
  BY <1>1, <1>2, <1>4, <1>7
<1>8. ASSUME r8 >= Lanes, b = <<n - r8, Lanes>>
      PROVE  b[1] \in Nat /\ b[2] \in Nat \ {0} /\ b[1] + b[2] <= n
  BY <1>1, <1>3, <1>4, <1>8
<1> QED BY <1>5, <1>6, <1>7, <1>8

\* Every kernel for layers writes as many outputs as there is room for.
LEMMA LayerWrites ==
  ASSUME KernelAssumption, KernelTypeOK,
         \/ mlp_layer_neon \/ mlp_layer_scalar \/ layer_forward_avx2
         \/ emit_wide_block \/ emit_dot_outputs
  PROVE  /\ phase = "layer" /\ model.kind = "mlp"
         /\ \E n \in Nat \ {0} : \E acc : Room(n) /\ Write(n, acc)
<1>1. phase = "layer" /\ model.kind = "mlp"
  BY DEF mlp_layer_neon, mlp_layer_scalar, layer_forward_avx2, emit_wide_block,
         emit_dot_outputs, Turn
<1>2. /\ model \in Models /\ Layered /\ l \in 1 .. Layers
      /\ o \in 0 .. size(l + 1) - 1
  BY <1>1 DEF KernelTypeOK
<1>3. size(l + 1) \in Nat \ {0}
  <2>1. Layers \in Nat \ {0} /\ \A k \in 1 .. Layers + 1 : size(k) \in Nat \ {0}
    BY <1>2, NetworkSizes
  <2> QED BY <1>2, <2>1
<1>4. Room(1)
  BY <1>2, <1>3 DEF Room
<1>5. Lanes \in Nat \ {0} /\ 2 * Lanes \in Nat \ {0}
  BY DEF KernelAssumption
<1>6. CASE \/ mlp_layer_neon \/ mlp_layer_scalar \/ layer_forward_avx2
  <2>1. \/ Outputs(1)
        \/ Outputs(Lanes) /\ Room(Lanes)
        \/ Outputs(2 * Lanes) /\ Room(2 * Lanes)
    BY <1>6 DEF mlp_layer_neon, mlp_layer_scalar, layer_forward_avx2
  <2>2. \E n \in Nat \ {0} : Room(n) /\ Outputs(n)
    BY <1>4, <1>5, <2>1
  <2> QED BY <1>1, <2>2 DEF Outputs
<1>7. CASE emit_wide_block
  <2>1. PICK b \in block_plan(size(l + 1)) : b[1] = o /\ \E acc : Write(b[2], acc)
    BY <1>7 DEF emit_wide_block
  <2>2. b[2] \in Nat \ {0} /\ Room(b[2])
    BY <1>3, <2>1, TileFits DEF Room
  <2> QED BY <1>1, <2>1, <2>2
<1>8. CASE emit_dot_outputs
  <2>1. \E acc : Write(1, acc)
    BY <1>8 DEF emit_dot_outputs
  <2> QED BY <1>1, <1>4, <2>1
<1> QED BY <1>6, <1>7, <1>8

\* The words and the scores of a BNN lie in the memory.
LEMMA BnnLayerKeeps ==
  ASSUME KernelAssumption, KernelTypeOK, StaysInScratch, bnn_layer
  PROVE  KernelTypeOK' /\ StaysInScratch'
<1>1. /\ phase = "layer" /\ model.kind = "bnn" /\ Advance(1) /\ UNCHANGED model
      /\ model \in Models /\ Layered /\ l \in 1 .. Layers
      /\ o \in 0 .. size(l + 1) - 1 /\ Buffers
  BY DEF bnn_layer, KernelTypeOK
<1>2. KernelTypeOK'
  <2>1. 1 \in Nat \ {0}
    OBVIOUS
  <2> QED BY <1>1, <2>1, AdvanceKeeps
<1> DEFINE s == size(l + 1)
           w == WordsFor(s)
<1>3. s \in Nat \ {0} /\ s <= MaxSize /\ MaxSize \in Nat
  <2>1. /\ Layers \in Nat \ {0} /\ MaxSize \in Nat
        /\ \A k \in 1 .. Layers + 1 : size(k) \in Nat \ {0} /\ size(k) <= MaxSize
    BY <1>1, NetworkSizes
  <2> QED BY <1>1, <2>1
<1>4. /\ ScratchCells \in Nat /\ BufB \in Nat \ {0} /\ w \in Nat /\ w <= BufB
      /\ 2 * BufB <= ScratchCells
      /\ Scores = 2 * BufB /\ Scores + MaxSize = ScratchCells
  <2>1. Layers \in Nat \ {0}
    BY <1>1, NetworkSizes
  <2>2. l + 1 \in 1 .. Layers + 1
    BY <1>1, <2>1
  <2>3. Cells(size(l + 1)) = w
    BY <1>1 DEF Cells
  <2> HIDE DEF w
  <2> QED BY <1>1, <2>2, <2>3, CellsFit
<1>5. out = 0 \/ out = BufB
  BY <1>1, CellsFit DEF Buffers
<1>6. o \div WordBits \in 0 .. w - 1
  BY <1>1, <1>3, WordsEnough
<1> HIDE DEF s, w
<1>7. out .. out + w - 1 \subseteq 0 .. ScratchCells - 1
  BY <1>4, <1>5
<1>8. out + (o \div WordBits) \in 0 .. ScratchCells - 1
  BY <1>4, <1>5, <1>6
<1>9. Scores + o \in 0 .. ScratchCells - 1
  BY <1>1, <1>3, <1>4 DEF s
<1> DEFINE clear == [c \in out .. out + w - 1 |-> {}]
           mem == IF o > 0 THEN scratch ELSE Stored(clear, scratch)
           word == out + (o \div WordBits)
<1>10. DOMAIN mem = 0 .. ScratchCells - 1
  <2>1. DOMAIN clear \subseteq 0 .. ScratchCells - 1
    BY <1>7
  <2> HIDE DEF clear
  <2>2. DOMAIN Stored(clear, scratch) = 0 .. ScratchCells - 1
    BY <2>1, StoredCells DEF StaysInScratch
  <2> QED BY <2>2 DEF StaysInScratch
<1>11. \/ scratch' = Stored([c \in {Scores + o} |-> Score(o)], mem)
       \/ scratch' = Stored([c \in {word} |-> mem[word] \cup {o % WordBits}], mem)
       \/ scratch' = mem
  BY DEF bnn_layer, w, s
<1> HIDE DEF mem, word
<1>12. ASSUME NEW cell \in 0 .. ScratchCells - 1, NEW x
       PROVE  DOMAIN Stored([c \in {cell} |-> x], mem) = 0 .. ScratchCells - 1
  <2> DEFINE one == [c \in {cell} |-> x]
  <2>1. DOMAIN one \subseteq 0 .. ScratchCells - 1
    OBVIOUS
  <2> HIDE DEF one
  <2>2. DOMAIN Stored(one, mem) = 0 .. ScratchCells - 1
    BY <1>10, <2>1, StoredCells
  <2> QED BY <2>2 DEF one
<1>13. DOMAIN scratch' = 0 .. ScratchCells - 1
  BY <1>8, <1>9, <1>10, <1>11, <1>12 DEF word
<1>14. ScratchCells' = ScratchCells
  BY <1>1, LayoutKept
<1> QED BY <1>2, <1>13, <1>14 DEF StaysInScratch

\* No step of any kernel leaves the memory.
LEMMA StepScratch ==
  ASSUME KernelAssumption, ScratchInv, [KernelNext]_kernel_vars PROVE ScratchInv'
<1>0. KernelTypeOK /\ StaysInScratch
  BY DEF ScratchInv
<1>1. CASE \E v \in Vectors : Predict(v)
  BY <1>0, <1>1, EntryKeeps DEF ScratchInv
<1>2. CASE \/ mlp_layer_neon \/ mlp_layer_scalar \/ layer_forward_avx2
           \/ emit_wide_block \/ emit_dot_outputs
  <2>1. /\ phase = "layer" /\ model.kind = "mlp"
        /\ \E n \in Nat \ {0} : \E acc : Room(n) /\ Write(n, acc)
    BY <1>0, <1>2, LayerWrites
  <2> QED BY <1>0, <2>1, WriteKeeps DEF ScratchInv
<1>3. CASE bnn_layer
  BY <1>0, <1>3, BnnLayerKeeps DEF ScratchInv
<1>4. CASE Argmax \/ \E v \in Vectors : rf_predict_entry(v) \/ predict_mlp_xnnpack(v)
  <2>1. /\ UNCHANGED <<model, scratch, l, o, in, out>>
        /\ phase' = "ready" \/ phase' = phase
    BY <1>4 DEF Argmax, rf_predict_entry, predict_mlp_xnnpack
  <2>2. StaysInScratch'
    BY <1>0, <2>1, LayoutKept DEF StaysInScratch
  <2>3. KernelTypeOK'
    BY <1>0, <2>1, LayoutKept DEF KernelTypeOK, size, Buffers
  <2> QED BY <2>2, <2>3 DEF ScratchInv
<1>5. CASE UNCHANGED kernel_vars
  <2>1. UNCHANGED <<model, scratch, l, o, in, out, phase>>
    BY <1>5 DEF kernel_vars
  <2>2. StaysInScratch'
    BY <1>0, <2>1, LayoutKept DEF StaysInScratch
  <2>3. KernelTypeOK'
    BY <1>0, <2>1, LayoutKept DEF KernelTypeOK, size, Buffers
  <2> QED BY <2>2, <2>3 DEF ScratchInv
<1> QED BY <1>1, <1>2, <1>3, <1>4, <1>5 DEF KernelNext

-----------------------------------------------------------------------------
(* The highest score *)

Leads(s, places, x) ==
    /\ x \in places
    /\ \A n \in places : s[n] <= s[x] /\ (s[n] = s[x] => x <= n)

BestBy(b, s, first, last) ==
    b = [n \in first .. last |->
            IF n = first THEN first
            ELSE IF s[n] > s[b[n - 1]] THEN n ELSE b[n - 1]]

\* The loop over the scores, as a function by its recursion.
LEMMA BestExists ==
  ASSUME NEW s, NEW first \in Int, NEW q \in Nat
  PROVE  \E b : BestBy(b, s, first, first + q)
<1> DEFINE T == {k \in Nat : \E b : BestBy(b, s, first, first + k)}
<1>1. 0 \in T
  <2> DEFINE b == [n \in first .. first + 0 |-> first]
  <2>1. BestBy(b, s, first, first + 0)
    BY DEF BestBy
  <2> QED BY <2>1
<1>2. ASSUME NEW k \in T PROVE k + 1 \in T
  <2>1. PICK b : BestBy(b, s, first, first + k)
    OBVIOUS
  <2> DEFINE next == first + (k + 1)
             c == [n \in first .. next |->
                      IF n = next THEN IF s[n] > s[b[n - 1]] THEN n ELSE b[n - 1]
                      ELSE b[n]]
  <2>2. k \in Nat /\ next \in Int /\ next # first /\ next - 1 = first + k
    OBVIOUS
  <2>3. ASSUME NEW n \in first .. next
        PROVE  c[n] = IF n = first THEN first
                      ELSE IF s[n] > s[c[n - 1]] THEN n ELSE c[n - 1]
    <3>1. CASE n = next
      <4>1. n - 1 \in first .. next /\ n - 1 # next /\ n # first
        BY <2>2, <3>1
      <4> QED BY <3>1, <4>1
    <3>2. CASE n # next
      <4>1. n \in first .. first + k
        BY <2>2, <3>2
      <4>2. c[n] = b[n]
        BY <3>2
      <4>3. n # first => n - 1 \in first .. next /\ n - 1 # next
        BY <2>2, <4>1
      <4>4. n # first => c[n - 1] = b[n - 1]
        BY <4>3
      <4>5. b[n] = IF n = first THEN first
                   ELSE IF s[n] > s[b[n - 1]] THEN n ELSE b[n - 1]
        BY <2>1, <4>1 DEF BestBy
      <4> QED BY <4>2, <4>4, <4>5
    <3> QED BY <3>1, <3>2
  <2>4. c = [n \in first .. next |-> c[n]]
    OBVIOUS
  <2> HIDE DEF c
  <2>5. BestBy(c, s, first, next)
    BY <2>3, <2>4 DEF BestBy
  <2> QED BY <2>2, <2>5
<1>3. T = Nat
  <2>1. T \subseteq Nat
    OBVIOUS
  <2> HIDE DEF T
  <2> QED BY <1>1, <1>2, <2>1, Inductive
<1> QED BY <1>3

\* The loop over the scores ends with the first of the highest.
LEMMA LeaderLeads ==
  ASSUME NEW s, NEW first \in Int, NEW last \in Int, first <= last,
         \A n \in first .. last : s[n] \in Int
  PROVE  Leads(s, first .. last, Leader(s, first, last))
<1> DEFINE b == CHOOSE b : BestBy(b, s, first, last)
<1>1. Leader(s, first, last) = b[last]
  BY DEF Leader, BestBy
<1>2. PICK q \in Nat : last = first + q
  <2>1. last - first \in Nat /\ last = first + (last - first)
    OBVIOUS
  <2> QED BY <2>1
<1>3. BestBy(b, s, first, last)
  BY <1>2, BestExists
<1> HIDE DEF b
<1> DEFINE Good(k) == Leads(s, first .. first + k, b[first + k])
           T == {k \in Nat : k <= q => Good(k)}
<1>4. \A n \in first .. last :
         b[n] = IF n = first THEN first
                ELSE IF s[n] > s[b[n - 1]] THEN n ELSE b[n - 1]
  BY <1>3 DEF BestBy
<1>5. 0 \in T
  <2>1. first + 0 = first /\ first \in first .. last /\ b[first] = first
        /\ \A n \in first .. first : n = first
    BY <1>4
  <2>2. Good(0)
    BY <2>1 DEF Leads
  <2> QED BY <2>2
<1>6. ASSUME NEW k \in T PROVE k + 1 \in T
  <2> SUFFICES ASSUME k + 1 <= q PROVE Good(k + 1)
    OBVIOUS
  <2> DEFINE p == first + k
             x == b[p]
  <2>1. k \in Nat /\ k <= q /\ p \in Int /\ first + (k + 1) = p + 1
        /\ first <= p /\ p + 1 <= last
    BY <1>2
  <2>2. Leads(s, first .. p, x)
    BY <2>1
  <2> HIDE DEF p, x
  <2>3. /\ x \in first .. p /\ x \in Int
        /\ \A n \in first .. p : s[n] <= s[x] /\ (s[n] = s[x] => x <= n)
    BY <2>1, <2>2 DEF Leads
  <2>4. /\ p + 1 \in first .. last /\ p + 1 # first /\ (p + 1) - 1 = p
        /\ s[x] \in Int /\ s[p + 1] \in Int
        /\ \A n \in first .. p : s[n] \in Int /\ n \in Int /\ n < p + 1
    BY <2>1, <2>3
  <2>5. b[p + 1] = IF s[p + 1] > s[x] THEN p + 1 ELSE x
    BY <1>4, <2>4 DEF x
  <2>6. \A n \in first .. p + 1 : n = p + 1 \/ n \in first .. p
    BY <2>1
  <2>7. CASE s[p + 1] > s[x]
    <3>1. b[p + 1] = p + 1
      BY <2>5, <2>7
    <3>2. ASSUME NEW n \in first .. p + 1
          PROVE  s[n] <= s[p + 1] /\ (s[n] = s[p + 1] => p + 1 <= n)
      <4>1. CASE n = p + 1
        BY <2>1, <2>4, <4>1
      <4>2. CASE n \in first .. p
        <5>1. s[n] <= s[x] /\ s[n] \in Int
          BY <2>3, <2>4, <4>2
        <5> QED BY <2>4, <2>7, <5>1
      <4> QED BY <2>6, <4>1, <4>2
    <3>3. p + 1 \in first .. p + 1
      BY <2>1
    <3>4. Leads(s, first .. p + 1, p + 1)
      BY <3>2, <3>3 DEF Leads
    <3> QED BY <2>1, <3>1, <3>4
  <2>8. CASE ~(s[p + 1] > s[x])
    <3>1. b[p + 1] = x /\ s[p + 1] <= s[x]
      BY <2>4, <2>5, <2>8
    <3>2. ASSUME NEW n \in first .. p + 1
          PROVE  s[n] <= s[x] /\ (s[n] = s[x] => x <= n)
      <4>1. CASE n = p + 1
        BY <2>1, <2>3, <3>1, <4>1
      <4>2. CASE n \in first .. p
        BY <2>3, <4>2
      <4> QED BY <2>6, <4>1, <4>2
    <3>3. x \in first .. p + 1
      BY <2>1, <2>3
    <3>4. Leads(s, first .. p + 1, x)
      BY <3>2, <3>3 DEF Leads
    <3> QED BY <2>1, <3>1, <3>4
  <2> QED BY <2>7, <2>8
<1>7. T = Nat
  <2>1. T \subseteq Nat
    OBVIOUS
  <2> HIDE DEF T
  <2> QED BY <1>5, <1>6, <2>1, Inductive
<1>8. Good(q)
  <2>1. q \in T
    BY <1>7
  <2> HIDE DEF Good
  <2> QED BY <2>1
<1> QED BY <1>1, <1>2, <1>8

\* The class of highest score is the one the loop ends with.
LEMMA BestLeads ==
  ASSUME NEW s, NEW x, DOMAIN s \subseteq Int, \A c \in DOMAIN s : s[c] \in Int,
         Leads(s, DOMAIN s, x)
  PROVE  Best(s) = x
<1> DEFINE S == {c \in DOMAIN s : \A d \in DOMAIN s : s[d] <= s[c]}
<1>1. x \in S /\ x \in DOMAIN s /\ x \in Int
  BY DEF Leads
<1>2. ASSUME NEW c \in S PROVE c \in Int /\ x <= c
  <2>1. c \in DOMAIN s /\ s[x] <= s[c] /\ s[c] <= s[x]
    BY <1>1 DEF Leads
  <2>2. s[c] \in Int /\ s[x] \in Int
    BY <1>1, <2>1
  <2>3. s[c] = s[x]
    BY <2>1, <2>2
  <2> QED BY <2>1, <2>3 DEF Leads
<1>3. Best(s) = Min(S)
  BY DEF Best
<1> HIDE DEF S
<1>4. PICK y \in S : y = Min(S) /\ \A c \in S : y <= c
  BY <1>1, <1>2 DEF Min
<1>5. y \in Int /\ y <= x /\ x <= y
  BY <1>1, <1>2, <1>4
<1> QED BY <1>1, <1>3, <1>4, <1>5

-----------------------------------------------------------------------------
(* Trees *)

Below(t, v, n) == IF v[t[n].feature + 1] <= t[n].threshold
                  THEN t[n].left + 1 ELSE t[n].right + 1
WalkStep(w, t, v, k, n) == IF k = 0 THEN 0
                           ELSE IF t[n].value >= 0 THEN t[n].value
                           ELSE w[k - 1][Below(t, v, n)]
WalkBy(w, t, v, d) ==
    w = [turns \in 0 .. d |-> [n \in DOMAIN t |-> WalkStep(w, t, v, turns, n)]]

\* The walk, as a function by its recursion.
LEMMA WalkExists ==
  ASSUME NEW t, NEW v, NEW d \in Nat
  PROVE  \E w : WalkBy(w, t, v, d)
<1> DEFINE T == {k \in Nat : \E w : WalkBy(w, t, v, k)}
<1>1. 0 \in T
  <2> DEFINE w == [turns \in 0 .. 0 |-> [n \in DOMAIN t |-> 0]]
  <2>1. \A turns \in 0 .. 0 : \A n \in DOMAIN t : WalkStep(w, t, v, turns, n) = 0
    BY DEF WalkStep
  <2>2. WalkBy(w, t, v, 0)
    BY <2>1 DEF WalkBy
  <2> QED BY <2>2
<1>2. ASSUME NEW k \in T PROVE k + 1 \in T
  <2>1. PICK w : WalkBy(w, t, v, k)
    OBVIOUS
  <2> DEFINE row(n) == WalkStep(w, t, v, k + 1, n)
             c == [turns \in 0 .. k + 1 |->
                      IF turns = k + 1 THEN [n \in DOMAIN t |-> row(n)] ELSE w[turns]]
  <2>2. ASSUME NEW turns \in 0 .. k + 1
        PROVE  c[turns] = [n \in DOMAIN t |-> WalkStep(c, t, v, turns, n)]
    <3>1. CASE turns = k + 1
      <4>1. c[turns - 1] = w[k]
        BY <3>1
      <4>2. \A n \in DOMAIN t : row(n) = WalkStep(c, t, v, turns, n)
        <5> HIDE DEF c
        <5> QED BY <3>1, <4>1 DEF WalkStep
      <4>3. c[turns] = [n \in DOMAIN t |-> row(n)]
        BY <3>1
      <4> HIDE DEF c, row
      <4> QED BY <4>2, <4>3
    <3>2. CASE turns # k + 1
      <4>1. turns \in 0 .. k
        BY <3>2
      <4>2. turns # 0 => c[turns - 1] = w[turns - 1]
        BY <4>1
      <4>3. \A n \in DOMAIN t : WalkStep(w, t, v, turns, n) = WalkStep(c, t, v, turns, n)
        <5> HIDE DEF c
        <5> QED BY <4>1, <4>2 DEF WalkStep
      <4>4. c[turns] = w[turns]
        BY <3>2
      <4>5. w[turns] = [n \in DOMAIN t |-> WalkStep(w, t, v, turns, n)]
        BY <2>1, <4>1 DEF WalkBy
      <4> HIDE DEF c
      <4> QED BY <4>3, <4>4, <4>5
    <3> QED BY <3>1, <3>2
  <2>3. c = [turns \in 0 .. k + 1 |-> c[turns]]
    OBVIOUS
  <2> HIDE DEF c
  <2>4. WalkBy(c, t, v, k + 1)
    BY <2>2, <2>3 DEF WalkBy
  <2> QED BY <2>4
<1>3. T = Nat
  <2>1. T \subseteq Nat
    OBVIOUS
  <2> HIDE DEF T
  <2> QED BY <1>1, <1>2, <2>1, Inductive
<1> QED BY <1>3

ReachedStep(f, t, v, n) ==
    \/ n = 1
    \/ \E p \in 1 .. n - 1 : t[p].value < 0 /\ f[p] /\ Goes(t, v, p, n)
ReachedBy(f, t, v, S) == f = [n \in S |-> ReachedStep(f, t, v, n)]

\* What is reached in a tree, as a function by its recursion.
LEMMA ReachedExists ==
  ASSUME NEW t, NEW v, NEW d \in Nat
  PROVE  \E f : ReachedBy(f, t, v, 1 .. d)
<1> DEFINE T == {k \in Nat : \E f : ReachedBy(f, t, v, 1 .. k)}
<1>1. 0 \in T
  <2> DEFINE f == [n \in 1 .. 0 |-> TRUE]
  <2>1. ReachedBy(f, t, v, 1 .. 0)
    BY DEF ReachedBy
  <2> QED BY <2>1
<1>2. ASSUME NEW k \in T PROVE k + 1 \in T
  <2>1. PICK f : ReachedBy(f, t, v, 1 .. k)
    OBVIOUS
  <2> DEFINE c == [n \in 1 .. k + 1 |-> IF n = k + 1 THEN ReachedStep(f, t, v, n)
                                        ELSE f[n]]
  <2>2. ASSUME NEW n \in 1 .. k + 1 PROVE c[n] = ReachedStep(c, t, v, n)
    <3>1. \A p \in 1 .. n - 1 : c[p] = f[p]
      OBVIOUS
    <3>2. ReachedStep(c, t, v, n) = ReachedStep(f, t, v, n)
      <4> HIDE DEF c
      <4> QED BY <3>1 DEF ReachedStep
    <3>3. CASE n = k + 1
      <4>1. c[n] = ReachedStep(f, t, v, n)
        BY <3>3
      <4> HIDE DEF c
      <4> QED BY <3>2, <4>1
    <3>4. CASE n # k + 1
      <4>1. n \in 1 .. k /\ c[n] = f[n]
        BY <3>4
      <4>2. f[n] = ReachedStep(f, t, v, n)
        BY <2>1, <4>1 DEF ReachedBy
      <4> HIDE DEF c
      <4> QED BY <3>2, <4>1, <4>2
    <3> QED BY <3>3, <3>4
  <2>3. c = [n \in 1 .. k + 1 |-> c[n]]
    OBVIOUS
  <2> HIDE DEF c
  <2>4. ReachedBy(c, t, v, 1 .. k + 1)
    BY <2>2, <2>3 DEF ReachedBy
  <2> QED BY <2>4
<1>3. T = Nat
  <2>1. T \subseteq Nat
    OBVIOUS
  <2> HIDE DEF T
  <2> QED BY <1>1, <1>2, <2>1, Inductive
<1> QED BY <1>3

\* A tree's kernel ends at the leaf the trained tree gives.
LEMMA WalkEndsAtLeaf ==
  ASSUME NEW t, NEW v, model.depth \in Nat, IsTree(model, t)
  PROVE  Walk(t, v) = LeafClass(t, v)
<1> DEFINE D == model.depth
           N == Len(t)
           f == Reached(t, v)
           w == CHOOSE w : WalkBy(w, t, v, D + 2)
<1>1. /\ N \in Nat \ {0} /\ DOMAIN t = 1 .. N
      /\ \A n \in 1 .. N : t[n].value \in Int
  <2>1. t \in Seq(Range(t)) /\ t # <<>>
    BY DEF IsTree
  <2>2. N \in Nat /\ DOMAIN t = 1 .. N
    BY <2>1, LenProperties
  <2>3. N # 0
    BY <2>1, EmptySeq
  <2> QED BY <2>2, <2>3 DEF IsTree
<1>2. PICK deep \in [1 .. N -> 0 .. D] :
         \A n \in 1 .. N : t[n].value < 0 =>
            /\ Below(t, v, n) \in n + 1 .. N
            /\ deep[Below(t, v, n)] = deep[n] + 1
  <2>1. PICK deep \in [DOMAIN t -> 0 .. D] :
          \A n \in DOMAIN t : t[n].value < 0 =>
             \A c \in {t[n].left + 1, t[n].right + 1} :
                   c \in n + 1 .. Len(t) /\ deep[c] = deep[n] + 1
    BY DEF IsTree
  <2>2. \A n : Below(t, v, n) \in {t[n].left + 1, t[n].right + 1}
    BY DEF Below
  <2> QED BY <1>1, <2>1, <2>2
<1>3. Walk(t, v) = w[D + 2][1]
  BY DEF Walk, WalkBy, WalkStep, Below
<1>4. WalkBy(w, t, v, D + 2)
  <2>1. D + 2 \in Nat
    OBVIOUS
  <2> QED BY <2>1, WalkExists
<1>5. ReachedBy(f, t, v, 1 .. N)
  <2>1. f = CHOOSE g : ReachedBy(g, t, v, DOMAIN t)
    BY DEF Reached, ReachedBy, ReachedStep
  <2>2. \E g : ReachedBy(g, t, v, DOMAIN t)
    <3>1. N \in Nat /\ DOMAIN t = 1 .. N
      BY <1>1
    <3> HIDE DEF N
    <3> QED BY <3>1, ReachedExists
  <2> QED BY <1>1, <2>1, <2>2
<1>d. D \in Nat
  OBVIOUS
<1> HIDE DEF f, w, D, N
<1>6. \A k \in 0 .. D + 2 : \A n \in 1 .. N :
         /\ k # 0 /\ t[n].value >= 0 => w[k][n] = t[n].value
         /\ k # 0 /\ ~(t[n].value >= 0) => w[k][n] = w[k - 1][Below(t, v, n)]
  <2> TAKE k \in 0 .. D + 2
  <2> TAKE n \in 1 .. N
  <2>1. w[k] = [c \in DOMAIN t |-> WalkStep(w, t, v, k, c)]
    BY <1>4 DEF WalkBy
  <2>2. w[k][n] = WalkStep(w, t, v, k, n)
    BY <1>1, <2>1
  <2> QED BY <2>2 DEF WalkStep
<1>7. \A n \in 1 .. N :
         f[n] <=> \/ n = 1
                  \/ \E p \in 1 .. n - 1 :
                        t[p].value < 0 /\ f[p] /\ n = Below(t, v, p)
  BY <1>5 DEF ReachedBy, ReachedStep, Goes, Below
<1> DEFINE H(n) == f[n] => /\ deep[n] >= deep[1]
                           /\ w[D + 2][1] = w[D + 2 - (deep[n] - deep[1])][n]
           T == {k \in Nat : \A n \in 1 .. k : n <= N => H(n)}
<1>8. 0 \in T
  OBVIOUS
<1>9. ASSUME NEW k \in T PROVE k + 1 \in T
  <2> SUFFICES ASSUME k + 1 <= N, f[k + 1] PROVE H(k + 1)
    <3>1. \A n \in 1 .. k + 1 : n = k + 1 \/ n \in 1 .. k
      OBVIOUS
    <3> HIDE DEF H
    <3>2. k + 1 <= N => H(k + 1)
      BY DEF H
    <3> QED BY <3>1, <3>2
  <2>0. \A n \in 1 .. N : deep[n] \in 0 .. D
    BY <1>2
  <2>1. CASE k + 1 = 1
    <3>1. deep[1] \in Int /\ deep[1] - deep[1] = 0 /\ D + 2 - 0 = D + 2
      BY <1>1, <1>d, <2>0
    <3> QED BY <2>1, <3>1
  <2>2. CASE k + 1 # 1
    <3>1. k \in Nat /\ k + 1 \in 1 .. N
      BY <1>1
    <3>2. PICK p \in 1 .. (k + 1) - 1 :
             t[p].value < 0 /\ f[p] /\ k + 1 = Below(t, v, p)
      BY <1>7, <2>2, <3>1
    <3>3. p \in 1 .. k /\ p \in 1 .. N /\ 1 \in 1 .. N /\ p <= N
      <4>1. (k + 1) - 1 = k
        BY <3>1
      <4>2. p \in 1 .. k
        BY <3>2, <4>1
      <4> QED BY <1>1, <3>1, <4>2
    <3>4. H(p)
      BY <3>3
    <3>5. deep[k + 1] = deep[p] + 1
      BY <1>2, <3>2, <3>3
    <3> DEFINE u == D + 2 - (deep[p] - deep[1])
    <3>6. /\ u \in 0 .. D + 2 /\ u # 0
          /\ u - 1 = D + 2 - (deep[k + 1] - deep[1])
          /\ deep[k + 1] >= deep[1]
      <4>1. /\ deep[p] \in 0 .. D /\ deep[1] \in 0 .. D /\ deep[k + 1] \in 0 .. D
            /\ D \in Nat
        BY <1>d, <2>0, <3>1, <3>3
      <4>2. deep[p] >= deep[1]
        BY <3>2, <3>4
      <4> DEFINE x == deep[p]
                 y == deep[1]
                 z == deep[k + 1]
      <4>3. x \in 0 .. D /\ y \in 0 .. D /\ z \in 0 .. D /\ x >= y /\ z = x + 1
        BY <3>5, <4>1, <4>2
      <4> HIDE DEF x, y, z
      <4>4. /\ D + 2 - (x - y) \in 0 .. D + 2 /\ D + 2 - (x - y) # 0
            /\ (D + 2 - (x - y)) - 1 = D + 2 - (z - y) /\ z >= y
        BY ONLY <4>1, <4>3
      <4> QED BY ONLY <4>4 DEF x, y, z, u
    <3>7. w[D + 2][1] = w[u][p]
      BY <3>2, <3>4
    <3> HIDE DEF u
    <3>8. ~(t[p].value >= 0)
      BY <1>1, <3>2, <3>3
    <3>9. w[u][p] = w[u - 1][k + 1]
      BY <1>6, <3>2, <3>3, <3>6, <3>8
    <3> QED BY <3>6, <3>7, <3>9
  <2> QED BY <2>1, <2>2
<1>10. T = Nat
  <2>1. T \subseteq Nat
    OBVIOUS
  <2> HIDE DEF T
  <2> QED BY <1>8, <1>9, <2>1, Inductive
<1>11. \A n \in 1 .. N : H(n)
  <2> TAKE n \in 1 .. N
  <2>1. n \in Nat /\ n \in 1 .. n /\ n <= N
    BY <1>1
  <2>2. n \in T
    BY <1>10, <2>1
  <2> HIDE DEF H
  <2> QED BY <2>1, <2>2
<1>12. \E n \in 1 .. N : f[n] /\ t[n].value >= 0
  <2> DEFINE S == {n \in 1 .. N : f[n]}
             x == Max(S)
  <2>1. 1 \in S
    BY <1>1, <1>7
  <2>2. x \in S /\ \A n \in S : n <= x
    <3>1. S \in SUBSET Int /\ S # {} /\ N \in Int /\ \A n \in S : n <= N
      BY <1>1, <2>1
    <3> HIDE DEF S
    <3> QED BY <3>1, MaxIs
  <2> HIDE DEF x
  <2>3. ASSUME t[x].value < 0 PROVE FALSE
    <3> DEFINE c == Below(t, v, x)
    <3>1. c \in x + 1 .. N
      BY <1>2, <2>2, <2>3
    <3> HIDE DEF c
    <3>2. c \in 1 .. N /\ x \in 1 .. c - 1 /\ x < c
      BY <1>1, <2>2, <3>1
    <3>3. f[c]
      BY <1>7, <2>2, <2>3, <3>2 DEF c
    <3> QED BY <2>2, <3>2, <3>3
  <2>4. t[x].value >= 0
    BY <1>1, <2>2, <2>3
  <2> QED BY <2>2, <2>4
<1>13. PICK y \in 1 .. N : f[y] /\ t[y].value >= 0 /\ LeafClass(t, v) = t[y].value
  BY <1>1, <1>12 DEF LeafClass, f
<1>14. H(y)
  BY <1>11
<1> DEFINE u == D + 2 - (deep[y] - deep[1])
<1>15. u \in 0 .. D + 2 /\ u # 0
  <2>1. deep[y] \in 0 .. D /\ deep[1] \in 0 .. D
    BY <1>1, <1>2
  <2> QED BY <1>d, <1>13, <1>14, <2>1
<1>16. w[D + 2][1] = w[u][y]
  BY <1>13, <1>14
<1> HIDE DEF u
<1>17. w[u][y] = t[y].value
  BY <1>6, <1>13, <1>15
<1> QED BY <1>3, <1>13, <1>16, <1>17

\* The votes of the trees are those of the trained trees, and the loop over
\* them picks the first class of most votes.
LEMMA ForestVerdict ==
  ASSUME KernelAssumption, model \in Models, model.kind = "rf", NEW v
  PROVE  Leader(Votes(v), 0, model.classes - 1) = Majority(model, v)
<1> DEFINE C == model.classes
           votes == Votes(v)
           s == [c \in 1 .. C |->
                   Cardinality({k \in DOMAIN model.trees :
                                  LeafClass(model.trees[k], v) = c - 1})]
           x == Leader(votes, 0, C - 1)
<1>1. IsForest(model)
  BY DEF KernelAssumption
<1>2. C \in Nat \ {0}
  BY <1>1 DEF IsForest
<1>3. \A k \in DOMAIN model.trees :
         Walk(model.trees[k], v) = LeafClass(model.trees[k], v)
  BY <1>1, WalkEndsAtLeaf DEF IsForest
<1>4. IsFiniteSet(DOMAIN model.trees)
  <2>1. /\ Len(model.trees) \in Nat
        /\ DOMAIN model.trees = 1 .. Len(model.trees)
    BY <1>1, LenProperties DEF IsForest
  <2> DEFINE n == Len(model.trees)
  <2>2. n \in Int /\ 1 \in Int
    BY <2>1
  <2> HIDE DEF n
  <2>3. IsFiniteSet(1 .. n)
    BY <2>2, FS_Interval
  <2> QED BY ONLY <2>1, <2>3 DEF n
<1>5. \A c \in 1 .. C : s[c] = votes[c - 1]
  <2> TAKE c \in 1 .. C
  <2> DEFINE A == {k \in DOMAIN model.trees : LeafClass(model.trees[k], v) = c - 1}
             Z == {k \in DOMAIN model.trees : Walk(model.trees[k], v) = c - 1}
  <2>1. A = Z
    BY <1>3
  <2>2. c - 1 \in 0 .. C - 1
    BY <1>2
  <2>3. votes[c - 1] = Cardinality(Z)
    BY <2>2 DEF Votes
  <2>4. s[c] = Cardinality(A)
    OBVIOUS
  <2> HIDE DEF A, Z, s, votes
  <2> QED BY <2>1, <2>3, <2>4
<1>6. \A c \in 0 .. C - 1 : votes[c] \in Int
  <2> TAKE c \in 0 .. C - 1
  <2> DEFINE Z == {k \in DOMAIN model.trees : Walk(model.trees[k], v) = c}
  <2>1. votes[c] = Cardinality(Z)
    BY DEF Votes
  <2>2. Z \subseteq DOMAIN model.trees
    OBVIOUS
  <2> HIDE DEF Z, votes
  <2>3. Cardinality(Z) \in Nat
    BY <1>4, <2>2, FS_Subset, FS_CardinalityType
  <2> QED BY <2>1, <2>3
<1>7. DOMAIN s = 1 .. C
  OBVIOUS
<1>8. Majority(model, v) = Best(s) - 1
  BY DEF Majority
<1>m. Leader(Votes(v), 0, model.classes - 1) = x
  OBVIOUS
<1> HIDE DEF C, votes, s
<1>9. Leads(votes, 0 .. C - 1, x)
  <2>1. 0 \in Int /\ C - 1 \in Int /\ 0 <= C - 1
    BY <1>2
  <2> QED BY <1>6, <2>1, LeaderLeads
<1> HIDE DEF x
<1>10. /\ x \in 0 .. C - 1
       /\ \A c \in 0 .. C - 1 :
             votes[c] <= votes[x] /\ (votes[c] = votes[x] => x <= c)
  BY <1>9 DEF Leads
<1>11. x + 1 \in 1 .. C /\ s[x + 1] = votes[x] /\ x \in Int
  <2>1. x + 1 \in 1 .. C /\ (x + 1) - 1 = x
    BY <1>2, <1>10
  <2> QED BY <1>5, <1>10, <2>1
<1>12. \A c \in 1 .. C : c \in Int /\ c - 1 \in 0 .. C - 1
  BY <1>2
<1>13. \A c \in 1 .. C :
          s[c] \in Int /\ s[c] <= s[x + 1] /\ (s[c] = s[x + 1] => x + 1 <= c)
  <2> TAKE c \in 1 .. C
  <2>1. s[c] = votes[c - 1] /\ c - 1 \in 0 .. C - 1 /\ c \in Int
    BY <1>5, <1>12
  <2>2. votes[c - 1] \in Int /\ votes[c - 1] <= votes[x]
        /\ (votes[c - 1] = votes[x] => x <= c - 1)
    BY <1>6, <1>10, <2>1
  <2> QED BY <1>11, <2>1, <2>2
<1>14. Leads(s, DOMAIN s, x + 1)
  BY <1>7, <1>11, <1>13 DEF Leads
<1>15. Best(s) = x + 1
  <2>1. DOMAIN s \subseteq Int /\ \A c \in DOMAIN s : s[c] \in Int
    BY <1>7, <1>12, <1>13
  <2> QED BY <1>14, <2>1, BestLeads
<1> QED BY <1>8, <1>11, <1>15, <1>m

-----------------------------------------------------------------------------
(* What the trained network makes of a vector, layer by layer *)

LayerOf(m, n, v) == IF m.kind = "mlp" THEN MlpLayer(m, n, v) ELSE BnnLayer(m, n, v)
ActBy(a, m, v, d) ==
    a = [n \in 0 .. d |->
            IF n = 0 THEN v
            ELSE IF m.kind = "mlp" THEN MlpLayer(m, n, a[n - 1])
            ELSE BnnLayer(m, n, a[n - 1])]

\* The activations of a network, as a function by its recursion.
LEMMA ActExists ==
  ASSUME NEW m, NEW v, NEW d \in Nat
  PROVE  \E a : ActBy(a, m, v, d)
<1> DEFINE T == {k \in Nat : \E a : ActBy(a, m, v, k)}
<1>1. 0 \in T
  <2> DEFINE a == [n \in 0 .. 0 |-> v]
  <2>1. ActBy(a, m, v, 0)
    BY DEF ActBy
  <2> QED BY <2>1
<1>2. ASSUME NEW k \in T PROVE k + 1 \in T
  <2>1. PICK a : ActBy(a, m, v, k)
    OBVIOUS
  <2> DEFINE last == LayerOf(m, k + 1, a[k])
             c == [n \in 0 .. k + 1 |-> IF n = k + 1 THEN last ELSE a[n]]
  <2>2. ASSUME NEW n \in 0 .. k + 1
        PROVE  c[n] = IF n = 0 THEN v
                      ELSE IF m.kind = "mlp" THEN MlpLayer(m, n, c[n - 1])
                      ELSE BnnLayer(m, n, c[n - 1])
    <3>1. CASE n = k + 1
      <4>1. c[n - 1] = a[k] /\ c[n] = last /\ n # 0
        <5> HIDE DEF last
        <5> QED BY <3>1
      <4> HIDE DEF c
      <4> QED BY <3>1, <4>1 DEF LayerOf
    <3>2. CASE n # k + 1
      <4> HIDE DEF last
      <4>1. n \in 0 .. k /\ c[n] = a[n] /\ (n # 0 => c[n - 1] = a[n - 1])
        BY <3>2
      <4>2. a[n] = IF n = 0 THEN v
                   ELSE IF m.kind = "mlp" THEN MlpLayer(m, n, a[n - 1])
                   ELSE BnnLayer(m, n, a[n - 1])
        BY <2>1, <4>1 DEF ActBy
      <4> HIDE DEF c
      <4> QED BY <4>1, <4>2
    <3> QED BY <3>1, <3>2
  <2>3. c = [n \in 0 .. k + 1 |-> c[n]]
    <3> HIDE DEF last
    <3> QED OBVIOUS
  <2> HIDE DEF c
  <2>4. ActBy(c, m, v, k + 1)
    BY <2>2, <2>3 DEF ActBy
  <2> QED BY <2>4
<1>3. T = Nat
  <2>1. T \subseteq Nat
    OBVIOUS
  <2> HIDE DEF T
  <2> QED BY <1>1, <1>2, <2>1, Inductive
<1> QED BY <1>3

\* A layer works on what the one before it gave.
LEMMA ActivationsByLayer ==
  ASSUME NEW m, NEW v, Len(m.weight) \in Nat
  PROVE  /\ Activations(m, v)[0] = v
         /\ \A n \in 1 .. Len(m.weight) :
               Activations(m, v)[n] = LayerOf(m, n, Activations(m, v)[n - 1])
<1> DEFINE d == Len(m.weight)
           a == Activations(m, v)
<1>1. a = CHOOSE b : ActBy(b, m, v, d)
  BY DEF Activations, ActBy
<1> HIDE DEF a, d
<1>2. d \in Nat
  BY DEF d
<1>3. ActBy(a, m, v, d)
  BY <1>1, <1>2, ActExists
<1>4. \A n \in 0 .. d : a[n] = IF n = 0 THEN v
                               ELSE IF m.kind = "mlp" THEN MlpLayer(m, n, a[n - 1])
                               ELSE BnnLayer(m, n, a[n - 1])
  BY <1>3 DEF ActBy
<1>5. 0 \in 0 .. d /\ \A n \in 1 .. d : n \in 0 .. d /\ n # 0
  BY <1>2
<1>6. a[0] = v /\ \A n \in 1 .. d : a[n] = LayerOf(m, n, a[n - 1])
  BY <1>4, <1>5 DEF LayerOf
<1> QED BY <1>6 DEF a, d

Products(w, v, n) == [k \in 1 .. n |-> w[k] * v[k]]

\* One output, as a sum of products over the inputs counted from 1.
LEMMA LinearIs ==
  ASSUME NEW a \in Nat, NEW b \in Nat, NEW w \in [1 .. b -> [1 .. a -> Int]],
         NEW bias \in [1 .. b -> Int], NEW v \in [1 .. a -> Int]
  PROVE  /\ Linear(w, bias, v) \in [1 .. b -> Int]
         /\ \A j \in 1 .. b :
               /\ Linear(w, bias, v)[j]
                    = SumOver(Products(w[j], v, a), 1 .. a) + bias[j]
               /\ SumOver(Products(w[j], v, a), 1 .. a) \in Int
<1>1. DOMAIN bias = 1 .. b /\ DOMAIN v = 1 .. a
  OBVIOUS
<1> DEFINE f(j) == Products(w[j], v, a)
           S(j) == SumOf([k \in DOMAIN v |-> w[j][k] * v[k]])
<1>2. ASSUME NEW j \in 1 .. b
      PROVE  S(j) = SumOver(f(j), 1 .. a) /\ SumOver(f(j), 1 .. a) \in Int
  <2>1. [k \in DOMAIN v |-> w[j][k] * v[k]] = f(j) /\ DOMAIN f(j) = 1 .. a
    BY <1>1 DEF Products
  <2>2. \A k \in 1 .. a : f(j)[k] \in Int
    <3> TAKE k \in 1 .. a
    <3>1. w[j][k] \in Int /\ v[k] \in Int
      OBVIOUS
    <3>2. w[j][k] * v[k] \in Int
      BY <3>1
    <3> QED BY <3>2 DEF Products
  <2>3. IsFiniteSet(1 .. a)
    BY FS_Interval
  <2> DEFINE g == f(j)
  <2>4. S(j) = SumOf(g) /\ DOMAIN g = 1 .. a /\ \A k \in 1 .. a : g[k] \in Int
    BY <2>1, <2>2
  <2> HIDE DEF g, f, S
  <2>5. SumOver(g, 1 .. a) \in Int
    BY <2>3, <2>4, SumInt
  <2>6. S(j) = SumOver(g, 1 .. a)
    BY <2>4 DEF SumOf, SumOver
  <2> QED BY <2>5, <2>6 DEF g
<1>3. Linear(w, bias, v) = [j \in 1 .. b |-> S(j) + bias[j]]
  BY <1>1 DEF Linear
<1> HIDE DEF S, f
<1>4. \A j \in 1 .. b : bias[j] \in Int
  OBVIOUS
<1>5. \A j \in 1 .. b :
         Linear(w, bias, v)[j] = SumOver(f(j), 1 .. a) + bias[j]
  BY <1>2, <1>3
<1>6. Linear(w, bias, v) \in [1 .. b -> Int]
  BY <1>2, <1>3, <1>4
<1> QED BY <1>2, <1>5, <1>6 DEF f

SignedWeights(m, n) == [j \in DOMAIN m.bias[n] |-> Signs(m.weight[n][j])]

\* A layer before its activation function.
Raw(m, n, v) == IF m.kind = "mlp" THEN Linear(m.weight[n], m.bias[n], v)
                ELSE Linear(SignedWeights(m, n), m.bias[n], Signs(v))

\* A layer is its sums with the activation function on them.
LEMMA LayerByRaw ==
  ASSUME NEW m, NEW n, NEW v
  PROVE  LayerOf(m, n, v) = IF n = Len(m.weight) THEN Raw(m, n, v)
                            ELSE IF m.kind = "mlp" THEN Relus(Raw(m, n, v))
                            ELSE Signs(Raw(m, n, v))
BY DEF LayerOf, MlpLayer, BnnLayer, Raw, SignedWeights

LEMMA SignsType ==
  ASSUME NEW a \in Nat, NEW v \in [1 .. a -> Int]
  PROVE  /\ Signs(v) \in [1 .. a -> Int]
         /\ \A k \in 1 .. a : Signs(v)[k] = IF v[k] >= 0 THEN 1 ELSE -1
<1>1. Signs(v) = [k \in 1 .. a |-> Sign(v[k])]
  BY DEF Signs
<1>2. \A k \in 1 .. a : Sign(v[k]) = IF v[k] >= 0 THEN 1 ELSE -1
  BY DEF Sign
<1>3. \A k \in 1 .. a : Sign(v[k]) \in Int
  BY <1>2
<1> QED BY <1>1, <1>2, <1>3

LEMMA RelusType ==
  ASSUME NEW a \in Nat, NEW v \in [1 .. a -> Int]
  PROVE  /\ Relus(v) \in [1 .. a -> Int]
         /\ \A k \in 1 .. a : Relus(v)[k] = Relu(v[k])
<1>1. Relus(v) = [k \in 1 .. a |-> Relu(v[k])]
  BY DEF Relus
<1>2. \A k \in 1 .. a : v[k] \in Int
  OBVIOUS
<1>3. \A k \in 1 .. a : Relu(v[k]) \in Int
  BY <1>2 DEF Relu
<1> QED BY <1>1, <1>3

LEMMA RawType ==
  ASSUME NEW m, IsNetwork(m), NEW n \in 1 .. Len(m.weight), NEW v,
         v \in [1 .. m.sizes[n] -> Int]
  PROVE  /\ Raw(m, n, v) \in [1 .. m.sizes[n + 1] -> Int]
         /\ m.kind # "mlp" => SignedWeights(m, n) \in
               [1 .. m.sizes[n + 1] -> [1 .. m.sizes[n] -> Int]]
<1> DEFINE a == m.sizes[n]
           b == m.sizes[n + 1]
<1>1. a \in Nat /\ b \in Nat
  <2>1. Len(m.weight) \in Nat /\ m.sizes \in [1 .. Len(m.weight) + 1 -> Nat \ {0}]
    BY LenProperties DEF IsNetwork
  <2>2. n \in 1 .. Len(m.weight) + 1 /\ n + 1 \in 1 .. Len(m.weight) + 1
    BY <2>1
  <2> QED BY <2>1, <2>2
<1>2. m.weight[n] \in [1 .. b -> [1 .. a -> Int]] /\ m.bias[n] \in [1 .. b -> Int]
  BY DEF IsNetwork
<1>3. v \in [1 .. a -> Int]
  OBVIOUS
<1> HIDE DEF a, b
<1>4. CASE m.kind = "mlp"
  <2>1. Linear(m.weight[n], m.bias[n], v) \in [1 .. b -> Int]
    BY <1>1, <1>2, <1>3, LinearIs
  <2> QED BY <1>4, <2>1 DEF Raw, b
<1>5. CASE m.kind # "mlp"
  <2>1. \A j \in 1 .. b : Signs(m.weight[n][j]) \in [1 .. a -> Int]
    <3> TAKE j \in 1 .. b
    <3>1. m.weight[n][j] \in [1 .. a -> Int]
      BY <1>2
    <3> QED BY <1>1, <3>1, SignsType
  <2>2. DOMAIN m.bias[n] = 1 .. b
    BY <1>2
  <2>3. SignedWeights(m, n) \in [1 .. b -> [1 .. a -> Int]]
    BY <2>1, <2>2 DEF SignedWeights
  <2>4. Signs(v) \in [1 .. a -> Int]
    BY <1>1, <1>3, SignsType
  <2>5. Linear(SignedWeights(m, n), m.bias[n], Signs(v)) \in [1 .. b -> Int]
    BY <1>1, <1>2, <2>3, <2>4, LinearIs
  <2> QED BY <1>5, <2>3, <2>5 DEF Raw, a, b
<1> QED BY <1>4, <1>5

LEMMA LayerType ==
  ASSUME NEW m, IsNetwork(m), NEW n \in 1 .. Len(m.weight), NEW v,
         v \in [1 .. m.sizes[n] -> Int]
  PROVE  LayerOf(m, n, v) \in [1 .. m.sizes[n + 1] -> Int]
<1> DEFINE y == Raw(m, n, v)
           b == m.sizes[n + 1]
<1>1. y \in [1 .. b -> Int]
  BY RawType
<1>2. b \in Nat
  <2>1. Len(m.weight) \in Nat /\ m.sizes \in [1 .. Len(m.weight) + 1 -> Nat \ {0}]
    BY LenProperties DEF IsNetwork
  <2>2. n + 1 \in 1 .. Len(m.weight) + 1
    BY <2>1
  <2> QED BY <2>1, <2>2
<1>3. LayerOf(m, n, v) = IF n = Len(m.weight) THEN y
                         ELSE IF m.kind = "mlp" THEN Relus(y) ELSE Signs(y)
  BY LayerByRaw
<1> HIDE DEF y, b
<1>4. Relus(y) \in [1 .. b -> Int] /\ Signs(y) \in [1 .. b -> Int]
  BY <1>1, <1>2, RelusType, SignsType
<1> QED BY <1>1, <1>3, <1>4 DEF b

\* A scaled vector has one integer for each input.
LEMMA ScaledType ==
  ASSUME KernelAssumption, model \in Models, Layered, NEW x \in Seq(Int)
  PROVE  Scaled(model, x) \in [1 .. size(1) -> Int]
<1>1. /\ IsNetwork(model) /\ Layers \in Nat \ {0}
      /\ \A n \in 1 .. Layers + 1 : size(n) \in Nat \ {0}
      /\ Dim(model) = size(1)
  BY NetworkSizes
<1> DEFINE e(k) == IF k <= Len(x) THEN (x[k] - model.mean[k]) * model.inv[k]
                   ELSE 0
<1>2. Scaled(model, x) = [k \in 1 .. size(1) |-> e(k)]
  BY <1>1 DEF Scaled
<1>3. ASSUME NEW k \in 1 .. size(1) PROVE e(k) \in Int
  <2>1. model.mean[k] \in Int /\ model.inv[k] \in Int
    BY <1>1 DEF IsNetwork, size
  <2>2. size(1) \in Nat /\ k \in Nat /\ k >= 1 /\ Len(x) \in Nat
    BY <1>1, LenProperties
  <2>3. k <= Len(x) => x[k] \in Int
    BY <2>2, ElementOfSeq
  <2>4. k <= Len(x) => (x[k] - model.mean[k]) * model.inv[k] \in Int
    BY <2>1, <2>3
  <2> QED BY <2>4
<1> HIDE DEF e
<1> QED BY <1>2, <1>3

\* What the trained network makes of a vector, layer by layer.
LEMMA ActivationsTyped ==
  ASSUME KernelAssumption, model \in Models, Layered, NEW v \in [1 .. size(1) -> Int]
  PROVE  /\ Activations(model, v)[0] = v
         /\ \A n \in 0 .. Layers :
               Activations(model, v)[n] \in [1 .. size(n + 1) -> Int]
         /\ \A n \in 1 .. Layers :
               Activations(model, v)[n] = LayerOf(model, n, Activations(model, v)[n - 1])
<1> DEFINE act == Activations(model, v)
<1>1. /\ IsNetwork(model) /\ Layers \in Nat \ {0}
      /\ \A n \in 1 .. Layers + 1 : size(n) \in Nat \ {0}
  BY NetworkSizes
<1>2. v \in [1 .. size(1) -> Int]
  OBVIOUS
<1>3. /\ act[0] = v
      /\ \A n \in 1 .. Layers : act[n] = LayerOf(model, n, act[n - 1])
  <2>1. Len(model.weight) \in Nat
    BY <1>1 DEF Layers
  <2> QED BY <2>1, ActivationsByLayer DEF Layers
<1> HIDE DEF act
<1> DEFINE Typed(n) == act[n] \in [1 .. size(n + 1) -> Int]
           T == {n \in Nat : n <= Layers => Typed(n)}
<1>4. 0 \in T
  <2>1. Typed(0)
    BY <1>2, <1>3
  <2> QED BY <2>1
<1>5. ASSUME NEW n \in T PROVE n + 1 \in T
  <2> SUFFICES ASSUME n + 1 <= Layers PROVE Typed(n + 1)
    OBVIOUS
  <2>1. n \in Nat /\ n <= Layers /\ n + 1 \in 1 .. Layers /\ (n + 1) - 1 = n
    BY <1>1
  <2>2. Typed(n)
    BY <2>1
  <2>3. act[n + 1] = LayerOf(model, n + 1, act[n])
    BY <1>3, <2>1
  <2>4. n + 1 \in 1 .. Len(model.weight) /\ act[n] \in [1 .. model.sizes[n + 1] -> Int]
    BY <2>1, <2>2 DEF Layers, size
  <2>5. LayerOf(model, n + 1, act[n]) \in [1 .. model.sizes[(n + 1) + 1] -> Int]
    BY <1>1, <2>4, LayerType
  <2> QED BY <2>3, <2>5 DEF size
<1>6. T = Nat
  <2>1. T \subseteq Nat
    OBVIOUS
  <2> HIDE DEF T
  <2> QED BY <1>4, <1>5, <2>1, Inductive
<1>7. \A n \in 0 .. Layers : Typed(n)
  <2> TAKE n \in 0 .. Layers
  <2>1. n \in Nat /\ n <= Layers
    BY <1>1
  <2>2. n \in T
    BY <1>6, <2>1
  <2> HIDE DEF Typed
  <2> QED BY <2>1, <2>2
<1> QED BY <1>3, <1>7 DEF act

Vector == Scaled(model, raw)
Act(n) == Activations(model, Vector)[n]

\* The same of the vector of this prediction.
LEMMA ActivationsType ==
  ASSUME KernelAssumption, model \in Models, Layered, raw \in Seq(Int)
  PROVE  /\ Vector \in [1 .. size(1) -> Int] /\ Act(0) = Vector
         /\ \A n \in 0 .. Layers : Act(n) \in [1 .. size(n + 1) -> Int]
         /\ \A n \in 1 .. Layers : Act(n) = LayerOf(model, n, Act(n - 1))
<1>1. Vector \in [1 .. size(1) -> Int]
  BY ScaledType DEF Vector
<1> QED BY <1>1, ActivationsTyped DEF Act

-----------------------------------------------------------------------------
(* An output of a layer *)

Mlp == model.kind = "mlp"

\* What layer n reads, and the weight of input k for output j in its layout.
LayerInput(n) == IF Folded(n) THEN raw ELSE Act(n - 1)
Entered(n, j, k) == IF Folded(n) THEN model.weight[n][j + 1][k + 1] * model.inv[k + 1]
                    ELSE model.weight[n][j + 1][k + 1]
RawOutput(n) == Raw(model, n, Act(n - 1))

\* The kernel that takes raw features is not given a padded vector.
RawAccepted == model.kernel = "hardcoded_raw" => Len(raw) = Dim(model)

\* The shape of the network that runs.
LEMMA NetworkShape ==
  ASSUME KernelAssumption, model \in Models, Layered, NEW n \in 1 .. Layers
  PROVE  /\ n \in 1 .. Len(model.weight) /\ n + 1 \in 1 .. Layers + 1
         /\ n \in 1 .. Layers + 1 /\ n \in Nat /\ n - 1 \in 0 .. Layers
         /\ size(n) \in Nat \ {0} /\ size(n + 1) \in Nat \ {0}
         /\ model.weight[n] \in [1 .. size(n + 1) -> [1 .. size(n) -> Int]]
         /\ model.bias[n] \in [1 .. size(n + 1) -> Int]
         /\ model.mean \in [1 .. size(1) -> Int]
         /\ model.inv \in [1 .. size(1) -> Int]
<1>1. /\ IsNetwork(model) /\ Layers \in Nat \ {0}
      /\ \A k \in 1 .. Layers + 1 : size(k) \in Nat \ {0}
  BY NetworkSizes
<1>2. /\ n + 1 \in 1 .. Layers + 1 /\ n \in 1 .. Layers + 1
      /\ n \in Nat /\ n - 1 \in 0 .. Layers
  BY <1>1
<1>3. size(n) \in Nat \ {0} /\ size(n + 1) \in Nat \ {0}
  BY <1>1, <1>2
<1> QED BY <1>1, <1>2, <1>3 DEF IsNetwork, size, Layers

\* The same value, the mean and the deviation taken into the weights.
LEMMA ScaledProduct ==
  ASSUME NEW w \in Int, NEW x \in Int, NEW y \in Int, NEW z \in Int
  PROVE  w * ((x - y) * z) = (w * z) * x - (w * y) * z
<1>1. (x - y) * z = x * z - y * z
  OBVIOUS
<1>2. w * (x * z - y * z) = w * (x * z) - w * (y * z)
  <2> DEFINE p == x * z
             q == y * z
  <2>1. p \in Int /\ q \in Int
    OBVIOUS
  <2> HIDE DEF p, q
  <2>2. w * (p - q) = w * p - w * q
    BY <2>1
  <2> QED BY <2>2 DEF p, q
<1>3. w * (x * z) = (w * z) * x /\ w * (y * z) = (w * y) * z
  OBVIOUS
<1> QED BY <1>1, <1>2, <1>3

\* A bias and a sum in a kernel's layout are the network's sum: the scaling
\* in the weights of layer 0 and the one in the bias make up for each other.
LEMMA OutputIsTrained ==
  ASSUME KernelAssumption, model \in Models, Mlp, raw \in Seq(Int), RawAccepted,
         NEW n \in 1 .. Layers, NEW j \in 0 .. size(n + 1) - 1, NEW f,
         DOMAIN f = 0 .. size(n) - 1,
         \A k \in 0 .. size(n) - 1 : f[k] = Entered(n, j, k) * LayerInput(n)[k + 1]
  PROVE  /\ B(n, j) + SumOf(f) = RawOutput(n)[j + 1]
         /\ RawOutput(n)[j + 1] \in Int
<1> DEFINE a == size(n)
           b == size(n + 1)
           w == model.weight[n][j + 1]
           bias == model.bias[n][j + 1]
           v == Act(n - 1)
           g == Products(w, v, a)
<1>0. Layered
  BY DEF Mlp, Layered
<1>1. /\ a \in Nat \ {0} /\ b \in Nat \ {0}
      /\ model.weight[n] \in [1 .. b -> [1 .. a -> Int]]
      /\ model.bias[n] \in [1 .. b -> Int]
      /\ j + 1 \in 1 .. b
  <2>1. j + 1 \in 1 .. size(n + 1)
    BY <1>0, NetworkShape
  <2> QED BY <1>0, <2>1, NetworkShape
<1>2. v \in [1 .. a -> Int]
  <2>1. n - 1 \in 0 .. Layers /\ (n - 1) + 1 = n
    BY <1>0, NetworkShape
  <2>2. Act(n - 1) \in [1 .. size((n - 1) + 1) -> Int]
    BY <1>0, <2>1, ActivationsType
  <2> QED BY <2>1, <2>2
<1>3. w \in [1 .. a -> Int] /\ bias \in Int
  <2> HIDE DEF a, b
  <2> QED BY <1>1
<1>4. /\ RawOutput(n)[j + 1] = SumOver(g, 1 .. a) + bias
      /\ SumOver(g, 1 .. a) \in Int
  <2>1. RawOutput(n) = Linear(model.weight[n], model.bias[n], v)
    BY DEF RawOutput, Raw, Mlp
  <2> HIDE DEF a, b, v
  <2>2. a \in Nat /\ b \in Nat
    BY <1>1
  <2>3. /\ Linear(model.weight[n], model.bias[n], v)[j + 1]
             = SumOver(Products(model.weight[n][j + 1], v, a), 1 .. a)
                 + model.bias[n][j + 1]
        /\ SumOver(Products(model.weight[n][j + 1], v, a), 1 .. a) \in Int
    BY <1>1, <1>2, <2>2, LinearIs
  <2> QED BY <2>1, <2>3
<1>5. SumOf(f) = SumOver(f, 0 .. a - 1)
  BY DEF SumOf, SumOver
<1>6. CASE ~Folded(n)
  <2>1. B(n, j) = bias
    <3>1. B(n, j) = bias - 0
      BY <1>6 DEF B
    <3> QED BY <1>3, <3>1
  <2>2. \A k \in 0 .. a - 1 : f[k] = w[k + 1] * v[k + 1]
    BY <1>6 DEF Entered, LayerInput
  <2> HIDE DEF a, v, w, bias
  <2>3. \A k \in 0 .. a - 1 : f[k] \in Int /\ f[k] = g[k + 1]
    <3> TAKE k \in 0 .. a - 1
    <3>1. k + 1 \in 1 .. a
      BY <1>1
    <3>2. w[k + 1] \in Int /\ v[k + 1] \in Int /\ g[k + 1] = w[k + 1] * v[k + 1]
      BY <1>2, <1>3, <3>1 DEF Products
    <3>3. w[k + 1] * v[k + 1] \in Int
      BY <3>2
    <3> QED BY <2>2, <3>1, <3>2, <3>3
  <2> HIDE DEF g
  <2>6. SumOf(f) = SumOver(g, 1 .. a)
    BY <1>1, <1>5, <2>3, SumFromOne
  <2>7. bias + SumOver(g, 1 .. a) = SumOver(g, 1 .. a) + bias
        /\ SumOver(g, 1 .. a) + bias \in Int
    BY <1>3, <1>4
  <2> QED BY <1>4, <2>1, <2>6, <2>7
<1>7. CASE Folded(n)
  <2> DEFINE p == [k \in 1 .. a |-> (w[k] * model.inv[k]) * raw[k]]
             q == [k \in 1 .. a |-> w[k] * model.mean[k] * model.inv[k]]
  <2>1. n = 1 /\ model.kernel = "hardcoded_raw"
    BY <1>7 DEF Folded
  <2>2. /\ model.mean \in [1 .. a -> Int] /\ model.inv \in [1 .. a -> Int]
        /\ Dim(model) = a
    BY <1>0, <2>1, NetworkShape, NetworkSizes
  <2>3. \A k \in 1 .. a : raw[k] \in Int
    <3>1. Len(raw) = a
      BY <2>1, <2>2 DEF RawAccepted
    <3> QED BY <3>1, ElementOfSeq
  <2>4. \A k \in 1 .. a : v[k] = (raw[k] - model.mean[k]) * model.inv[k]
    <3>1. v = Vector
      BY <1>0, <2>1, ActivationsType
    <3>2. Len(raw) = a
      BY <2>1, <2>2 DEF RawAccepted
    <3>3. \A k \in 1 .. a : k <= a
      OBVIOUS
    <3> HIDE DEF a, v
    <3> QED BY <2>2, <3>1, <3>2, <3>3 DEF Vector, Scaled
  <2>5. B(n, j) = bias - SumOf(q)
    BY <1>7 DEF B
  <2>6. \A k \in 0 .. a - 1 : f[k] = (w[k + 1] * model.inv[k + 1]) * raw[k + 1]
    BY <1>7 DEF Entered, LayerInput
  <2> HIDE DEF a, v, w, bias
  <2>7. \A k \in 1 .. a : p[k] \in Int /\ q[k] \in Int /\ g[k] = p[k] - q[k]
    <3> TAKE k \in 1 .. a
    <3>1. w[k] \in Int /\ raw[k] \in Int /\ model.mean[k] \in Int /\ model.inv[k] \in Int
      BY <1>3, <2>2, <2>3
    <3>2. /\ (w[k] * model.inv[k]) * raw[k] \in Int
          /\ (w[k] * model.mean[k]) * model.inv[k] \in Int
      <4>1. w[k] * model.inv[k] \in Int /\ w[k] * model.mean[k] \in Int
        BY <3>1
      <4> QED BY <3>1, <4>1
    <3>3. w[k] * ((raw[k] - model.mean[k]) * model.inv[k])
            = (w[k] * model.inv[k]) * raw[k] - (w[k] * model.mean[k]) * model.inv[k]
      BY <3>1, ScaledProduct
    <3>4. g[k] = w[k] * v[k]
      BY DEF Products
    <3> QED BY <2>4, <3>2, <3>3, <3>4
  <2>8. \A k \in 0 .. a - 1 : f[k] \in Int /\ f[k] = p[k + 1]
    <3> TAKE k \in 0 .. a - 1
    <3>1. k + 1 \in 1 .. a
      BY <1>1
    <3>2. p[k + 1] = (w[k + 1] * model.inv[k + 1]) * raw[k + 1]
      BY <3>1
    <3>3. p[k + 1] \in Int
      BY <2>7, <3>1
    <3> HIDE DEF p
    <3> QED BY <2>6, <3>1, <3>2, <3>3
  <2>9. SumOf(q) = SumOver(q, 1 .. a)
    BY DEF SumOf, SumOver
  <2> HIDE DEF g, p, q
  <2>11. SumOver(g, 1 .. a) = SumOver(p, 1 .. a) - SumOver(q, 1 .. a)
    BY <1>1, <2>7, SumMinus
  <2>12. SumOver(p, 1 .. a) \in Int /\ SumOver(q, 1 .. a) \in Int
    <3>1. IsFiniteSet(1 .. a)
      BY <1>1, FS_Interval
    <3> QED BY <2>7, <3>1, SumInt
  <2>14. SumOf(f) = SumOver(p, 1 .. a)
    BY <1>1, <1>5, <2>8, SumFromOne
  <2>15. bias - SumOver(q, 1 .. a) + SumOver(p, 1 .. a) = SumOver(g, 1 .. a) + bias
    BY <1>3, <2>11, <2>12
  <2>16. SumOver(g, 1 .. a) + bias \in Int
    BY <1>3, <1>4
  <2> QED BY <1>4, <2>5, <2>9, <2>14, <2>15, <2>16
<1> QED BY <1>6, <1>7

-----------------------------------------------------------------------------
(* The layouts of the weights *)

\* The weights as W lays them out, [in][out].
LEMMA WeightsInRows ==
  ASSUME KernelAssumption, model \in Models, Mlp, NEW n \in 1 .. Layers,
         NEW k \in 0 .. size(n) - 1, NEW j \in 0 .. size(n + 1) - 1
  PROVE  /\ k * size(n + 1) + j \in DOMAIN W_REF(n)
         /\ W_REF(n)[k * size(n + 1) + j] = Entered(n, j, k)
         /\ ~Folded(n) => W(n)[k * size(n + 1) + j] = Entered(n, j, k)
<1> DEFINE a == size(n)
           b == size(n + 1)
           c == k * b + j
<1>0. Layered
  BY DEF Mlp, Layered
<1>1. a \in Nat \ {0} /\ b \in Nat \ {0}
  BY <1>0, NetworkShape
<1>2. W(n) = [e \in 0 .. a * b - 1 |-> model.weight[n][(e % b) + 1][(e \div b) + 1]]
  BY DEF W
<1>3. W_REF(n) = IF Folded(n)
                 THEN [e \in DOMAIN W(n) |-> W(n)[e] * model.inv[(e \div b) + 1]]
                 ELSE W(n)
  BY DEF W_REF
<1>4. k \in 0 .. a - 1 /\ j \in 0 .. b - 1
  OBVIOUS
<1> HIDE DEF a, b
<1>5. c \in 0 .. a * b - 1 /\ c % b = j /\ c \div b = k
  BY <1>1, <1>4, RowByRow
<1> HIDE DEF c
<1>6. W(n)[c] = model.weight[n][j + 1][k + 1] /\ c \in DOMAIN W(n)
  BY <1>2, <1>5
<1>7. /\ Folded(n) => W_REF(n)[c] = W(n)[c] * model.inv[k + 1]
      /\ ~Folded(n) => W_REF(n)[c] = W(n)[c]
      /\ c \in DOMAIN W_REF(n)
  BY <1>3, <1>5, <1>6
<1>8. W_REF(n)[c] = Entered(n, j, k) /\ (~Folded(n) => W(n)[c] = Entered(n, j, k))
  BY <1>6, <1>7 DEF Entered
<1> QED BY <1>7, <1>8 DEF c, b

\* The tiles of a layer do not overlap, and stop where the single outputs begin.
LEMMA TilesApart ==
  ASSUME KernelAssumption, NEW n \in Nat, NEW b \in block_plan(n), NEW c \in block_plan(n)
  PROVE  /\ b[1] + b[2] <= n - (n % Lanes)
         /\ b[1] < c[1] + c[2] /\ c[1] < b[1] + b[2] => b = c
         /\ n - (n % Lanes) \in 0 .. n
<1> DEFINE f == 4 * Lanes
           d == 2 * Lanes
           r16 == n % f
           r8 == n % d
           r4 == n % Lanes
           p == n \div f
<1>1. /\ Lanes \in Nat \ {0} /\ f \in Nat \ {0} /\ d \in Nat \ {0}
      /\ f = 2 * d /\ d = 2 * Lanes /\ n \in Int
  BY DEF KernelAssumption
<1>2. /\ r16 \in 0 .. f - 1 /\ r8 \in 0 .. d - 1
      /\ r16 >= d => r8 = r16 - d
      /\ r16 < d => r8 = r16
      /\ r8 >= Lanes => r4 = r8 - Lanes
      /\ r8 < Lanes => r4 = r8
  <2>1. /\ n % (2 * Lanes) \in 0 .. 2 * Lanes - 1
        /\ n % (2 * Lanes) >= Lanes => n % Lanes = (n % (2 * Lanes)) - Lanes
        /\ n % (2 * Lanes) < Lanes => n % Lanes = n % (2 * Lanes)
    BY <1>1, ModOfHalf
  <2> HIDE DEF f, d
  <2>2. /\ n % (2 * d) \in 0 .. 2 * d - 1
        /\ n % (2 * d) >= d => n % d = (n % (2 * d)) - d
        /\ n % (2 * d) < d => n % d = n % (2 * d)
    BY <1>1, ModOfHalf
  <2> QED BY <1>1, <2>1, <2>2
<1>3. \A e \in block_plan(n) : e[1] \in Nat /\ e[2] \in Nat \ {0} /\ e[1] + e[2] <= n
  BY TileFits
<1>4. \A e \in block_plan(n) :
         \/ \E j \in 0 .. n - r16 - 1 : j % f = 0 /\ e = <<j, f>>
         \/ r16 >= d /\ e = <<n - r16, d>>
         \/ r8 >= Lanes /\ e = <<n - r8, Lanes>>
  BY DEF block_plan
<1> HIDE DEF f, d
<1>5. r16 \in 0 .. f - 1 /\ p \in Int /\ n = f * p + r16 /\ f * p \in Int
  <2>1. r16 \in 0 .. f - 1 /\ p \in Int /\ n = f * p + r16
    BY <1>1, DivMod
  <2> HIDE DEF p
  <2> QED BY <1>1, <2>1
<1>6. r4 >= 0 /\ r4 <= n
  <2>1. Lanes \in Nat \ {0} /\ n \in Nat
    BY <1>1
  <2>2. n % Lanes >= 0 /\ n % Lanes <= n
    BY <2>1, RestFits
  <2> QED BY <2>2
<1> HIDE DEF r16, r8, r4, p
\* First come the wide tiles, each at a multiple of its width.
<1>7. ASSUME NEW e \in block_plan(n)
      PROVE  \/ \E q \in Int : e = <<f * q, f>> /\ f * q \in Int /\ f * q + f <= n - r16
             \/ r16 >= d /\ e = <<n - r16, d>>
             \/ r8 >= Lanes /\ e = <<n - r8, Lanes>>
  <2> SUFFICES ASSUME NEW j \in 0 .. n - r16 - 1, j % f = 0, e = <<j, f>>
               PROVE \E q \in Int : e = <<f * q, f>> /\ f * q \in Int /\ f * q + f <= n - r16
    BY <1>4
  <2> DEFINE q == j \div f
  <2>0. j \in Int
    BY <1>1, <1>5
  <2>1. q \in Int /\ j = f * q + 0
    BY <1>1, <2>0, DivMod
  <2> HIDE DEF q
  <2>2. f * q \in Int /\ f * q = j
    BY <1>1, <2>1
  <2>3. f * q < f * p /\ n - r16 = f * p
    BY <1>1, <1>5, <2>2
  <2>4. q < p
    <3>1. ASSUME p < q PROVE FALSE
      <4>1. f * p + f <= f * q
        BY <1>1, <1>5, <2>1, <3>1, Multiples
      <4> QED BY <1>1, <1>5, <2>2, <2>3, <4>1
    <3>2. p # q
      BY <1>5, <2>3
    <3> QED BY <1>5, <2>1, <3>1, <3>2
  <2>5. f * q + f <= f * p
    BY <1>1, <1>5, <2>1, <2>4, Multiples
  <2> QED BY <2>1, <2>2, <2>3, <2>5
<1>8. n - r4 \in 0 .. n
  BY <1>1, <1>2, <1>6
<1>9. b[1] + b[2] <= n - r4
  <2>1. CASE \E q \in Int : b = <<f * q, f>> /\ f * q \in Int /\ f * q + f <= n - r16
    <3>1. b[1] + b[2] <= n - r16
      BY <2>1
    <3>2. r4 <= r16
      BY <1>1, <1>2
    <3> QED BY <1>1, <1>2, <1>3, <1>6, <3>1, <3>2
  <2>2. CASE r16 >= d /\ b = <<n - r16, d>>
    <3>1. b[1] + b[2] = n - r16 + d
      BY <2>2
    <3> QED BY <1>1, <1>2, <2>2, <3>1
  <2>3. CASE r8 >= Lanes /\ b = <<n - r8, Lanes>>
    <3>1. b[1] + b[2] = n - r8 + Lanes
      BY <2>3
    <3> QED BY <1>1, <1>2, <2>3, <3>1
  <2> QED BY <1>7, <2>1, <2>2, <2>3
<1>10. ASSUME b[1] < c[1] + c[2], c[1] < b[1] + b[2]
       PROVE  b = c
  <2>1. ASSUME NEW q \in Int, b = <<f * q, f>>, f * q \in Int, f * q + f <= n - r16
        PROVE  b = c
    <3>1. CASE \E s \in Int : c = <<f * s, f>> /\ f * s \in Int
      <4>1. PICK s \in Int : c = <<f * s, f>> /\ f * s \in Int
        BY <3>1
      <4>2. f * q < f * s + f /\ f * s < f * q + f
        BY <1>10, <2>1, <4>1
      <4>3. ASSUME q < s PROVE FALSE
        <5>1. f * q + f <= f * s
          BY <1>1, <4>3, Multiples
        <5> QED BY <1>1, <2>1, <4>1, <4>2, <5>1
      <4>4. ASSUME s < q PROVE FALSE
        <5>1. f * s + f <= f * q
          BY <1>1, <4>4, Multiples
        <5> QED BY <1>1, <2>1, <4>1, <4>2, <5>1
      <4>5. s = q
        BY <4>3, <4>4
      <4> QED BY <2>1, <4>1, <4>5
    <3>2. CASE r16 >= d /\ c = <<n - r16, d>>
      <4>1. b[1] + b[2] <= c[1]
        BY <2>1, <3>2
      <4> QED BY <1>3, <1>10, <4>1
    <3>3. CASE r8 >= Lanes /\ c = <<n - r8, Lanes>>
      <4>1. r8 <= r16
        BY <1>1, <1>2
      <4>2. b[1] + b[2] <= n - r16 /\ c[1] = n - r8
        BY <2>1, <3>3
      <4> QED BY <1>1, <1>2, <1>3, <1>10, <4>1, <4>2
    <3> QED BY <1>7, <3>1, <3>2, <3>3
  <2>2. ASSUME NEW s \in Int, c = <<f * s, f>>, f * s \in Int, f * s + f <= n - r16
        PROVE  b = c
    <3>1. CASE \E q \in Int : b = <<f * q, f>> /\ f * q \in Int /\ f * q + f <= n - r16
      BY <2>1, <3>1
    <3>2. CASE r16 >= d /\ b = <<n - r16, d>>
      <4>1. c[1] + c[2] <= b[1]
        BY <2>2, <3>2
      <4> QED BY <1>3, <1>10, <4>1
    <3>3. CASE r8 >= Lanes /\ b = <<n - r8, Lanes>>
      <4>1. r8 <= r16
        BY <1>1, <1>2
      <4>2. c[1] + c[2] <= n - r16 /\ b[1] = n - r8
        BY <2>2, <3>3
      <4> QED BY <1>1, <1>2, <1>3, <1>10, <4>1, <4>2
    <3> QED BY <1>7, <3>1, <3>2, <3>3
  <2>3. CASE r16 >= d /\ b = <<n - r16, d>>
    <3>1. CASE r16 >= d /\ c = <<n - r16, d>>
      BY <2>3, <3>1
    <3>2. CASE r8 >= Lanes /\ c = <<n - r8, Lanes>>
      <4>1. b[1] + b[2] = n - r16 + d /\ c[1] = n - r8 /\ r8 = r16 - d
        BY <1>2, <2>3, <3>2
      <4> QED BY <1>1, <1>2, <1>3, <1>10, <4>1
    <3> QED BY <1>7, <2>2, <3>1, <3>2
  <2>4. CASE r8 >= Lanes /\ b = <<n - r8, Lanes>>
    <3>1. CASE r16 >= d /\ c = <<n - r16, d>>
      <4>1. c[1] + c[2] = n - r16 + d /\ b[1] = n - r8 /\ r8 = r16 - d
        BY <1>2, <2>4, <3>1
      <4> QED BY <1>1, <1>2, <1>3, <1>10, <4>1
    <3>2. CASE r8 >= Lanes /\ c = <<n - r8, Lanes>>
      BY <2>4, <3>2
    <3> QED BY <1>7, <2>2, <3>1, <3>2
  <2> QED BY <1>7, <2>1, <2>3, <2>4
<1> QED BY <1>8, <1>9, <1>10 DEF r4

\* The weights of a tile, as they were packed.
LEMMA WeightsInTiles ==
  ASSUME KernelAssumption, NEW n, size(n) \in Nat \ {0}, size(n + 1) \in Nat,
         NEW b \in block_plan(size(n + 1)), NEW e \in 0 .. b[2] - 1,
         NEW k \in 0 .. size(n) - 1, NEW w
  PROVE  PackedBy(n, w)[size(n) * b[1] + k * b[2] + e] = w[k * size(n + 1) + (b[1] + e)]
<1> DEFINE a == size(n)
           m == size(n + 1)
           s == k * b[2] + e
           p == a * b[1] + k * b[2] + e
           At(c) == p \in a * c[1] .. a * (c[1] + c[2]) - 1
           V(z) == LET c == Tile(n, z)
                       u == z - a * c[1]
                   IN  w[(u \div c[2]) * m + c[1] + (u % c[2])]
<1>1. a \in Nat \ {0} /\ m \in Nat /\ b \in block_plan(m) /\ k \in 0 .. a - 1
  OBVIOUS
<1>2. Tile(n, p) = CHOOSE c \in block_plan(m) : At(c)
  BY DEF Tile
<1>3. PackedBy(n, w) = [z \in 0 .. a * Covered(n) - 1 |-> V(z)]
  BY DEF PackedBy
<1>3a. Covered(n) = m - (m % Lanes)
  BY DEF Covered
<1> HIDE DEF a, m
<1>4. b[1] \in Nat /\ b[2] \in Nat \ {0}
  BY <1>1, TileFits
<1>5. s \in 0 .. a * b[2] - 1 /\ s % b[2] = e /\ s \div b[2] = k
  <2>1. e \in 0 .. b[2] - 1 /\ a \in Nat \ {0} /\ k \in 0 .. a - 1 /\ b[2] \in Nat \ {0}
    BY <1>1, <1>4
  <2> DEFINE x == b[2]
  <2>2. e \in 0 .. x - 1 /\ x \in Nat \ {0}
    BY <2>1
  <2> HIDE DEF x, s
  <2>3. /\ k * x + e \in 0 .. a * x - 1
        /\ (k * x + e) % x = e /\ (k * x + e) \div x = k
    BY <2>1, <2>2, RowByRow
  <2> QED BY <2>3 DEF x, s
<1>6. /\ a * b[1] \in Nat /\ a * b[2] \in Nat
      /\ a * (b[1] + b[2]) = a * b[1] + a * b[2]
      /\ k * b[2] \in Int /\ e \in Int
  <2>1. \A x \in Nat : \A y \in Nat : a * x \in Nat /\ a * y \in Nat
                                      /\ a * (x + y) = a * x + a * y
    BY <1>1
  <2>2. \A x \in Nat : k * x \in Int
    BY <1>1
  <2>3. e \in Int
    BY <1>4
  <2> QED BY <1>4, <2>1, <2>2, <2>3
<1>7. p = a * b[1] + s /\ p - a * b[1] = s
  <2> DEFINE x == a * b[1]
             y == k * b[2]
  <2> HIDE DEF x, y
  <2>1. x + y + e = x + (y + e) /\ (x + y + e) - x = y + e
    BY <1>6 DEF x, y
  <2> QED BY <2>1 DEF x, y
<1> HIDE DEF s, p
<1>8. p \in Nat /\ a * b[1] <= p /\ p < a * (b[1] + b[2])
  <2> DEFINE x == a * b[1]
             y == a * b[2]
  <2>1. x \in Nat /\ y \in Nat /\ s \in 0 .. y - 1 /\ a * (b[1] + b[2]) = x + y /\ p = x + s
    BY <1>5, <1>6, <1>7
  <2> HIDE DEF x, y
  <2>2. p \in Nat /\ x <= p /\ p < x + y
    BY <2>1
  <2> QED BY <2>1, <2>2 DEF x
<1>9. At(b)
  <2>1. a * b[1] \in Int /\ a * (b[1] + b[2]) \in Int
    BY <1>1, <1>4
  <2> QED BY <1>8, <2>1
<1>10. ASSUME NEW c \in block_plan(m), At(c) PROVE c = b
  <2>1. c[1] \in Nat /\ c[2] \in Nat \ {0} /\ c[1] + c[2] \in Int /\ b[1] + b[2] \in Int
    BY <1>1, <1>4, TileFits
  <2>2. /\ a * c[1] \in Int /\ a * (c[1] + c[2]) \in Int
        /\ a * b[1] \in Int /\ a * (b[1] + b[2]) \in Int
    <3>1. ASSUME NEW x \in Int PROVE a * x \in Int
      BY <1>1
    <3>2. c[1] \in Int /\ b[1] \in Int
      BY <1>4, <2>1
    <3>3. a * c[1] \in Int /\ a * b[1] \in Int
      BY <3>1, <3>2
    <3>4. a * (c[1] + c[2]) \in Int
      BY <2>1, <3>1
    <3>5. a * (b[1] + b[2]) \in Int
      BY <2>1, <3>1
    <3> QED BY <3>3, <3>4, <3>5
  <2>3. a * c[1] <= p /\ p < a * (c[1] + c[2])
    BY <1>10, <2>2
  <2>4. a * c[1] < a * (b[1] + b[2]) /\ a * b[1] < a * (c[1] + c[2])
    BY <1>8, <2>2, <2>3
  <2>5. c[1] < b[1] + b[2] /\ b[1] < c[1] + c[2]
    <3>1. b[1] \in Int /\ c[1] \in Int
      BY <1>4, <2>1
    <3>2. c[1] < b[1] + b[2]
      BY <1>1, <2>1, <2>4, <3>1, MultiplesOrder
    <3>3. b[1] < c[1] + c[2]
      BY <1>1, <2>1, <2>4, <3>1, MultiplesOrder
    <3> QED BY <3>2, <3>3
  <2> QED BY <1>1, <2>5, TilesApart
<1> HIDE DEF At
<1>11. Tile(n, p) = b
  BY <1>1, <1>2, <1>9, <1>10
<1>12. p \in 0 .. a * Covered(n) - 1
  <2>1. /\ b[1] + b[2] <= m - (m % Lanes)
        /\ m - (m % Lanes) \in 0 .. m
    BY <1>1, TilesApart
  <2> DEFINE x == b[1] + b[2]
             y == m - (m % Lanes)
  <2> HIDE DEF x, y
  <2>2. x \in Int /\ y \in Int /\ x <= y
    BY <1>1, <1>4, <2>1 DEF x, y
  <2>3. a * x \in Int /\ a * y \in Int
    BY <1>1, <2>2
  <2>4. a * x <= a * y
    <3>1. CASE x = y
      BY <2>3, <3>1
    <3>2. CASE x < y
      <4>1. a * x + a <= a * y
        BY <1>1, <2>2, <3>2, Multiples
      <4> QED BY <1>1, <2>3, <4>1
    <3> QED BY <2>2, <3>1, <3>2
  <2>5. p < a * x
    BY <1>8 DEF x
  <2>6. p \in 0 .. a * y - 1
    BY <1>8, <2>3, <2>4, <2>5
  <2> QED BY <1>3a, <2>6 DEF y
<1>13. PackedBy(n, w)[p] = V(p)
  <2> HIDE DEF V
  <2> QED BY <1>3, <1>12
<1>14. V(p) = w[k * m + b[1] + e]
  BY <1>5, <1>7, <1>11
<1>15. k * m + b[1] + e = k * m + (b[1] + e)
  <2>1. k * m \in Int
    BY <1>1
  <2> QED BY <1>4, <1>6, <2>1
<1> QED BY <1>13, <1>14, <1>15 DEF p, a, m

-----------------------------------------------------------------------------
(* The layers of an MLP *)

\* What layer n leaves in its buffer.
Output(n) == IF n = Layers /\ model.kernel = "prototype" THEN Sigmoids(RawOutput(n))
             ELSE Act(n)
InputHeld == \A k \in 0 .. size(l) - 1 : scratch[in + k] = LayerInput(l)[k + 1]
OutputsHeld == \A j \in 0 .. o - 1 : scratch[out + j] = Output(l)[j + 1]

\* A single output is the network's.
LEMMA DotIsTrained ==
  ASSUME KernelAssumption, model \in Models, Mlp, raw \in Seq(Int), RawAccepted,
         l \in 1 .. Layers, InputHeld, NEW j \in 0 .. size(l + 1) - 1
  PROVE  /\ Dot(j, W_REF(l)) = RawOutput(l)[j + 1]
         /\ ~Folded(l) => Dot(j, W(l)) = RawOutput(l)[j + 1]
<1> DEFINE f(w) == [k \in 0 .. size(l) - 1 |-> w[k * size(l + 1) + j] * scratch[in + k]]
<1>1. ASSUME NEW w, \A k \in 0 .. size(l) - 1 :
                       w[k * size(l + 1) + j] = Entered(l, j, k)
      PROVE  Dot(j, w) = RawOutput(l)[j + 1]
  <2> DEFINE g == f(w)
  <2>1. DOMAIN g = 0 .. size(l) - 1
    OBVIOUS
  <2>2. \A k \in 0 .. size(l) - 1 : g[k] = Entered(l, j, k) * LayerInput(l)[k + 1]
    BY <1>1 DEF InputHeld
  <2>3. Dot(j, w) = B(l, j) + SumOf(g)
    BY DEF Dot
  <2> HIDE DEF g
  <2>4. B(l, j) + SumOf(g) = RawOutput(l)[j + 1]
    BY <2>1, <2>2, OutputIsTrained
  <2> QED BY <2>3, <2>4
<1>2. \A k \in 0 .. size(l) - 1 :
         /\ W_REF(l)[k * size(l + 1) + j] = Entered(l, j, k)
         /\ ~Folded(l) => W(l)[k * size(l + 1) + j] = Entered(l, j, k)
  BY WeightsInRows
<1> QED BY <1>1, <1>2

\* An output of a tile is the network's.
LEMMA TiledIsTrained ==
  ASSUME KernelAssumption, model \in Models, Mlp, raw \in Seq(Int), RawAccepted,
         l \in 1 .. Layers, InputHeld, NEW b \in block_plan(size(l + 1)), b[1] = o,
         NEW e \in 0 .. b[2] - 1
  PROVE  Tiled(b[2], e, PackedBy(l, W_REF(l))) = RawOutput(l)[(o + e) + 1]
<1> DEFINE w == PackedBy(l, W_REF(l))
           a == size(l)
           m == size(l + 1)
           g == [k \in 0 .. a - 1 |-> w[a * o + k * b[2] + e] * scratch[in + k]]
<1>0. Layered
  BY DEF Mlp, Layered
<1>1. a \in Nat \ {0} /\ m \in Nat \ {0}
  BY <1>0, NetworkShape
<1>2. o \in Nat /\ b[2] \in Nat \ {0} /\ o + b[2] <= m
  BY <1>1, TileFits
<1>3. o + e \in 0 .. m - 1
  BY <1>1, <1>2
<1>4. \A k \in 0 .. a - 1 : w[a * o + k * b[2] + e] = Entered(l, o + e, k)
  <2> TAKE k \in 0 .. a - 1
  <2>1. PackedBy(l, W_REF(l))[a * b[1] + k * b[2] + e]
          = W_REF(l)[k * m + (b[1] + e)]
    BY <1>1, WeightsInTiles
  <2>2. W_REF(l)[k * m + (o + e)] = Entered(l, o + e, k)
    BY <1>3, WeightsInRows
  <2> QED BY <2>1, <2>2
<1>5. \A k \in 0 .. a - 1 : g[k] = Entered(l, o + e, k) * LayerInput(l)[k + 1]
  <2> HIDE DEF w
  <2> QED BY <1>4 DEF InputHeld
<1>6. DOMAIN g = 0 .. a - 1
  OBVIOUS
<1>7. Tiled(b[2], e, w) = B(l, o + e) + SumOf(g)
  BY DEF Tiled
<1> HIDE DEF g
<1>8. B(l, o + e) + SumOf(g) = RawOutput(l)[(o + e) + 1]
  BY <1>3, <1>5, <1>6, OutputIsTrained
<1> QED BY <1>7, <1>8

\* Whatever the kernel and its layout, the outputs written are the network's.
LEMMA LayerOutputs ==
  ASSUME KernelAssumption, KernelTypeOK, raw \in Seq(Int), RawAccepted, InputHeld,
         \/ mlp_layer_neon \/ mlp_layer_scalar \/ layer_forward_avx2
         \/ emit_wide_block \/ emit_dot_outputs
  PROVE  \E n \in Nat \ {0} : \E acc :
            /\ Room(n) /\ Write(n, acc)
            /\ \A j \in o .. o + n - 1 : acc[j] = RawOutput(l)[j + 1]
<1>1. phase = "layer" /\ Mlp
  BY DEF mlp_layer_neon, mlp_layer_scalar, layer_forward_avx2, emit_wide_block,
         emit_dot_outputs, Turn, Mlp
<1>2. /\ model \in Models /\ Layered /\ l \in 1 .. Layers
      /\ o \in 0 .. size(l + 1) - 1
  BY <1>1 DEF KernelTypeOK
<1>3. size(l + 1) \in Nat \ {0}
  BY <1>2, NetworkShape
<1>4. Room(1)
  BY <1>2, <1>3 DEF Room
<1>5. Lanes \in Nat \ {0} /\ 2 * Lanes \in Nat \ {0}
  BY DEF KernelAssumption
<1>6. CASE \/ mlp_layer_neon \/ mlp_layer_scalar \/ layer_forward_avx2
  <2>1. \/ Outputs(1)
        \/ Outputs(Lanes) /\ Room(Lanes)
        \/ Outputs(2 * Lanes) /\ Room(2 * Lanes)
    BY <1>6 DEF mlp_layer_neon, mlp_layer_scalar, layer_forward_avx2
  <2>2. PICK n \in Nat \ {0} : Room(n) /\ Outputs(n)
    BY <1>4, <1>5, <2>1
  <2>3. ~Folded(l)
    BY <1>6 DEF Folded, mlp_layer_neon, mlp_layer_scalar, layer_forward_avx2, Turn
  <2> DEFINE acc == [j \in o .. o + n - 1 |-> Dot(j, W(l))]
  <2>4. Write(n, acc)
    BY <2>2 DEF Outputs
  <2>5. \A j \in o .. o + n - 1 : acc[j] = RawOutput(l)[j + 1]
    <3> TAKE j \in o .. o + n - 1
    <3>1. j \in 0 .. size(l + 1) - 1
      BY <1>2, <1>3, <2>2 DEF Room
    <3>2. Dot(j, W(l)) = RawOutput(l)[j + 1]
      BY <1>1, <1>2, <2>3, <3>1, DotIsTrained
    <3> QED BY <3>2
  <2> HIDE DEF acc
  <2> QED BY <2>2, <2>4, <2>5
<1>7. CASE emit_wide_block
  <2> DEFINE w == PackedBy(l, W_REF(l))
  <2>1. PICK b \in block_plan(size(l + 1)) :
          /\ b[1] = o
          /\ Write(b[2], [j \in o .. o + b[2] - 1 |-> Tiled(b[2], j - o, w)])
    BY <1>7 DEF emit_wide_block
  <2>2. b[2] \in Nat \ {0} /\ Room(b[2])
    BY <1>3, <2>1, TileFits DEF Room
  <2> DEFINE acc == [j \in o .. o + b[2] - 1 |-> Tiled(b[2], j - o, w)]
  <2>3. \A j \in o .. o + b[2] - 1 : acc[j] = RawOutput(l)[j + 1]
    <3> TAKE j \in o .. o + b[2] - 1
    <3>1. j - o \in 0 .. b[2] - 1 /\ o + (j - o) = j
      BY <1>2, <1>3, <2>2
    <3>2. Tiled(b[2], j - o, w) = RawOutput(l)[(o + (j - o)) + 1]
      <4> DEFINE e == j - o
      <4> HIDE DEF e
      <4>1. e \in 0 .. b[2] - 1
        BY <3>1 DEF e
      <4>2. Tiled(b[2], e, PackedBy(l, W_REF(l))) = RawOutput(l)[(o + e) + 1]
        BY <1>1, <1>2, <2>1, <4>1, TiledIsTrained
      <4> QED BY <4>2 DEF e
    <3> HIDE DEF w
    <3> QED BY <3>1, <3>2
  <2> HIDE DEF w
  <2>4. Write(b[2], acc)
    BY <2>1
  <2> HIDE DEF acc
  <2> QED BY <2>2, <2>3, <2>4
<1>8. CASE emit_dot_outputs
  <2> DEFINE acc == [j \in {o} |-> Dot(j, W_REF(l))]
  <2>1. Write(1, acc)
    BY <1>8 DEF emit_dot_outputs
  <2>2. \A j \in o .. o + 1 - 1 : acc[j] = RawOutput(l)[j + 1]
    <3> TAKE j \in o .. o + 1 - 1
    <3>1. j = o /\ o \in 0 .. size(l + 1) - 1
      BY <1>2, <1>3
    <3>2. Dot(o, W_REF(l)) = RawOutput(l)[o + 1]
      BY <1>1, <1>2, <3>1, DotIsTrained
    <3> QED BY <3>1, <3>2
  <2> HIDE DEF acc
  <2> QED BY <1>4, <2>1, <2>2
<1> QED BY <1>6, <1>7, <1>8

\* A layer reads and writes different cells, all of them in the memory.
Apart == /\ Reads \cap Writes = {}
         /\ Reads \cup Writes \subseteq 0 .. ScratchCells - 1

\* The two buffers, and the input of the hardcoded kernel, do not overlap.
LEMMA LayersApart ==
  ASSUME KernelAssumption, KernelTypeOK, phase = "layer" PROVE Apart
<1>1. /\ model \in Models /\ Layered /\ l \in 1 .. Layers
      /\ o \in 0 .. size(l + 1) - 1 /\ Buffers
  BY DEF KernelTypeOK
<1> DEFINE a == Cells(size(l))
           b == Cells(size(l + 1))
<1>2. /\ ScratchCells \in Nat /\ BufB \in Nat \ {0}
      /\ a \in Nat /\ a <= BufB /\ b \in Nat /\ b <= BufB
      /\ 2 * BufB <= ScratchCells
      /\ Hardcoded => /\ model.kind = "mlp" /\ Input = 2 * BufB
                      /\ Input + size(1) = ScratchCells
  <2>1. l \in 1 .. Layers + 1 /\ l + 1 \in 1 .. Layers + 1
    BY <1>1, NetworkShape
  <2> QED BY <1>1, <2>1, CellsFit
<1>3. Reads = in .. in + a - 1 /\ Writes = out .. out + b - 1
  BY DEF Reads, Writes
<1>4. Hardcoded /\ l = 1 => a = size(1) /\ size(1) \in Nat
  <2>1. size(l) \in Nat
    BY <1>1, NetworkShape
  <2> QED BY <1>2, <2>1 DEF Cells
<1> HIDE DEF a, b
<1>5. CASE in = 0 /\ out = BufB
  BY <1>2, <1>3, <1>5 DEF Apart
<1>6. CASE in = BufB /\ out = 0
  BY <1>2, <1>3, <1>6 DEF Apart
<1>7. CASE Hardcoded /\ l = 1 /\ in = Input /\ out = 0
  BY <1>2, <1>3, <1>4, <1>7 DEF Apart
<1> QED BY <1>1, <1>5, <1>6, <1>7 DEF Buffers

MlpInv == Mlp /\ phase # "ready" =>
    /\ raw \in Seq(Int) /\ RawAccepted
    /\ phase = "layer" => InputHeld /\ OutputsHeld
    /\ phase = "argmax" =>
          \A j \in 0 .. size(Layers + 1) - 1 : scratch[in + j] = Output(Layers)[j + 1]

LEMMA StoredAt ==
  ASSUME NEW cells, NEW mem, NEW c
  PROVE  /\ c \in DOMAIN cells => Stored(cells, mem)[c] = cells[c]
         /\ c \in DOMAIN mem /\ c \notin DOMAIN cells => Stored(cells, mem)[c] = mem[c]
BY DEF Stored

\* The entry of the kernel holds the vector for the first layer.
LEMMA MlpEntry ==
  ASSUME KernelAssumption, KernelTypeOK, NEW v \in Vectors, Predict(v)
  PROVE  MlpInv'
<1> DEFINE s == IF model.kernel = "hardcoded_raw" THEN v ELSE Scaled(model, v)
<1> SUFFICES ASSUME Mlp PROVE MlpInv'
  BY DEF MlpInv, Mlp, Predict, Entry
<1>1. /\ model \in Models /\ Layered /\ Entry(s) /\ Accepted(v)
      /\ model' = model /\ raw' = v /\ phase' = "layer" /\ l' = 1 /\ o' = 0
      /\ v \in Seq(Int)
  BY DEF Predict, Entry, KernelTypeOK, Layered, Mlp, KernelAssumption
<1>2. Dim(model) = model.sizes[1] /\ model.sizes[1] \in Nat \ {0}
  <2>1. 1 \in 1 .. Layers + 1
    BY <1>1, NetworkSizes
  <2> QED BY <1>1, <2>1, NetworkSizes DEF size
<1>3. RawAccepted'
  <2>1. model.kernel = "hardcoded_raw" => Len(v) = Dim(model)
    BY <1>1 DEF Accepted, Classifier
  <2> QED BY <1>1, <2>1 DEF RawAccepted
<1>4. Activations(model, Scaled(model, v))[0] = Scaled(model, v)
  <2>1. Len(model.weight) \in Nat
    BY <1>1, NetworkSizes DEF Layers
  <2> QED BY <2>1, ActivationsByLayer
<1>5. \A k \in 0 .. model.sizes[1] - 1 : scratch'[in' + k] = s[k + 1]
  <2>1. CASE Hardcoded
    <3> DEFINE cells == [c \in Input .. Input + Dim(model) - 1 |-> s[c - Input + 1]]
    <3>1. scratch' = Stored(cells, scratch) /\ in' = Input
      BY <1>1, <2>1 DEF Entry, Mlp
    <3>2. Input \in Nat
      BY <1>1, NetworkSizes DEF Input
    <3>3. \A k \in 0 .. model.sizes[1] - 1 :
             /\ Input + k \in Input .. Input + Dim(model) - 1
             /\ (Input + k) - Input = k
      <4> HIDE DEF s
      <4> QED BY <1>2, <3>2
    <3>4. \A k \in 0 .. model.sizes[1] - 1 :
             Input + k \in DOMAIN cells /\ cells[Input + k] = s[k + 1]
      <4> HIDE DEF s
      <4> QED BY <3>3
    <3> HIDE DEF cells, s
    <3> QED BY <3>1, <3>4, StoredAt
  <2>2. CASE ~Hardcoded
    <3>1. scratch' = Stored(memcpy(s), scratch) /\ in' = 0
      BY <1>1, <2>2 DEF Entry, Mlp
    <3> HIDE DEF s
    <3>2. \A k \in 0 .. model.sizes[1] - 1 :
             k \in DOMAIN memcpy(s) /\ memcpy(s)[k] = s[k + 1] /\ 0 + k = k
      BY <1>2 DEF memcpy
    <3>3. \A k \in 0 .. model.sizes[1] - 1 : scratch'[k] = s[k + 1]
      BY <3>1, <3>2, StoredAt
    <3> QED BY <3>1, <3>2, <3>3
  <2> QED BY <2>1, <2>2
<1>6. InputHeld'
  <2>1. LayerInput(l)' = s
    <3>1. (model.kernel = "hardcoded_raw")' <=> model.kernel = "hardcoded_raw"
      BY <1>1
    <3>2. CASE model.kernel = "hardcoded_raw"
      BY <1>1, <3>2 DEF LayerInput, Folded
    <3>3. CASE model.kernel # "hardcoded_raw"
      <4>1. l' - 1 = 0
        BY <1>1
      <4> QED BY <1>1, <1>4, <3>3, <4>1 DEF LayerInput, Folded, Act, Vector
    <3> QED BY <3>2, <3>3
  <2> HIDE DEF s
  <2>2. size(l)' = model.sizes[1]
    BY <1>1 DEF size
  <2> QED BY <1>5, <2>1, <2>2 DEF InputHeld
<1>7. OutputsHeld'
  BY <1>1 DEF OutputsHeld
<1> HIDE DEF s
<1> QED BY <1>1, <1>3, <1>6, <1>7 DEF MlpInv

\* The activation function of a kernel is the network's.
LEMMA ActivatedIs ==
  ASSUME KernelAssumption, model \in Models, Mlp, raw \in Seq(Int), l \in 1 .. Layers,
         NEW j \in 0 .. size(l + 1) - 1
  PROVE  Activated(RawOutput(l)[j + 1]) = Output(l)[j + 1]
<1> DEFINE b == size(l + 1)
           v == Act(l - 1)
           y == RawOutput(l)
<1>0. Layered
  BY DEF Mlp, Layered
<1>1. b \in Nat /\ j + 1 \in 1 .. b
  BY <1>0, NetworkShape
<1>2. y \in [1 .. b -> Int]
  <2>1. /\ l - 1 \in 0 .. Layers /\ (l - 1) + 1 = l
        /\ l \in 1 .. Len(model.weight) /\ IsNetwork(model)
    BY <1>0, NetworkShape, NetworkSizes
  <2>2. v \in [1 .. size((l - 1) + 1) -> Int]
    BY <1>0, <2>1, ActivationsType
  <2>3. v \in [1 .. model.sizes[l] -> Int]
    BY <2>1, <2>2 DEF size
  <2> HIDE DEF v
  <2>4. Raw(model, l, v) \in [1 .. model.sizes[l + 1] -> Int]
    BY <2>1, <2>3, RawType
  <2> QED BY <2>4 DEF v, RawOutput, size
<1>3. Act(l) = IF Final THEN y ELSE Relus(y)
  <2>1. Act(l) = LayerOf(model, l, v)
    BY <1>0, ActivationsType
  <2>2. LayerOf(model, l, v) = IF l = Len(model.weight) THEN Raw(model, l, v)
                               ELSE IF model.kind = "mlp" THEN Relus(Raw(model, l, v))
                               ELSE Signs(Raw(model, l, v))
    BY LayerByRaw
  <2> QED BY <2>1, <2>2 DEF Final, Layers, RawOutput, Mlp
<1> HIDE DEF b, v, y
<1>4. Relus(y)[j + 1] = Relu(y[j + 1]) /\ Sigmoids(y)[j + 1] = fast_sigmoid(y[j + 1])
  <2>1. Relus(y)[j + 1] = Relu(y[j + 1])
    BY <1>1, <1>2, RelusType
  <2>2. DOMAIN y = 1 .. b
    BY <1>2
  <2>3. Sigmoids(y)[j + 1] = fast_sigmoid(y[j + 1])
    BY <1>1, <2>2 DEF Sigmoids
  <2> QED BY <2>1, <2>3
<1>5. Output(l) = IF Final /\ model.kernel = "prototype" THEN Sigmoids(y)
                  ELSE IF Final THEN y ELSE Relus(y)
  BY <1>3 DEF Output, Final, y
<1>6. Activated(y[j + 1]) = IF Final /\ model.kernel = "prototype"
                            THEN fast_sigmoid(y[j + 1])
                            ELSE IF Final THEN y[j + 1] ELSE Relu(y[j + 1])
  BY DEF Activated
<1>7. Activated(y[j + 1]) = Output(l)[j + 1]
  BY <1>4, <1>5, <1>6
<1> QED BY <1>7 DEF y

\* The outputs of this turn join those that are there; at the end of the layer
\* the buffers change places, and the outputs are the next inputs.
LEMMA MlpWrite ==
  ASSUME KernelAssumption, KernelTypeOK, StaysInScratch, MlpInv,
         \/ mlp_layer_neon \/ mlp_layer_scalar \/ layer_forward_avx2
         \/ emit_wide_block \/ emit_dot_outputs
  PROVE  MlpInv'
<1>1. phase = "layer" /\ Mlp /\ phase # "ready"
  BY DEF mlp_layer_neon, mlp_layer_scalar, layer_forward_avx2, emit_wide_block,
         emit_dot_outputs, Turn, Mlp
<1>2. /\ model \in Models /\ Layered /\ l \in 1 .. Layers
      /\ o \in 0 .. size(l + 1) - 1 /\ Buffers
  BY <1>1 DEF KernelTypeOK
<1>3. raw \in Seq(Int) /\ RawAccepted /\ InputHeld /\ OutputsHeld
  BY <1>1 DEF MlpInv
<1>4. PICK n \in Nat \ {0} : \E acc :
         /\ Room(n) /\ Write(n, acc)
         /\ \A j \in o .. o + n - 1 : acc[j] = RawOutput(l)[j + 1]
  BY <1>3, LayerOutputs
<1>5. PICK acc : /\ Room(n) /\ Write(n, acc)
                 /\ \A j \in o .. o + n - 1 : acc[j] = RawOutput(l)[j + 1]
  BY <1>4
<1> DEFINE a == size(l)
           b == size(l + 1)
           D == 0 .. ScratchCells - 1
           cells == [c \in out + o .. out + o + n - 1 |-> Activated(acc[c - out])]
           y == Output(l)
           x == LayerInput(l)
<1>6. /\ a \in Nat \ {0} /\ b \in Nat \ {0} /\ Layers \in Nat
      /\ in \in Nat /\ out \in Nat
  <2>1. a \in Nat \ {0} /\ b \in Nat \ {0} /\ Layers \in Nat
    BY <1>2, NetworkShape, NetworkSizes
  <2>2. in \in Nat /\ out \in Nat
    <3>1. MaxSize \in Nat /\ BufB \in Nat
      BY <1>2, NetworkSizes, CellsFit
    <3> QED BY <1>2, <3>1 DEF Buffers, Input
  <2> QED BY <2>1, <2>2
<1>7. o \in Nat /\ o < b /\ o + n <= b
  BY <1>2, <1>5, <1>6 DEF Room
<1>8. /\ scratch' = Stored(cells, scratch) /\ Advance(n)
      /\ model' = model /\ raw' = raw /\ DOMAIN scratch = D
  BY <1>5 DEF Write, StaysInScratch
<1>9. /\ \A k \in 0 .. a - 1 : \A j \in 0 .. b - 1 : in + k # out + j
      /\ \A k \in 0 .. a - 1 : in + k \in D
      /\ \A j \in 0 .. b - 1 : out + j \in D
  <2>1. Apart
    BY <1>1, LayersApart
  <2>2. Reads = in .. in + a - 1 /\ Writes = out .. out + b - 1
    BY <1>1 DEF Reads, Writes, Cells, Mlp
  <2> HIDE DEF a, b, D
  <2>3. \A k \in 0 .. a - 1 : in + k \in Reads
    BY <1>6, <2>2
  <2>4. \A j \in 0 .. b - 1 : out + j \in Writes
    BY <1>6, <2>2
  <2> QED BY <2>1, <2>3, <2>4 DEF Apart, D
<1>10. \A j \in o .. o + n - 1 : Activated(acc[j]) = y[j + 1]
  <2> TAKE j \in o .. o + n - 1
  <2>1. j \in 0 .. size(l + 1) - 1
    BY <1>6, <1>7
  <2>2. Activated(RawOutput(l)[j + 1]) = Output(l)[j + 1]
    BY <1>1, <1>2, <1>3, <2>1, ActivatedIs
  <2> QED BY <1>5, <2>2
<1>11. \A k \in 0 .. a - 1 : scratch[in + k] = x[k + 1]
  BY <1>3 DEF InputHeld
<1>12. \A j \in 0 .. o - 1 : scratch[out + j] = y[j + 1]
  BY <1>3 DEF OutputsHeld
<1> HIDE DEF a, b, D, x, y
\* The memory after the outputs were written.
<1>13. \A c : c \in DOMAIN cells <=> c \in out + o .. out + o + n - 1
  OBVIOUS
<1>14. \A j \in o .. o + n - 1 : cells[out + j] = y[j + 1] /\ out + j \in DOMAIN cells
  <2> TAKE j \in o .. o + n - 1
  <2>1. out + j \in out + o .. out + o + n - 1 /\ (out + j) - out = j
    BY <1>6, <1>7
  <2> QED BY <1>10, <2>1
<1> HIDE DEF cells
<1>15. \A j \in 0 .. o + n - 1 : scratch'[out + j] = y[j + 1]
  <2> TAKE j \in 0 .. o + n - 1
  <2>1. CASE j \in o .. o + n - 1
    BY <1>8, <1>14, <2>1, StoredAt
  <2>2. CASE j \in 0 .. o - 1
    <3>1. out + j \notin DOMAIN cells
      BY <1>6, <1>7, <1>13, <2>2
    <3>2. out + j \in DOMAIN scratch
      BY <1>6, <1>7, <1>8, <1>9, <2>2
    <3> QED BY <1>8, <1>12, <2>2, <3>1, <3>2, StoredAt
  <2> QED BY <1>7, <2>1, <2>2
<1>16. \A k \in 0 .. a - 1 : scratch'[in + k] = x[k + 1]
  <2> TAKE k \in 0 .. a - 1
  <2>1. in + k \notin DOMAIN cells
    <3> SUFFICES ASSUME in + k \in out + o .. out + o + n - 1 PROVE FALSE
      BY <1>13
    <3>1. (in + k) - out \in 0 .. b - 1 /\ out + ((in + k) - out) = in + k
      BY <1>6, <1>7
    <3> QED BY <1>9, <3>1
  <2>2. in + k \in DOMAIN scratch
    BY <1>8, <1>9
  <2> QED BY <1>8, <1>11, <2>1, <2>2, StoredAt
<1>17. raw' \in Seq(Int) /\ RawAccepted'
  BY <1>3, <1>8 DEF RawAccepted
<1>18. CASE o + n < b
  <2>1. o' = o + n /\ l' = l /\ in' = in /\ out' = out /\ phase' = phase
    BY <1>8, <1>18 DEF Advance, b
  <2>2. LayerInput(l)' = x /\ Output(l)' = y /\ size(l)' = a
    BY <1>8, <2>1 DEF LayerInput, Folded, Act, Vector, Output, RawOutput, Layers,
                     size, x, y, a
  <2>3. InputHeld'
    BY <1>16, <2>1, <2>2 DEF InputHeld
  <2>4. \A j \in 0 .. o' - 1 : scratch'[out' + j] = y[j + 1]
    <3>1. o + n - 1 = o' - 1
      BY <1>7, <2>1
    <3> QED BY <1>15, <2>1, <3>1
  <2>5. OutputsHeld'
    BY <2>2, <2>4 DEF OutputsHeld
  <2> QED BY <1>1, <1>17, <2>1, <2>3, <2>5 DEF MlpInv
<1>19. CASE ~(o + n < b)
  <2>1. o + n = b
    BY <1>6, <1>7, <1>19
  <2>2. /\ o' = 0 /\ in' = out
        /\ l = Layers => phase' = "argmax"
        /\ l # Layers => l' = l + 1 /\ phase' = "layer"
    BY <1>1, <1>8, <1>19 DEF Advance, b
  <2> DEFINE m == o + n
  <2> HIDE DEF m
  <2>5. \A j \in 0 .. m - 1 : scratch'[out + j] = y[j + 1]
    <3>1. o + n - 1 = m - 1
      BY <1>7 DEF m
    <3> QED BY <1>15, <3>1
  <2>6. m = b
    BY <2>1 DEF m
  <2>7. \A j \in 0 .. b - 1 : scratch'[in' + j] = y[j + 1]
    BY <2>2, <2>5, <2>6
  <2>3. CASE l = Layers
    <3>1. Output(Layers)' = y /\ size(Layers + 1)' = b
      BY <1>8, <2>3 DEF Output, RawOutput, Act, Vector, Layers, size, y, b
    <3> QED BY <1>17, <2>2, <2>3, <2>7, <3>1 DEF MlpInv
  <2>4. CASE l # Layers
    <3>1. LayerInput(l)' = y
      <4>1. l' = l + 1 /\ l' # 1 /\ l' - 1 = l
        BY <1>2, <2>2, <2>4
      <4>2. y = Act(l)
        BY <2>4 DEF Output, y
      <4> QED BY <1>8, <4>1, <4>2 DEF LayerInput, Folded, Act, Vector
    <3>2. size(l)' = b
      BY <1>8, <2>2, <2>4 DEF size, b
    <3>3. InputHeld'
      BY <2>7, <3>1, <3>2 DEF InputHeld
    <3>4. OutputsHeld'
      BY <2>2 DEF OutputsHeld
    <3> QED BY <1>17, <2>2, <2>4, <3>3, <3>4 DEF MlpInv
  <2> QED BY <2>3, <2>4
<1> QED BY <1>18, <1>19

-----------------------------------------------------------------------------
(* The verdict of a network *)

\* The loop over the scores gives the class of highest score.
LEMMA LeaderIsBest ==
  ASSUME NEW n \in Nat \ {0}, NEW s \in [1 .. n -> Int]
  PROVE  Len(s) = n /\ Leader(s, 1, Len(s)) = Best(s)
<1>1. Len(s) = n
  <2>1. s \in Seq(Int) /\ DOMAIN s = 1 .. n /\ n \in Nat
    OBVIOUS
  <2> QED BY <2>1, LenProperties
<1> DEFINE x == Leader(s, 1, n)
<1>2. 1 <= n /\ n \in Int /\ \A k \in 1 .. n : s[k] \in Int
  OBVIOUS
<1>3. Leads(s, 1 .. n, x)
  BY <1>2, LeaderLeads
<1> HIDE DEF x
<1>4. DOMAIN s = 1 .. n /\ DOMAIN s \subseteq Int
  OBVIOUS
<1>5. Best(s) = x
  BY <1>2, <1>3, <1>4, BestLeads
<1> QED BY <1>1, <1>5 DEF x

\* What Argmax makes of the scores it finds.
Verdict(s) == IF Len(s) = 1 /\ Classifier THEN IF s[1] >= 0 THEN 1 ELSE 0
              ELSE Best(s) - 1

LEMMA ArgmaxIs ==
  ASSUME Argmax, NEW n \in Nat \ {0}, NEW s \in [1 .. n -> Int],
         Outcome(IF model.kind = "mlp" THEN in ELSE Scores) = s
  PROVE  verdict' = Verdict(s) /\ phase' = "ready" /\ UNCHANGED <<model, raw>>
<1>1. Leader(s, 1, Len(s)) = Best(s)
  BY LeaderIsBest
<1>2. verdict' = IF Len(s) = 1 /\ Classifier THEN IF s[1] >= 0 THEN 1 ELSE 0
                 ELSE Leader(s, 1, Len(s)) - 1
  BY DEF Argmax
<1> QED BY <1>1, <1>2 DEF Argmax, Verdict

\* The logits are what the last layer gives.
LEMMA LogitsAre ==
  ASSUME KernelAssumption, model \in Models, Layered, raw \in Seq(Int)
  PROVE  /\ Logits(model, Vector) = Act(Layers)
         /\ Act(Layers) = RawOutput(Layers)
         /\ size(Layers + 1) \in Nat \ {0}
         /\ Act(Layers) \in [1 .. size(Layers + 1) -> Int]
<1>1. Layers \in Nat \ {0}
  BY NetworkSizes
<1>2. Layers \in 1 .. Layers /\ Layers \in 0 .. Layers
  BY <1>1
<1>3. Act(Layers) = LayerOf(model, Layers, Act(Layers - 1))
  BY <1>2, ActivationsType
<1>4. LayerOf(model, Layers, Act(Layers - 1)) = Raw(model, Layers, Act(Layers - 1))
  BY LayerByRaw DEF Layers
<1>5. Act(Layers) \in [1 .. size(Layers + 1) -> Int]
  BY <1>2, ActivationsType
<1>6. size(Layers + 1) \in Nat \ {0}
  BY <1>2, NetworkShape
<1>7. Logits(model, Vector) = Act(Layers)
  BY DEF Logits, Act, Layers
<1> QED BY <1>3, <1>4, <1>5, <1>6, <1>7 DEF RawOutput

LEMMA SigmoidsType ==
  ASSUME NEW a \in Nat, NEW v \in [1 .. a -> Int] PROVE Sigmoids(v) \in [1 .. a -> Int]
<1>1. ASSUME NEW x \in Int PROVE fast_sigmoid(x) \in Int
  BY DEF fast_sigmoid
<1>2. \A k \in 1 .. a : v[k] \in Int
  OBVIOUS
<1>3. \A k \in 1 .. a : fast_sigmoid(v[k]) \in Int
  BY <1>1, <1>2
<1>4. Sigmoids(v) = [k \in 1 .. a |-> fast_sigmoid(v[k])]
  BY DEF Sigmoids
<1> QED BY <1>3, <1>4

\* The verdict of an MLP.
LEMMA MlpArgmax ==
  ASSUME KernelAssumption, KernelTypeOK, MlpInv, Mlp, Argmax
  PROVE  VerdictIsTrained'
<1>1. phase = "argmax" /\ phase # "ready"
  BY DEF Argmax
<1>2. model \in Models /\ Layered /\ raw \in Seq(Int)
  BY <1>1 DEF KernelTypeOK, MlpInv
<1> DEFINE n == size(Layers + 1)
           s == Output(Layers)
           y == Act(Layers)
<1>3. n \in Nat \ {0} /\ y \in [1 .. n -> Int] /\ Logits(model, Vector) = y
  BY <1>2, LogitsAre
<1>4. s = IF model.kernel = "prototype" THEN Sigmoids(y) ELSE y
  BY <1>2, LogitsAre DEF Output
<1>5. \A j \in 0 .. n - 1 : scratch[in + j] = s[j + 1]
  BY <1>1 DEF MlpInv
<1> HIDE DEF s, y, n
<1>6. s \in [1 .. n -> Int]
  BY <1>3, <1>4, SigmoidsType
<1>7. Outcome(in) = s
  <2>1. \A j \in 1 .. n : scratch[in + j - 1] = s[j]
    <3> TAKE j \in 1 .. n
    <3>1. j - 1 \in 0 .. n - 1 /\ (j - 1) + 1 = j
      BY <1>3
    <3> QED BY <1>5, <3>1
  <2>2. Outcome(in) = [j \in 1 .. n |-> scratch[in + j - 1]]
    BY DEF Outcome, n
  <2> QED BY <1>6, <2>1, <2>2
<1>8. verdict' = Verdict(s) /\ UNCHANGED <<model, raw>>
  BY <1>3, <1>6, <1>7, ArgmaxIs DEF Mlp
<1>9. Verdict(s) = MlpClass(model, y)
  <2>1. CASE Classifier
    <3>1. s = y
      BY <1>4, <2>1 DEF Classifier
    <3> QED BY <2>1, <3>1 DEF Verdict, MlpClass, Classifier, ClassOf
  <2>2. CASE ~Classifier
    <3>1. Verdict(s) = Best(s) - 1
      BY <2>2 DEF Verdict
    <3>2. MlpClass(model, y) = IF model.kernel = "prototype" THEN Best(Sigmoids(y)) - 1
                               ELSE Best(y) - 1
      BY <2>2 DEF MlpClass, Classifier
    <3> QED BY <1>4, <3>1, <3>2
  <2> QED BY <2>1, <2>2
<1>10. Trained(model, Vector) = MlpClass(model, Logits(model, Vector))
  BY DEF Trained, Mlp
<1>11. verdict' = Trained(model, Scaled(model, raw))
  BY <1>3, <1>8, <1>9, <1>10 DEF Vector
<1> QED BY <1>8, <1>11 DEF VerdictIsTrained

-----------------------------------------------------------------------------
(* The layers of a BNN, in words of bits *)

\* The signs of the first n values of v, in word w.
Bits(v, n, w) == {b \in 0 .. WordBits - 1 :
                     w * WordBits + b < n /\ v[w * WordBits + b + 1] >= 0}
SameSign(u, v, k) == u[k] >= 0 <=> v[k] >= 0
\* Where the first n values of u and v agree, and what word w has of that.
Agree(u, v, n) == {k \in 1 .. n : SameSign(u, v, k)}
Agreeing(u, v, n, w) == {b \in 0 .. WordBits - 1 :
                            /\ w * WordBits + b < n
                            /\ SameSign(u, v, w * WordBits + b + 1)}

\* The words of a layer count every place once.
LEMMA WordsCount ==
  ASSUME KernelAssumption, NEW u, NEW v, NEW n \in Nat, NEW m \in Nat,
         n <= WordBits * m, NEW f,
         \A w \in 0 .. m - 1 : f[w] = Cardinality(Agreeing(u, v, n, w))
  PROVE  SumOver(f, 0 .. m - 1) = Cardinality(Agree(u, v, n))
<1> DEFINE b == WordBits
           In(k) == {x \in Agree(u, v, n) : x <= b * k}
           Same(k) == SumOver(f, 0 .. k - 1) = Cardinality(In(k))
           T == {k \in Nat : k <= m => Same(k)}
<1>1. b \in Nat \ {0}
  BY DEF KernelAssumption
<1>2. Agree(u, v, n) \subseteq 1 .. n /\ IsFiniteSet(1 .. n)
  <2>1. n \in Int /\ 1 \in Int
    OBVIOUS
  <2>2. IsFiniteSet(1 .. n)
    BY ONLY <2>1, FS_Interval
  <2> QED BY ONLY <2>2 DEF Agree
<1>3. \A k : IsFiniteSet(In(k)) /\ Cardinality(In(k)) \in Nat
  <2> TAKE k
  <2>1. In(k) \in SUBSET (1 .. n)
    BY <1>2
  <2> HIDE DEF In
  <2> QED BY <1>2, <2>1, FS_Subset, FS_CardinalityType
<1>4. \A w \in Nat : /\ IsFiniteSet(Agreeing(u, v, n, w))
                     /\ Cardinality(Agreeing(u, v, n, w)) \in Nat
  <2> TAKE w \in Nat
  <2>1. Agreeing(u, v, n, w) \in SUBSET (0 .. b - 1)
    BY DEF Agreeing
  <2>2. 0 \in Int /\ b - 1 \in Int
    BY <1>1
  <2>3. IsFiniteSet(0 .. b - 1)
    BY <2>2, FS_Interval
  <2> HIDE DEF b
  <2> QED BY <2>1, <2>3, FS_Subset, FS_CardinalityType
<1>5. 0 \in T
  <2>1. In(0) = {}
    BY <1>1, <1>2
  <2>2. 0 .. 0 - 1 = {}
    OBVIOUS
  <2> HIDE DEF In
  <2> QED BY <2>1, <2>2, SumEmpty, FS_EmptySet
<1>6. ASSUME NEW k \in T PROVE k + 1 \in T
  <2> SUFFICES ASSUME k + 1 <= m PROVE Same(k + 1)
    OBVIOUS
  <2>1. k \in Nat /\ k \in 0 .. m - 1
    OBVIOUS
  <2>2. SumOver(f, 0 .. k - 1) = Cardinality(In(k))
    BY <2>1
  <2> DEFINE A == Agreeing(u, v, n, k)
             d == b * k + 1
             M == {x + d : x \in A}
  <2>3. /\ b * k \in Nat /\ b * (k + 1) = b * k + b /\ d \in Int /\ k * b = b * k
    BY <1>1, <2>1
  <2>4. IsFiniteSet(M) /\ Cardinality(M) = Cardinality(A)
    <3>0. IsFiniteSet(A)
      BY <1>4, <2>1
    <3>1. A \subseteq Int /\ IsFiniteSet(A)
      BY <1>1, <3>0 DEF Agreeing
    <3> HIDE DEF A, d
    <3> QED BY <2>3, <3>1, Moved
  <2>5. In(k + 1) = In(k) \cup M /\ In(k) \cap M = {}
    <3> DEFINE c == b * k
    <3>1. c \in Nat /\ b * (k + 1) = c + b /\ d = c + 1 /\ k * b = c
      BY <2>3
    <3>2. A = {x \in 0 .. b - 1 : c + x < n /\ SameSign(u, v, c + x + 1)}
      BY <3>1 DEF Agreeing
    <3>3. In(k) = {x \in 1 .. n : SameSign(u, v, x) /\ x <= c}
      BY DEF Agree
    <3>4. In(k + 1) = {x \in 1 .. n : SameSign(u, v, x) /\ x <= c + b}
      BY <3>1 DEF Agree
    <3> HIDE DEF A, c, d, In
    <3>5. ASSUME NEW x \in M PROVE x \in In(k + 1) /\ x \notin In(k)
      <4>1. PICK y \in A : x = y + d
        OBVIOUS
      <4>2. /\ y \in 0 .. b - 1 /\ c + y < n /\ SameSign(u, v, c + y + 1)
            /\ x = c + y + 1
        BY <3>1, <3>2, <4>1
      <4> QED BY <1>1, <3>1, <3>3, <3>4, <4>2
    <3>6. ASSUME NEW x \in In(k + 1), x \notin In(k) PROVE x \in M
      <4>1. x \in 1 .. n /\ SameSign(u, v, x) /\ x <= c + b /\ ~(x <= c)
        BY <3>3, <3>4, <3>6
      <4> DEFINE y == x - c - 1
      <4>2. y \in 0 .. b - 1 /\ c + y < n /\ c + y + 1 = x /\ x = y + d
        BY <1>1, <3>1, <4>1
      <4> HIDE DEF y
      <4>3. y \in A
        BY <3>2, <4>1, <4>2
      <4> QED BY <4>2, <4>3
    <3>7. In(k) \subseteq In(k + 1)
      BY <1>1, <3>1, <3>3, <3>4
    <3> HIDE DEF M
    <3> QED BY <3>5, <3>6, <3>7
  <2> HIDE DEF M
  <2>6. Cardinality(In(k + 1)) = Cardinality(In(k)) + Cardinality(A)
    <3> HIDE DEF In, A
    <3>1. Cardinality(In(k) \cup M)
            = Cardinality(In(k)) + Cardinality(M) - Cardinality(In(k) \cap M)
      BY <1>3, <2>4, FS_Union
    <3>2. Cardinality(In(k) \cap M) = 0
      BY <2>5, FS_EmptySet
    <3>3. Cardinality(A) \in Nat
      BY <1>4, <2>1 DEF A
    <3>4. Cardinality(In(k)) \in Nat
      BY <1>3
    <3>5. Cardinality(In(k + 1)) = Cardinality(In(k) \cup M)
      BY <2>5
    <3> DEFINE p == Cardinality(In(k))
               q == Cardinality(A)
    <3> HIDE DEF p, q
    <3>6. p + q - 0 = p + q
      BY <3>3, <3>4 DEF p, q
    <3> QED BY <2>4, <3>1, <3>2, <3>5, <3>6 DEF p, q
  <2>7. SumOver(f, 0 .. (k + 1) - 1) = SumOver(f, 0 .. k - 1) + f[k]
    <3>1. /\ 0 .. (k + 1) - 1 = (0 .. k - 1) \cup {k} /\ k \notin 0 .. k - 1
          /\ IsFiniteSet(0 .. k - 1)
      <4>1. IsFiniteSet(0 .. k - 1)
        <5>1. 0 \in Int /\ k - 1 \in Int
          BY <2>1
        <5> QED BY <5>1, FS_Interval
      <4>2. 0 .. (k + 1) - 1 = (0 .. k - 1) \cup {k}
        <5>1. \A x : x \in 0 .. (k + 1) - 1 <=> x \in 0 .. k - 1 \/ x = k
          BY <2>1
        <5> QED BY <5>1
      <4> QED BY <2>1, <4>1, <4>2
    <3>2. \A x \in (0 .. k - 1) \cup {k} : f[x] \in Int
      <4> TAKE x \in (0 .. k - 1) \cup {k}
      <4>1. x \in 0 .. m - 1 /\ x \in Nat
        BY <2>1
      <4>2. f[x] = Cardinality(Agreeing(u, v, n, x))
        BY <4>1
      <4> QED BY <1>4, <4>1, <4>2
    <3> DEFINE K == 0 .. k - 1
    <3> HIDE DEF K
    <3>3. /\ 0 .. (k + 1) - 1 = K \cup {k} /\ k \notin K /\ IsFiniteSet(K)
          /\ \A x \in K \cup {k} : f[x] \in Int
      BY <3>1, <3>2 DEF K
    <3>4. SumOver(f, K \cup {k}) = SumOver(f, K) + f[k]
      BY <3>3, SumAdd
    <3> QED BY <3>3, <3>4 DEF K
  <2>8. f[k] = Cardinality(A)
    BY <2>1
  <2> HIDE DEF In, A
  <2> QED BY <2>2, <2>6, <2>7, <2>8
<1>7. T = Nat
  <2>1. T \subseteq Nat
    OBVIOUS
  <2> HIDE DEF T
  <2> QED BY <1>5, <1>6, <2>1, Inductive
<1>8. Same(m)
  <2>1. m \in {k \in Nat : k <= m => Same(k)} /\ m <= m
    <3> HIDE DEF Same
    <3> QED BY <1>7
  <2> HIDE DEF Same
  <2> QED BY <2>1
<1>9. In(m) = Agree(u, v, n)
  <2>1. b * m \in Int /\ n <= b * m
    BY <1>1
  <2>2. \A x \in 1 .. n : x <= b * m
    BY <2>1
  <2> QED BY <1>2, <2>2
<1> QED BY <1>8, <1>9

\* The sum of products of signs, counted: the places that agree, twice, less all.
LEMMA SignsCount ==
  ASSUME NEW a \in Nat, NEW u \in [1 .. a -> Int], NEW v \in [1 .. a -> Int]
  PROVE  /\ SumOver(Products(Signs(u), Signs(v), a), 1 .. a)
              = 2 * Cardinality(Agree(u, v, a)) - a
         /\ Cardinality(Agree(u, v, a)) \in Nat
<1> DEFINE g == Products(Signs(u), Signs(v), a)
           Same(n) == SumOver(g, 1 .. n) = 2 * Cardinality(Agree(u, v, n)) - n
           T == {n \in Nat : n <= a => Same(n)}
<1>1. \A k \in 1 .. a : g[k] = IF SameSign(u, v, k) THEN 1 ELSE -1
  <2> TAKE k \in 1 .. a
  <2>1. g[k] = Signs(u)[k] * Signs(v)[k]
    BY DEF Products
  <2>2. /\ Signs(u)[k] = IF u[k] >= 0 THEN 1 ELSE -1
        /\ Signs(v)[k] = IF v[k] >= 0 THEN 1 ELSE -1
    BY SignsType
  <2> HIDE DEF g
  <2>3. CASE u[k] >= 0
    BY <2>1, <2>2, <2>3 DEF SameSign
  <2>4. CASE ~(u[k] >= 0)
    BY <2>1, <2>2, <2>4 DEF SameSign
  <2> QED BY <2>3, <2>4
<1>2. \A n \in Nat : /\ IsFiniteSet(Agree(u, v, n)) /\ IsFiniteSet(1 .. n)
                     /\ Cardinality(Agree(u, v, n)) \in Nat
  <2> TAKE n \in Nat
  <2>1. Agree(u, v, n) \in SUBSET (1 .. n) /\ IsFiniteSet(1 .. n)
    BY FS_Interval DEF Agree
  <2> QED BY <2>1, FS_Subset, FS_CardinalityType
<1>3. 0 \in T
  <2>1. 1 .. 0 = {} /\ Agree(u, v, 0) = {}
    BY DEF Agree
  <2> HIDE DEF g
  <2>2. SumOver(g, {}) = 0 /\ Cardinality({}) = 0 /\ 2 * 0 - 0 = 0
    BY SumEmpty, FS_EmptySet
  <2> QED BY <2>1, <2>2
<1>4. ASSUME NEW n \in T PROVE n + 1 \in T
  <2> SUFFICES ASSUME n + 1 <= a PROVE Same(n + 1)
    OBVIOUS
  <2>1. n \in Nat /\ Same(n) /\ n + 1 \in 1 .. a
    OBVIOUS
  <2> HIDE DEF g
  <2> DEFINE K == 1 .. n
             G == Agree(u, v, n)
             H == Agree(u, v, n + 1)
             x == n + 1
  <2>2. 1 .. n + 1 = K \cup {x} /\ x \notin K /\ IsFiniteSet(K)
    <3>1. \A z : z \in 1 .. n + 1 <=> z \in 1 .. n \/ z = n + 1
      BY <2>1
    <3>2. IsFiniteSet(1 .. n)
      BY <1>2, <2>1
    <3> QED BY <2>1, <3>1, <3>2
  <2>3. \A z \in K \cup {x} : g[z] \in Int
    <3> TAKE z \in K \cup {x}
    <3>1. z \in 1 .. a
      BY <2>1
    <3> QED BY <1>1, <3>1
  <2>4. H = IF SameSign(u, v, x) THEN G \cup {x} ELSE G
    <3>1. H = {z \in 1 .. n + 1 : SameSign(u, v, z)} /\ G = {z \in K : SameSign(u, v, z)}
      BY DEF Agree
    <3> HIDE DEF H, G, K, x
    <3> QED BY <2>2, <3>1
  <2>5. x \notin G /\ IsFiniteSet(G) /\ Cardinality(G) \in Nat
    <3>1. x \notin G
      BY <2>2 DEF Agree
    <3> QED BY <1>2, <2>1, <3>1
  <2>6. SumOver(g, K) = 2 * Cardinality(G) - n
    BY <2>1
  <2>7. g[x] = IF SameSign(u, v, x) THEN 1 ELSE -1
    BY <1>1, <2>1
  <2>8. x \in Nat /\ x = n + 1
    BY <2>1
  <2> HIDE DEF K, G, H, x
  <2>9. SumOver(g, K \cup {x}) = SumOver(g, K) + g[x]
    BY <2>2, <2>3, SumAdd
  <2>10. CASE SameSign(u, v, x)
    <3>1. Cardinality(G \cup {x}) = Cardinality(G) + 1
      BY <2>5, FS_AddElement
    <3>3. Cardinality(H) = Cardinality(G) + 1
      BY <2>4, <2>10, <3>1
    <3>4. SumOver(g, K \cup {x}) = 2 * Cardinality(G) - n + 1
      BY <2>6, <2>7, <2>9, <2>10
    <3>2. SumOver(g, K \cup {x}) = 2 * Cardinality(H) - x
      <4> DEFINE p == Cardinality(G)
      <4> HIDE DEF p
      <4>1. p \in Nat /\ Cardinality(H) = p + 1
        BY <2>5, <3>3 DEF p
      <4>2. 2 * p - n + 1 = 2 * (p + 1) - (n + 1)
        BY <2>1, <4>1
      <4> QED BY <2>8, <3>4, <4>1, <4>2 DEF p
    <3> QED BY <2>2, <3>2 DEF H, x
  <2>11. CASE ~SameSign(u, v, x)
    <3>1. SumOver(g, K \cup {x}) = 2 * Cardinality(H) - x
      BY <2>1, <2>4, <2>5, <2>6, <2>7, <2>8, <2>9, <2>11
    <3> QED BY <2>2, <3>1 DEF H, x
  <2> QED BY <2>10, <2>11
<1>5. T = Nat
  <2>1. T \subseteq Nat
    OBVIOUS
  <2> HIDE DEF T
  <2> QED BY <1>3, <1>4, <2>1, Inductive
<1>6. Same(a)
  <2> HIDE DEF Same
  <2>1. a \in {n \in Nat : n <= a => Same(n)}
    BY <1>5
  <2> QED BY <2>1
<1> QED BY <1>2, <1>6

\* The kernel's last word has the mask of the bits that are there.
LEMMA WordAgreeing ==
  ASSUME KernelAssumption, NEW a \in Nat \ {0}, NEW w \in 0 .. WordsFor(a) - 1,
         NEW u, NEW v, NEW x, x = Xnor(Bits(v, a, w), Bits(u, a, w))
  PROVE  (IF w = WordsFor(a) - 1 THEN x \cap tail_mask(a) ELSE x)
           = Agreeing(u, v, a, w)
<1> DEFINE b == WordBits
           m == WordsFor(a)
           c == w * b
<1>1. /\ b \in Nat \ {0} /\ m \in Nat /\ a <= b * m /\ b * m < a + b
      /\ w \in 0 .. m - 1
  <2>1. a \in Nat /\ b \in Nat \ {0}
    BY DEF KernelAssumption
  <2> QED BY <2>1, WordsEnough
<1>2. c \in Nat /\ c = b * w /\ b * m \in Int
  BY <1>1
<1>3. tail_mask(a) = IF a % b = 0 THEN 0 .. b - 1 ELSE 0 .. (a % b) - 1
  BY DEF tail_mask
<1>4. x = {k \in 0 .. b - 1 : (/\ c + k < a /\ v[c + k + 1] >= 0)
                              <=> (/\ c + k < a /\ u[c + k + 1] >= 0)}
  BY DEF Xnor, Bits
<1>5. Agreeing(u, v, a, w)
        = {k \in 0 .. b - 1 : /\ c + k < a
                              /\ u[c + k + 1] >= 0 <=> v[c + k + 1] >= 0}
  BY DEF Agreeing, SameSign
<1> HIDE DEF b, m, c
<1>6. CASE w # m - 1
  <2>1. b * (w + 1) + b <= b * m /\ b * (w + 1) = c + b
    <3>1. w + 1 \in Int /\ w + 1 < m
      BY <1>1, <1>6
    <3>2. b * (w + 1) = b * w + b
      BY <1>1
    <3>3. b \in Nat \ {0} /\ m \in Int
      BY <1>1
    <3>4. b * (w + 1) + b <= b * m
      BY ONLY <3>1, <3>3, Multiples
    <3>5. c = b * w
      BY <1>2
    <3> QED BY ONLY <3>2, <3>4, <3>5
  <2>2. \A k \in 0 .. b - 1 : c + k < a
    BY <1>1, <1>2, <2>1
  <2> QED BY <1>4, <1>5, <1>6, <2>2 DEF m
<1>7. CASE w = m - 1
  <2>1. b * m = c + b
    <3>1. m = w + 1
      BY <1>1, <1>7
    <3>2. b * (w + 1) = b * w + b
      BY <1>1
    <3> QED BY <1>2, <3>1, <3>2
  <2>2. c < a /\ a <= c + b
    BY <1>1, <1>2, <2>1
  <2>3. tail_mask(a) = {k \in 0 .. b - 1 : c + k < a}
    <3>1. CASE a = c + b
      <4>1. (b * m + 0) % b = 0
        <5>1. 0 \in 0 .. b - 1 /\ m \in Int
          BY <1>1
        <5> QED BY <1>1, <5>1, DivModIs
      <4>2. a % b = 0
        BY <1>2, <2>1, <3>1, <4>1
      <4>3. \A k \in 0 .. b - 1 : c + k < a
        BY <1>1, <1>2, <3>1
      <4> QED BY <1>3, <4>2, <4>3
    <3>2. CASE a # c + b
      <4> DEFINE d == a - c
      <4>1. d \in 0 .. b - 1 /\ d # 0 /\ a = c + d
        BY <1>1, <1>2, <2>2, <3>2
      <4> HIDE DEF d
      <4>2. a % b = d
        <5>1. w \in Int
          BY <1>1
        <5>2. (b * w + d) % b = d
          BY <1>1, <4>1, <5>1, DivModIs
        <5> QED BY <1>2, <4>1, <5>2
      <4>3. tail_mask(a) = 0 .. d - 1
        BY <1>3, <4>1, <4>2
      <4>4. \A k : k \in 0 .. d - 1 <=> k \in 0 .. b - 1 /\ c + k < a
        BY <1>1, <1>2, <4>1
      <4> QED BY <4>3, <4>4
    <3> QED BY <3>1, <3>2
  <2> QED BY <1>4, <1>5, <1>7, <2>3 DEF m
<1> QED BY <1>6, <1>7

Bnn == model.kind = "bnn"
WordsIn == \A w \in 0 .. WordsFor(size(l)) - 1 :
              scratch[in + w] = Bits(Act(l - 1), size(l), w)
WordsOut == IF Final THEN \A j \in 0 .. o - 1 : scratch[Scores + j] = Act(l)[j + 1]
            ELSE o > 0 => \A w \in 0 .. WordsFor(size(l + 1)) - 1 :
                             scratch[out + w] = Bits(Act(l), o, w)

\* The bits that agree in the words of the input and of the weights.
LEMMA PopcountIs ==
  ASSUME KernelAssumption, size(l) \in Nat \ {0}, WordsIn, NEW j
  PROVE  Popcount(j)
           = Cardinality(Agree(model.weight[l][j + 1], Act(l - 1), size(l)))
<1> DEFINE a == size(l)
           u == model.weight[l][j + 1]
           v == Act(l - 1)
           m == WordsFor(a)
           Count(w) == LET xnor == Xnor(scratch[in + w], pack_weights(l, j)[w])
                       IN  Cardinality(IF w = m - 1 THEN xnor \cap tail_mask(a)
                                       ELSE xnor)
           f == [w \in 0 .. m - 1 |-> Count(w)]
<1>1. Popcount(j) = SumOf(f)
  BY DEF Popcount, words_per_out
<1>2. \A w \in 0 .. m - 1 : pack_weights(l, j)[w] = Bits(u, a, w)
  BY DEF pack_weights, Bits
<1>3. \A w \in 0 .. m - 1 : scratch[in + w] = Bits(v, a, w)
  BY DEF WordsIn
<1>4. a \in Nat \ {0} /\ a \in Nat /\ m \in Nat /\ a <= WordBits * m
  <2>1. a \in Nat \ {0} /\ a \in Nat
    OBVIOUS
  <2> HIDE DEF a
  <2> QED BY <2>1, WordsEnough
<1>5. m = WordsFor(a)
  OBVIOUS
<1> HIDE DEF a, u, v, m
<1>6. \A w \in 0 .. m - 1 : Count(w) = Cardinality(Agreeing(u, v, a, w))
  <2> TAKE w \in 0 .. m - 1
  <2> DEFINE x == Xnor(Bits(v, a, w), Bits(u, a, w))
  <2>1. Count(w) = Cardinality(IF w = m - 1 THEN x \cap tail_mask(a) ELSE x)
    BY <1>2, <1>3
  <2> HIDE DEF Count
  <2>2. x = Xnor(Bits(v, a, w), Bits(u, a, w))
    OBVIOUS
  <2> HIDE DEF x
  <2>3. w \in 0 .. WordsFor(a) - 1
    BY <1>5
  <2>4. (IF w = WordsFor(a) - 1 THEN x \cap tail_mask(a) ELSE x) = Agreeing(u, v, a, w)
    BY <1>4, <2>2, <2>3, WordAgreeing
  <2> QED BY <1>5, <2>1, <2>4
<1> HIDE DEF Count
<1>7. \A w \in 0 .. m - 1 : f[w] = Cardinality(Agreeing(u, v, a, w))
  BY <1>6
<1>8. SumOf(f) = SumOver(f, 0 .. m - 1)
  BY DEF SumOf, SumOver
<1> HIDE DEF f
<1>9. SumOver(f, 0 .. m - 1) = Cardinality(Agree(u, v, a))
  BY <1>4, <1>7, WordsCount
<1> QED BY <1>1, <1>8, <1>9 DEF u, v, a

\* Twice the agreeing places less all places, with the bias: the sum of the
\* products of signs.
LEMMA ScoreIsTrained ==
  ASSUME KernelAssumption, model \in Models, Bnn, raw \in Seq(Int), l \in 1 .. Layers,
         WordsIn, NEW j \in 0 .. size(l + 1) - 1
  PROVE  Score(j) = RawOutput(l)[j + 1] /\ RawOutput(l)[j + 1] \in Int
<1> DEFINE a == size(l)
           b == size(l + 1)
           u == model.weight[l][j + 1]
           bias == model.bias[l][j + 1]
           v == Act(l - 1)
           w == SignedWeights(model, l)
           n == Cardinality(Agree(u, v, a))
<1>0. Layered
  BY DEF Bnn, Layered
<1>1. /\ a \in Nat \ {0} /\ b \in Nat \ {0}
      /\ model.weight[l] \in [1 .. b -> [1 .. a -> Int]]
      /\ model.bias[l] \in [1 .. b -> Int]
      /\ j + 1 \in 1 .. b
      /\ l \in 1 .. Len(model.weight)
  <2>0. b \in Nat \ {0} /\ j \in 0 .. b - 1
    BY <1>0, NetworkShape
  <2>1. j + 1 \in 1 .. b
    <3> HIDE DEF b
    <3> QED BY <2>0
  <2> QED BY <1>0, <2>1, NetworkShape
<1>2. v \in [1 .. a -> Int]
  <2>1. l - 1 \in 0 .. Layers /\ (l - 1) + 1 = l
    BY <1>0, NetworkShape
  <2>2. Act(l - 1) \in [1 .. size((l - 1) + 1) -> Int]
    BY <1>0, <2>1, ActivationsType
  <2> QED BY <2>1, <2>2
<1>3. u \in [1 .. a -> Int] /\ bias \in Int
  <2> HIDE DEF a, b
  <2> QED BY <1>1
<1>4. w \in [1 .. b -> [1 .. a -> Int]] /\ w[j + 1] = Signs(u)
  <2>1. IsNetwork(model) /\ model.kind # "mlp"
    BY <1>0, NetworkSizes DEF Bnn
  <2>2. v \in [1 .. model.sizes[l] -> Int]
    BY <1>2 DEF size
  <2> HIDE DEF v
  <2>3. SignedWeights(model, l) \in
           [1 .. model.sizes[l + 1] -> [1 .. model.sizes[l] -> Int]]
    BY <1>1, <2>1, <2>2, RawType
  <2>4. j + 1 \in DOMAIN model.bias[l]
    BY <1>1
  <2>5. w[j + 1] = Signs(u)
    BY <2>4 DEF SignedWeights
  <2> QED BY <2>3, <2>5 DEF size
<1>5. RawOutput(l) = Linear(w, model.bias[l], Signs(v))
  BY DEF RawOutput, Raw, Bnn
<1>6. Popcount(j) = n
  BY <1>1, PopcountIs
<1>7. Score(j) = 2 * Popcount(j) - a + bias
  BY DEF Score
<1> HIDE DEF a, b, u, v, w
<1>8. Signs(v) \in [1 .. a -> Int]
  BY <1>1, <1>2, SignsType
<1>9. Linear(w, model.bias[l], Signs(v))[j + 1]
        = SumOver(Products(w[j + 1], Signs(v), a), 1 .. a) + model.bias[l][j + 1]
  <2> DEFINE x == Signs(v)
             c == model.bias[l]
  <2>1. /\ a \in Nat /\ b \in Nat /\ w \in [1 .. b -> [1 .. a -> Int]]
        /\ c \in [1 .. b -> Int] /\ x \in [1 .. a -> Int] /\ j + 1 \in 1 .. b
    BY <1>1, <1>4, <1>8
  <2> HIDE DEF x, c
  <2>2. /\ Linear(w, c, x) \in [1 .. b -> Int]
        /\ \A k \in 1 .. b :
              /\ Linear(w, c, x)[k] = SumOver(Products(w[k], x, a), 1 .. a) + c[k]
              /\ SumOver(Products(w[k], x, a), 1 .. a) \in Int
    BY ONLY <2>1, LinearIs
  <2> QED BY <2>1, <2>2 DEF x, c
<1>10. SumOver(Products(Signs(u), Signs(v), a), 1 .. a) = 2 * n - a /\ n \in Nat
  <2>1. a \in Nat
    BY <1>1
  <2> QED BY <1>2, <1>3, <2>1, SignsCount
<1> HIDE DEF n, bias
<1>11. RawOutput(l)[j + 1] = 2 * n - a + bias
  BY <1>4, <1>5, <1>9, <1>10 DEF bias
<1>12. 2 * n - a + bias \in Int
  BY <1>1, <1>3, <1>10
<1> QED BY <1>6, <1>7, <1>11, <1>12

\* One more output sets a bit of its word, and no other.
LEMMA NextBit ==
  ASSUME KernelAssumption, NEW x, NEW n \in Nat, NEW w \in Nat
  PROVE  Bits(x, n + 1, w) = IF w = n \div WordBits /\ x[n + 1] >= 0
                             THEN Bits(x, n, w) \cup {n % WordBits} ELSE Bits(x, n, w)
<1> DEFINE b == WordBits
           c == w * b
           q == n \div b
           s == n % b
<1>1. b \in Nat \ {0}
  BY DEF KernelAssumption
<1>2. /\ Bits(x, n + 1, w) = {k \in 0 .. b - 1 : c + k < n + 1 /\ x[c + k + 1] >= 0}
      /\ Bits(x, n, w) = {k \in 0 .. b - 1 : c + k < n /\ x[c + k + 1] >= 0}
  BY DEF Bits
<1> HIDE DEF b
<1>3. s \in 0 .. b - 1 /\ q \in Int /\ n = b * q + s
  BY <1>1, DivMod
<1>4. c \in Int /\ c = b * w
  BY <1>1
<1>5. ASSUME NEW k \in 0 .. b - 1, c + k = n PROVE w = q /\ k = s
  <2>1. (b * w + k) % b = k /\ (b * w + k) \div b = w
    <3>1. w \in Int
      OBVIOUS
    <3> QED BY <1>1, <3>1, DivModIs
  <2> QED BY <1>4, <1>5, <2>1
<1>6. w = q => c + s = n
  BY <1>3, <1>4
<1> HIDE DEF c, q, s
<1>7. ASSUME NEW k \in 0 .. b - 1 PROVE c + k < n + 1 <=> c + k < n \/ c + k = n
  BY <1>1, <1>4
<1>8. CASE w = q /\ x[n + 1] >= 0
  <2>1. \A k : k \in Bits(x, n + 1, w) <=> k \in Bits(x, n, w) \/ k = s
    <3> TAKE k
    <3>1. ASSUME k \in Bits(x, n + 1, w) PROVE k \in Bits(x, n, w) \/ k = s
      BY <1>2, <1>5, <1>7, <3>1
    <3>2. ASSUME k \in Bits(x, n, w) PROVE k \in Bits(x, n + 1, w)
      BY <1>2, <1>7, <3>2
    <3>3. s \in Bits(x, n + 1, w)
      <4>1. c + s = n /\ s \in 0 .. b - 1
        BY <1>3, <1>6, <1>8
      <4>2. c + s < n + 1 /\ x[c + s + 1] >= 0
        BY <1>8, <4>1
      <4> QED BY <1>2, <4>1, <4>2
    <3> QED BY <3>1, <3>2, <3>3
  <2> QED BY <1>8, <2>1 DEF q, s, b
<1>9. CASE ~(w = q /\ x[n + 1] >= 0)
  <2>1. \A k : k \in Bits(x, n + 1, w) <=> k \in Bits(x, n, w)
    <3> TAKE k
    <3>1. ASSUME k \in Bits(x, n + 1, w) PROVE k \in Bits(x, n, w)
      <4>1. /\ k \in 0 .. b - 1 /\ x[c + k + 1] >= 0
            /\ c + k < n \/ c + k = n
        BY <1>2, <1>7, <3>1
      <4>2. c + k # n
        <5> SUFFICES ASSUME c + k = n PROVE FALSE
          OBVIOUS
        <5>1. w = q
          BY <1>5, <4>1
        <5>2. x[n + 1] >= 0
          BY <4>1
        <5> QED BY <1>9, <5>1, <5>2
      <4> QED BY <1>2, <4>1, <4>2
    <3>2. ASSUME k \in Bits(x, n, w) PROVE k \in Bits(x, n + 1, w)
      BY <1>2, <1>7, <3>2
    <3> QED BY <3>1, <3>2
  <2>2. Bits(x, n + 1, w) = Bits(x, n, w)
    <3>1. Bits(x, n + 1, w) \subseteq Bits(x, n, w)
      BY <2>1
    <3>2. Bits(x, n, w) \subseteq Bits(x, n + 1, w)
      BY <2>1
    <3> QED BY <3>1, <3>2
  <2> QED BY <1>9, <2>2 DEF q, b
<1> QED BY <1>8, <1>9

BnnInv == Bnn /\ phase # "ready" =>
    /\ raw \in Seq(Int)
    /\ phase = "layer" => WordsIn /\ WordsOut
    /\ phase = "argmax" =>
          \A j \in 0 .. size(Layers + 1) - 1 : scratch[Scores + j] = Act(Layers)[j + 1]

\* The entry of the kernel packs the signs of the vector.
LEMMA BnnEntry ==
  ASSUME KernelAssumption, KernelTypeOK, NEW v \in Vectors, Predict(v)
  PROVE  BnnInv'
<1> SUFFICES ASSUME Bnn PROVE BnnInv'
  BY DEF BnnInv, Bnn, Predict, Entry
<1>1. model \in Models /\ Layered
  BY DEF Predict, KernelTypeOK, Layered, Bnn
<1>2. model.kernel = "scalar" /\ ~Hardcoded
  BY <1>1, NetworkSizes DEF IsNetwork, Bnn, Hardcoded
<1> DEFINE s == Scaled(model, v)
<1>3. /\ Entry(s) /\ model' = model /\ raw' = v /\ phase' = "layer"
      /\ l' = 1 /\ o' = 0 /\ v \in Seq(Int)
  BY <1>2 DEF Predict, Entry, KernelAssumption
<1>4. Dim(model) = model.sizes[1] /\ model.sizes[1] \in Nat \ {0}
  <2>1. 1 \in 1 .. Layers + 1
    BY <1>1, NetworkSizes
  <2> QED BY <1>1, <2>1, NetworkSizes DEF size
<1>5. Activations(model, s)[0] = s
  <2>1. Len(model.weight) \in Nat
    BY <1>1, NetworkSizes DEF Layers
  <2> QED BY <2>1, ActivationsByLayer
<1>6. scratch' = Stored(pack_input_bits(s), scratch) /\ in' = 0
  BY <1>2, <1>3 DEF Entry, Bnn
<1> HIDE DEF s
<1>7. \A w \in 0 .. WordsFor(model.sizes[1]) - 1 :
         /\ w \in DOMAIN pack_input_bits(s) /\ 0 + w = w
         /\ pack_input_bits(s)[w] = Bits(s, model.sizes[1], w)
  BY <1>4 DEF pack_input_bits, Bits
<1>8. \A w \in 0 .. WordsFor(model.sizes[1]) - 1 :
         scratch'[in' + w] = Bits(s, model.sizes[1], w)
  <2> TAKE w \in 0 .. WordsFor(model.sizes[1]) - 1
  <2>1. scratch'[w] = Bits(s, model.sizes[1], w)
    BY <1>6, <1>7, StoredAt
  <2> QED BY <1>6, <1>7, <2>1
<1>9. WordsIn'
  <2>1. l' - 1 = 0 /\ size(l)' = model.sizes[1]
    BY <1>3 DEF size
  <2>2. Act(l - 1)' = s
    BY <1>3, <1>5, <2>1 DEF Act, Vector, s
  <2> QED BY <1>8, <2>1, <2>2 DEF WordsIn, WordsFor, Bits
<1>10. WordsOut'
  BY <1>3 DEF WordsOut
<1> QED BY <1>3, <1>9, <1>10 DEF BnnInv

\* Before an output of a BNN is written, the words it goes to are clear.
Mem == IF o > 0 THEN scratch
       ELSE Stored([c \in out .. out + WordsFor(size(l + 1)) - 1 |-> {}], scratch)

\* One more output joins those that are there.
LEMMA BnnWrite ==
  ASSUME KernelAssumption, KernelTypeOK, StaysInScratch, BnnInv, bnn_layer
  PROVE  BnnInv'
<1>1. /\ phase = "layer" /\ phase # "ready" /\ Bnn /\ Advance(1)
      /\ model' = model /\ raw' = raw
  BY DEF bnn_layer, Bnn
<1>2. /\ model \in Models /\ Layered /\ l \in 1 .. Layers
      /\ o \in 0 .. size(l + 1) - 1 /\ Buffers
  BY <1>1 DEF KernelTypeOK
<1>3. raw \in Seq(Int) /\ WordsIn /\ WordsOut
  BY <1>1 DEF BnnInv
<1> DEFINE a == size(l)
           b == size(l + 1)
           D == 0 .. ScratchCells - 1
           na == WordsFor(a)
           nb == WordsFor(b)
           u == Act(l - 1)
           x == Act(l)
           clear == [c \in out .. out + nb - 1 |-> {}]
           word == out + (o \div WordBits)
           s == Score(o)
<1>4. /\ a \in Nat \ {0} /\ b \in Nat \ {0} /\ Layers \in Nat /\ b <= MaxSize
      /\ MaxSize \in Nat
  <2>1. l + 1 \in 1 .. Layers + 1
    BY <1>2, NetworkShape
  <2> QED BY <1>2, <2>1, NetworkShape, NetworkSizes
<1>5. /\ in \in Nat /\ out \in Nat /\ Scores \in Nat /\ na \in Nat /\ nb \in Nat
      /\ in + na <= Scores /\ out + nb <= Scores
      /\ Scores + MaxSize = ScratchCells
  <2>1. /\ BufB \in Nat \ {0} /\ Scores = 2 * BufB /\ Scores + MaxSize = ScratchCells
        /\ ~Hardcoded
    BY <1>1, <1>2, CellsFit DEF Bnn
  <2>2. na \in Nat /\ na <= BufB /\ nb \in Nat /\ nb <= BufB
    <3>1. l + 1 \in 1 .. Layers + 1 /\ l \in 1 .. Layers + 1
      BY <1>2, NetworkShape
    <3>2. Cells(size(l)) = na /\ Cells(size(l + 1)) = nb
      BY <1>1 DEF Cells, Bnn
    <3> HIDE DEF na, nb
    <3> QED BY <1>2, <3>1, <3>2, CellsFit
  <2> HIDE DEF na, nb
  <2> QED BY <1>2, <2>1, <2>2 DEF Buffers
<1>6. /\ \A w \in 0 .. na - 1 : \A z \in 0 .. nb - 1 : in + w # out + z
      /\ \A w \in 0 .. na - 1 : in + w \in D
      /\ \A w \in 0 .. nb - 1 : out + w \in D
  <2>1. Apart
    BY <1>1, LayersApart
  <2>2. Reads = in .. in + na - 1 /\ Writes = out .. out + nb - 1
    BY <1>1 DEF Reads, Writes, Cells, Bnn
  <2> HIDE DEF na, nb, D
  <2>3. \A w \in 0 .. na - 1 : in + w \in Reads
    BY <1>5, <2>2
  <2>4. \A w \in 0 .. nb - 1 : out + w \in Writes
    BY <1>5, <2>2
  <2> QED BY <2>1, <2>3, <2>4 DEF Apart, D
<1>7. DOMAIN scratch = D
  BY DEF StaysInScratch
<1>8. s = RawOutput(l)[o + 1]
  BY <1>1, <1>2, <1>3, ScoreIsTrained
<1>9. x[o + 1] = IF Final THEN s ELSE IF s >= 0 THEN 1 ELSE -1
  <2>1. x = LayerOf(model, l, u)
    BY <1>2, <1>3, ActivationsType
  <2>2. LayerOf(model, l, u) = IF Final THEN RawOutput(l) ELSE Signs(RawOutput(l))
    BY <1>1, LayerByRaw DEF Final, Layers, RawOutput, Bnn
  <2>3. RawOutput(l) \in [1 .. b -> Int]
    <3>1. /\ l - 1 \in 0 .. Layers /\ (l - 1) + 1 = l
          /\ l \in 1 .. Len(model.weight) /\ IsNetwork(model)
      BY <1>2, NetworkShape, NetworkSizes
    <3>2. u \in [1 .. size((l - 1) + 1) -> Int]
      BY <1>2, <1>3, <3>1, ActivationsType
    <3>3. u \in [1 .. model.sizes[l] -> Int]
      BY <3>1, <3>2 DEF size
    <3> HIDE DEF u
    <3>4. Raw(model, l, u) \in [1 .. model.sizes[l + 1] -> Int]
      BY <3>1, <3>3, RawType
    <3> QED BY <3>4 DEF u, RawOutput, size
  <2> DEFINE y == RawOutput(l)
  <2>4. y \in [1 .. b -> Int] /\ s = y[o + 1] /\ x = IF Final THEN y ELSE Signs(y)
    BY <1>8, <2>1, <2>2, <2>3
  <2>5. o \in 0 .. b - 1
    BY <1>2
  <2> HIDE DEF x, y, s, b
  <2>6. o + 1 \in 1 .. b /\ b \in Nat
    BY <1>4, <2>5
  <2>7. Signs(y)[o + 1] = IF y[o + 1] >= 0 THEN 1 ELSE -1
    BY <2>4, <2>6, SignsType
  <2> QED BY <2>4, <2>7
<1>10. o \div WordBits \in 0 .. nb - 1
  <2>1. o \in 0 .. b - 1 /\ b \in Nat
    BY <1>2, <1>4
  <2> HIDE DEF b
  <2> QED BY <2>1, WordsEnough
<1>11. \A w \in 0 .. na - 1 : scratch[in + w] = Bits(u, a, w)
  BY <1>3 DEF WordsIn
<1>12. Final => \A j \in 0 .. o - 1 : scratch[Scores + j] = x[j + 1]
  BY <1>3 DEF WordsOut
<1>13. ~Final /\ o > 0 => \A w \in 0 .. nb - 1 : scratch[out + w] = Bits(x, o, w)
  BY <1>3 DEF WordsOut
<1>14. Mem = IF o > 0 THEN scratch ELSE Stored(clear, scratch)
  BY DEF Mem
<1>15. scratch' = IF Final THEN Stored([c \in {Scores + o} |-> s], Mem)
                  ELSE IF s >= 0
                  THEN Stored([c \in {word} |-> Mem[word] \cup {o % WordBits}], Mem)
                  ELSE Mem
  BY DEF bnn_layer, Mem
<1>16. o \in 0 .. b - 1 /\ o \in Nat
  BY <1>2, <1>4
<1>17. \A n \in Nat : \A w \in Nat :
          Bits(x, n + 1, w) = IF w = n \div WordBits /\ x[n + 1] >= 0
                              THEN Bits(x, n, w) \cup {n % WordBits}
                              ELSE Bits(x, n, w)
  BY NextBit
<1> HIDE DEF a, b, D, na, nb, u, x, s
\* The words are clear at first.
<1>18. \A w \in Nat : Bits(x, 0, w) = {}
  <2> TAKE w \in Nat
  <2>1. \A k \in 0 .. WordBits - 1 : ~(w * WordBits + k < 0)
    <3>1. WordBits \in Nat \ {0}
      BY DEF KernelAssumption
    <3>2. w * WordBits \in Nat
      BY <3>1
    <3> QED BY <3>1, <3>2
  <2> QED BY <2>1 DEF Bits
<1>19. /\ DOMAIN Mem = D
       /\ \A w \in 0 .. na - 1 : Mem[in + w] = Bits(u, a, w)
       /\ Final => \A j \in 0 .. o - 1 : Mem[Scores + j] = x[j + 1]
       /\ ~Final => \A w \in 0 .. nb - 1 : Mem[out + w] = Bits(x, o, w)
  <2>1. CASE o > 0
    BY <1>7, <1>11, <1>12, <1>13, <1>14, <2>1
  <2>2. CASE ~(o > 0)
    <3>1. Mem = Stored(clear, scratch) /\ o = 0
      BY <1>14, <1>16, <2>2
    <3>2. \A w \in 0 .. nb - 1 : out + w \in DOMAIN clear /\ clear[out + w] = {}
      BY <1>5
    <3>3. \A w \in 0 .. na - 1 : in + w \notin DOMAIN clear
      <4> TAKE w \in 0 .. na - 1
      <4> SUFFICES ASSUME in + w \in out .. out + nb - 1 PROVE FALSE
        OBVIOUS
      <4>1. (in + w) - out \in 0 .. nb - 1 /\ out + ((in + w) - out) = in + w
        BY <1>5
      <4> QED BY <1>6, <4>1
    <3>4. DOMAIN clear \subseteq D
      <4>1. \A c \in out .. out + nb - 1 : c \in D
        <5> TAKE c \in out .. out + nb - 1
        <5>1. c - out \in 0 .. nb - 1 /\ out + (c - out) = c
          BY <1>5
        <5> QED BY <1>6, <5>1
      <4> QED BY <4>1
    <3> HIDE DEF clear
    <3>5. DOMAIN Mem = D
      BY <1>7, <3>1, <3>4 DEF Stored
    <3>6. \A w \in 0 .. na - 1 : Mem[in + w] = Bits(u, a, w)
      <4> TAKE w \in 0 .. na - 1
      <4>1. in + w \in DOMAIN scratch
        BY <1>6, <1>7
      <4> QED BY <1>11, <3>1, <3>3, <4>1, StoredAt
    <3>7. \A w \in 0 .. nb - 1 : Mem[out + w] = Bits(x, o, w)
      <4> TAKE w \in 0 .. nb - 1
      <4>1. Mem[out + w] = {}
        BY <3>1, <3>2, StoredAt
      <4>2. w \in Nat
        BY <1>5
      <4> QED BY <1>18, <3>1, <4>1, <4>2
    <3>8. 0 .. o - 1 = {}
      BY <3>1
    <3> QED BY <3>5, <3>6, <3>7, <3>8
  <2> QED BY <2>1, <2>2
<1> HIDE DEF clear
<1>20. \A w \in 0 .. na - 1 : in + w < Scores /\ in + w # word
  <2> TAKE w \in 0 .. na - 1
  <2>1. in + w < Scores
    BY <1>5
  <2>2. in + w # word
    BY <1>6, <1>10
  <2> QED BY <2>1, <2>2
<1>21. \A w \in 0 .. na - 1 : scratch'[in + w] = Bits(u, a, w)
  <2> TAKE w \in 0 .. na - 1
  <2>1. /\ in + w \in DOMAIN Mem /\ Mem[in + w] = Bits(u, a, w)
        /\ in + w # word /\ in + w # Scores + o
    <3>1. in + w \in DOMAIN Mem /\ Mem[in + w] = Bits(u, a, w) /\ in + w # word
      BY <1>6, <1>19, <1>20
    <3>2. in + w < Scores
      BY <1>20
    <3>3. in + w # Scores + o
      <4> HIDE DEF word
      <4> QED BY <1>5, <1>16, <3>2
    <3> QED BY <3>1, <3>3
  <2>2. ASSUME NEW cell, NEW e, in + w # cell
        PROVE  Stored([c \in {cell} |-> e], Mem)[in + w] = Mem[in + w]
    BY <2>1, <2>2, StoredAt
  <2> HIDE DEF word
  <2> QED BY <1>15, <2>1, <2>2
<1>22. Final => \A j \in 0 .. o : scratch'[Scores + j] = x[j + 1]
  <2> SUFFICES ASSUME Final, NEW j \in 0 .. o PROVE scratch'[Scores + j] = x[j + 1]
    OBVIOUS
  <2> DEFINE one == [c \in {Scores + o} |-> s]
  <2>1. scratch' = Stored(one, Mem)
    BY <1>15
  <2>2. Scores + j \in D
    BY <1>4, <1>5, <1>16 DEF D
  <2>3. CASE j = o
    <3>1. Scores + o \in DOMAIN one /\ one[Scores + o] = s
      OBVIOUS
    <3> HIDE DEF one
    <3> QED BY <1>9, <2>1, <2>3, <3>1, StoredAt
  <2>4. CASE j # o
    <3>1. j \in 0 .. o - 1
      BY <1>16, <2>4
    <3>2. Scores + j \notin DOMAIN one
      BY <1>5, <1>16, <2>4
    <3> HIDE DEF one
    <3> QED BY <1>19, <2>1, <2>2, <3>1, <3>2, StoredAt
  <2> QED BY <2>3, <2>4
<1>23. ~Final => \A w \in 0 .. nb - 1 : scratch'[out + w] = Bits(x, o + 1, w)
  <2> SUFFICES ASSUME ~Final, NEW w \in 0 .. nb - 1
               PROVE  scratch'[out + w] = Bits(x, o + 1, w)
    OBVIOUS
  <2>1. w \in Nat /\ out + w \in DOMAIN Mem /\ Mem[out + w] = Bits(x, o, w)
    BY <1>5, <1>6, <1>19
  <2>2. Bits(x, o + 1, w) = IF w = o \div WordBits /\ x[o + 1] >= 0
                            THEN Bits(x, o, w) \cup {o % WordBits}
                            ELSE Bits(x, o, w)
    BY <1>16, <1>17, <2>1
  <2>3. x[o + 1] >= 0 <=> s >= 0
    <3>1. x[o + 1] = IF s >= 0 THEN 1 ELSE -1
      BY <1>9
    <3>2. 1 >= 0 /\ ~(-1 >= 0)
      OBVIOUS
    <3> QED BY <3>1, <3>2
  <2>4. CASE s >= 0
    <3> DEFINE one == [c \in {word} |-> Mem[word] \cup {o % WordBits}]
    <3>1. scratch' = Stored(one, Mem)
      BY <1>15, <2>4
    <3>2. out + w = word <=> w = o \div WordBits
      BY <1>5, <1>10, <2>1
    <3>3. CASE w = o \div WordBits
      <4>1. out + w \in DOMAIN one
            /\ one[out + w] = Mem[out + w] \cup {o % WordBits}
        BY <3>2, <3>3
      <4> HIDE DEF one
      <4>2. Bits(x, o + 1, w) = Bits(x, o, w) \cup {o % WordBits}
        BY <2>2, <2>3, <2>4, <3>3
      <4>3. scratch'[out + w] = Mem[out + w] \cup {o % WordBits}
        BY <3>1, <4>1, StoredAt
      <4> QED BY <2>1, <4>2, <4>3
    <3>4. CASE w # o \div WordBits
      <4>1. out + w \notin DOMAIN one
        BY <3>2, <3>4
      <4> HIDE DEF one
      <4> QED BY <2>1, <2>2, <3>1, <3>4, <4>1, StoredAt
    <3> QED BY <3>3, <3>4
  <2>5. CASE ~(s >= 0)
    BY <1>15, <2>1, <2>2, <2>3, <2>5
  <2> QED BY <2>4, <2>5
<1>24. Scores' = Scores
  BY <1>1 DEF Scores, MaxSize
<1>25. raw' \in Seq(Int)
  BY <1>1, <1>3
<1> HIDE DEF word
<1>26. CASE o + 1 < b
  <2>1. o' = o + 1 /\ l' = l /\ in' = in /\ out' = out /\ phase' = phase
    BY <1>1, <1>26 DEF Advance, b
  <2>2. /\ Act(l - 1)' = u /\ Act(l)' = x /\ size(l)' = a /\ size(l + 1)' = b
        /\ Final' = Final
    BY <1>1, <2>1 DEF Act, Vector, size, Final, Layers, u, x, a, b
  <2>3. WordsIn'
    BY <1>21, <2>1, <2>2 DEF WordsIn, na
  <2>4. WordsOut'
    <3>1. CASE Final
      <4>1. 0 .. o' - 1 = 0 .. o
        BY <1>16, <2>1
      <4>2. \A j \in 0 .. o' - 1 : scratch'[Scores' + j] = x[j + 1]
        BY <1>22, <1>24, <3>1, <4>1
      <4> QED BY <2>2, <3>1, <4>2 DEF WordsOut
    <3>2. CASE ~Final
      <4>1. \A w \in 0 .. nb - 1 : scratch'[out' + w] = Bits(x, o', w)
        BY <1>23, <2>1, <3>2
      <4> QED BY <2>2, <3>2, <4>1 DEF WordsOut, nb
    <3> QED BY <3>1, <3>2
  <2> QED BY <1>1, <1>25, <2>1, <2>3, <2>4 DEF BnnInv
<1>27. CASE ~(o + 1 < b)
  <2>1. o + 1 = b
    BY <1>4, <1>16, <1>27
  <2>2. /\ o' = 0 /\ in' = out
        /\ l = Layers => phase' = "argmax"
        /\ l # Layers => l' = l + 1 /\ phase' = "layer"
    BY <1>1, <1>27 DEF Advance, b
  <2>3. CASE l = Layers
    <3>1. Act(Layers)' = x /\ size(Layers + 1)' = b
      BY <1>1, <2>3 DEF Act, Vector, Layers, size, x, b
    <3>2. 0 .. o = 0 .. b - 1
      BY <1>16, <2>1
    <3>3. \A j \in 0 .. b - 1 : scratch'[Scores' + j] = x[j + 1]
      BY <1>22, <1>24, <2>3, <3>2 DEF Final
    <3> QED BY <1>25, <2>2, <2>3, <3>1, <3>3 DEF BnnInv
  <2>4. CASE l # Layers
    <3>1. l' = l + 1 /\ l' - 1 = l
      BY <1>2, <2>2, <2>4
    <3>2. Act(l - 1)' = x /\ size(l)' = b
      BY <1>1, <3>1 DEF Act, Vector, size, x, b
    <3>3. \A w \in 0 .. nb - 1 : scratch'[in' + w] = Bits(x, b, w)
      BY <1>23, <2>1, <2>2, <2>4 DEF Final
    <3>4. WordsIn'
      BY <3>2, <3>3 DEF WordsIn, nb
    <3>5. WordsOut'
      BY <2>2 DEF WordsOut
    <3> QED BY <1>25, <2>2, <2>4, <3>4, <3>5 DEF BnnInv
  <2> QED BY <2>3, <2>4
<1> QED BY <1>26, <1>27

\* The verdict of a BNN.
LEMMA BnnArgmax ==
  ASSUME KernelAssumption, KernelTypeOK, BnnInv, Bnn, Argmax
  PROVE  VerdictIsTrained'
<1>1. phase = "argmax" /\ phase # "ready"
  BY DEF Argmax
<1>2. model \in Models /\ Layered /\ raw \in Seq(Int)
  BY <1>1 DEF KernelTypeOK, BnnInv
<1>3. Classifier
  BY <1>2, NetworkSizes DEF IsNetwork, Bnn, Classifier
<1> DEFINE n == size(Layers + 1)
           s == Act(Layers)
<1>4. n \in Nat \ {0} /\ s \in [1 .. n -> Int] /\ Logits(model, Vector) = s
  BY <1>2, LogitsAre
<1>5. \A j \in 0 .. n - 1 : scratch[Scores + j] = s[j + 1]
  BY <1>1 DEF BnnInv
<1> HIDE DEF s, n
<1>6. Outcome(Scores) = s
  <2>1. \A j \in 1 .. n : scratch[Scores + j - 1] = s[j]
    <3> TAKE j \in 1 .. n
    <3>1. j - 1 \in 0 .. n - 1 /\ (j - 1) + 1 = j
      BY <1>4
    <3> QED BY <1>5, <3>1
  <2>2. Outcome(Scores) = [j \in 1 .. n |-> scratch[Scores + j - 1]]
    BY DEF Outcome, n
  <2> QED BY <1>4, <2>1, <2>2
<1>7. verdict' = Verdict(s) /\ UNCHANGED <<model, raw>>
  BY <1>4, <1>6, ArgmaxIs DEF Bnn
<1>8. Verdict(s) = ClassOf(s)
  BY <1>3 DEF Verdict, ClassOf
<1>9. Trained(model, Vector) = ClassOf(Logits(model, Vector))
  BY DEF Trained, Bnn
<1>10. verdict' = Trained(model, Scaled(model, raw))
  BY <1>4, <1>7, <1>8, <1>9 DEF Vector
<1> QED BY <1>7, <1>10 DEF VerdictIsTrained

-----------------------------------------------------------------------------
(* XNNPACK *)

GraphLayer(n, a) ==
    LET m == n - 1
        y == [j \in 1 .. size(n) |->
                model.bias[m][j] +
                SumOf([k \in 1 .. size(m) |->
                       W_XNN(m)[(j - 1) * size(m) + k - 1] * a[m][k]])]
    IN  IF m = Layers THEN y ELSE Relus(y)
GraphBy(a, v) == a = [n \in 1 .. Layers + 1 |-> IF n = 1 THEN v ELSE GraphLayer(n, a)]

\* A layer of the graph XNNPACK is given is the network's.
LEMMA GraphLayerIs ==
  ASSUME KernelAssumption, model \in Models, Mlp, NEW v \in [1 .. size(1) -> Int],
         NEW m \in 1 .. Layers, NEW a, a[m] = Activations(model, v)[m - 1]
  PROVE  GraphLayer(m + 1, a) = Activations(model, v)[m]
<1> DEFINE p == size(m)
           q == size(m + 1)
           x == a[m]
           w == model.weight[m]
           bias == model.bias[m]
           f(j) == [k \in 1 .. p |-> W_XNN(m)[(j - 1) * p + k - 1] * x[k]]
           y == [j \in 1 .. q |-> bias[j] + SumOf(f(j))]
<1>0. Layered
  BY DEF Mlp, Layered
<1>1. /\ p \in Nat \ {0} /\ q \in Nat \ {0}
      /\ w \in [1 .. q -> [1 .. p -> Int]] /\ bias \in [1 .. q -> Int]
      /\ m \in Nat /\ (m + 1) - 1 = m /\ m - 1 \in 0 .. Layers /\ (m - 1) + 1 = m
  BY <1>0, NetworkShape
<1>2. x \in [1 .. p -> Int]
  <2>1. Activations(model, v)[m - 1] \in [1 .. size((m - 1) + 1) -> Int]
    BY <1>0, <1>1, ActivationsTyped
  <2> QED BY <1>1, <2>1
<1>3. GraphLayer(m + 1, a) = IF m = Layers THEN y ELSE Relus(y)
  BY <1>1 DEF GraphLayer
<1>4. Activations(model, v)[m] = LayerOf(model, m, x)
  BY <1>0, ActivationsTyped
<1>5. LayerOf(model, m, x) = IF m = Layers THEN Linear(w, bias, x)
                             ELSE Relus(Linear(w, bias, x))
  BY LayerByRaw DEF Layers, Raw, Mlp
<1>6. W_XNN(m) = [e \in 0 .. p * q - 1 |-> w[(e \div p) + 1][(e % p) + 1]]
  BY DEF W_XNN
<1> HIDE DEF p, q, x, w, bias
<1>7. /\ Linear(w, bias, x) \in [1 .. q -> Int]
      /\ \A j \in 1 .. q :
            /\ Linear(w, bias, x)[j] = SumOver(Products(w[j], x, p), 1 .. p) + bias[j]
            /\ SumOver(Products(w[j], x, p), 1 .. p) \in Int
  <2>1. p \in Nat /\ q \in Nat
    BY <1>1
  <2> QED BY <1>1, <1>2, <2>1, LinearIs
<1>8. ASSUME NEW j \in 1 .. q PROVE f(j) = Products(w[j], x, p)
  <2>1. ASSUME NEW k \in 1 .. p
        PROVE  W_XNN(m)[(j - 1) * p + k - 1] = w[j][k]
    <3> DEFINE e == (j - 1) * p + (k - 1)
    <3>1. j - 1 \in 0 .. q - 1 /\ k - 1 \in 0 .. p - 1
      BY <1>1
    <3>2. e \in 0 .. q * p - 1 /\ e % p = k - 1 /\ e \div p = j - 1
      <4> DEFINE g == j - 1
                 h == k - 1
      <4>1. /\ g \in 0 .. q - 1 /\ h \in 0 .. p - 1
            /\ q \in Nat \ {0} /\ p \in Nat \ {0}
        BY <1>1, <3>1
      <4> HIDE DEF g, h
      <4>2. g * p + h \in 0 .. q * p - 1 /\ (g * p + h) % p = h
            /\ (g * p + h) \div p = g
        BY ONLY <4>1, RowByRow
      <4> QED BY <4>2 DEF g, h
    <3>3. q * p = p * q /\ (j - 1) + 1 = j /\ (k - 1) + 1 = k
      BY <1>1
    <3>4. e = (j - 1) * p + k - 1
      OBVIOUS
    <3> HIDE DEF e
    <3>5. W_XNN(m)[e] = w[j][k]
      BY <1>6, <3>2, <3>3
    <3> QED BY <3>4, <3>5
  <2> QED BY <2>1 DEF Products
<1>9. \A j \in 1 .. q : bias[j] + SumOf(f(j)) = Linear(w, bias, x)[j]
  <2> TAKE j \in 1 .. q
  <2>1. SumOf(f(j)) = SumOver(Products(w[j], x, p), 1 .. p)
    <3>1. SumOf(Products(w[j], x, p)) = SumOver(Products(w[j], x, p), 1 .. p)
      <4> DEFINE g == Products(w[j], x, p)
      <4>1. DOMAIN g = 1 .. p
        BY DEF Products
      <4> HIDE DEF g
      <4>2. SumOf(g) = SumOver(g, 1 .. p)
        BY <4>1 DEF SumOf, SumOver
      <4> QED BY <4>2 DEF g
    <3> QED BY <1>8, <3>1
  <2>2. bias[j] \in Int
    BY <1>1
  <2> HIDE DEF f
  <2> QED BY <1>7, <2>1, <2>2
<1> HIDE DEF f
<1>10. y = Linear(w, bias, x)
  <2>1. Linear(w, bias, x) = [j \in 1 .. q |-> Linear(w, bias, x)[j]]
    BY <1>7
  <2> QED BY <1>9, <2>1
<1> HIDE DEF y
<1> QED BY <1>3, <1>4, <1>5, <1>10

\* The whole graph, layer by layer.
LEMMA SubgraphIsTrained ==
  ASSUME KernelAssumption, model \in Models, Mlp, NEW v \in [1 .. size(1) -> Int]
  PROVE  Subgraph(v) = Logits(model, v)
<1> DEFINE L == Layers
           act == Activations(model, v)
           a == CHOOSE b : GraphBy(b, v)
           c == [n \in 1 .. L + 1 |-> act[n - 1]]
<1>0. Layered
  BY DEF Mlp, Layered
<1>1. L \in Nat \ {0}
  BY <1>0, NetworkSizes
<1>2. Subgraph(v) = a[L + 1]
  BY DEF Subgraph, GraphBy, GraphLayer
<1>3. act[0] = v
  BY <1>0, ActivationsTyped
<1>4. GraphBy(a, v)
  <2>1. ASSUME NEW n \in 1 .. L + 1
        PROVE  c[n] = IF n = 1 THEN v ELSE GraphLayer(n, c)
    <3>1. CASE n = 1
      <4>1. n - 1 = 0 /\ c[n] = act[n - 1]
        BY <3>1
      <4> HIDE DEF c, act
      <4> QED BY <1>3, <3>1, <4>1
    <3>2. CASE n # 1
      <4> DEFINE m == n - 1
      <4>1. m \in 1 .. L /\ m + 1 = n /\ m \in 1 .. L + 1
        BY <1>1, <3>2
      <4>2. c[m] = act[m - 1] /\ c[m + 1] = act[n - 1]
        BY <4>1
      <4> HIDE DEF c, m
      <4>3. GraphLayer(m + 1, c) = act[m]
        BY <4>1, <4>2, GraphLayerIs
      <4> QED BY <3>2, <4>1, <4>2, <4>3 DEF m
    <3> QED BY <3>1, <3>2
  <2>2. c = [n \in 1 .. L + 1 |-> c[n]]
    OBVIOUS
  <2> HIDE DEF c
  <2>3. GraphBy(c, v)
    BY <2>1, <2>2 DEF GraphBy
  <2> QED BY <2>3
<1> HIDE DEF a
<1>5. \A n \in 1 .. L + 1 : a[n] = IF n = 1 THEN v ELSE GraphLayer(n, a)
  BY <1>4 DEF GraphBy
<1> HIDE DEF act, L
<1> DEFINE Same(n) == a[n + 1] = act[n]
           T == {n \in Nat : n <= L => Same(n)}
<1>6. 0 \in T
  <2>1. 0 + 1 = 1 /\ 1 \in 1 .. L + 1
    BY <1>1
  <2> QED BY <1>3, <1>5, <2>1
<1>7. ASSUME NEW n \in T PROVE n + 1 \in T
  <2> SUFFICES ASSUME n + 1 <= L PROVE Same(n + 1)
    OBVIOUS
  <2> DEFINE m == n + 1
  <2>1. /\ n \in Nat /\ n <= L /\ m \in 1 .. L /\ m - 1 = n
        /\ m + 1 \in 1 .. L + 1 /\ m + 1 # 1
    BY <1>1
  <2>2. a[m] = act[n]
    BY <2>1
  <2> HIDE DEF m
  <2>3. GraphLayer(m + 1, a) = act[m]
    BY <2>1, <2>2, GraphLayerIs DEF act, L
  <2>4. a[m + 1] = GraphLayer(m + 1, a)
    BY <1>5, <2>1
  <2> QED BY <2>3, <2>4 DEF m
<1>8. T = Nat
  <2>1. T \subseteq Nat
    OBVIOUS
  <2> HIDE DEF T
  <2> QED BY <1>6, <1>7, <2>1, Inductive
<1>9. Same(L)
  <2>1. L \in {n \in Nat : n <= L => Same(n)} /\ L <= L
    <3> HIDE DEF Same
    <3> QED BY <1>1, <1>8
  <2> HIDE DEF Same
  <2> QED BY <2>1
<1>10. Logits(model, v) = act[L]
  BY DEF Logits, act, L, Layers
<1> QED BY <1>2, <1>9, <1>10 DEF L

\* The verdict of XNNPACK.
LEMMA XnnpackVerdict ==
  ASSUME KernelAssumption, KernelTypeOK, NEW v \in Vectors, predict_mlp_xnnpack(v)
  PROVE  VerdictIsTrained'
<1>1. /\ model \in Models /\ model.kernel = "xnnpack" /\ v \in Seq(Int)
      /\ model' = model /\ raw' = v
      /\ verdict' = Best(Subgraph(Scaled(model, v))) - 1
  BY DEF predict_mlp_xnnpack, KernelTypeOK, KernelAssumption
<1>2. Mlp
  <2>1. \/ model.kind \in {"mlp", "bnn"} /\ IsNetwork(model)
        \/ model.kind = "rf" /\ IsForest(model)
    BY <1>1 DEF KernelAssumption
  <2> QED BY <1>1, <2>1 DEF IsNetwork, IsForest, Mlp
<1> DEFINE s == Scaled(model, v)
<1>3. s \in [1 .. size(1) -> Int]
  BY <1>1, <1>2, ScaledType DEF Mlp, Layered
<1> HIDE DEF s
<1>4. Subgraph(s) = Logits(model, s)
  BY <1>1, <1>2, <1>3, SubgraphIsTrained
<1>5. Trained(model, s) = Best(Logits(model, s)) - 1
  BY <1>1, <1>2 DEF Trained, MlpClass, Mlp
<1>6. verdict' = Trained(model', Scaled(model', raw'))
  BY <1>1, <1>4, <1>5 DEF s
<1> QED BY <1>6 DEF VerdictIsTrained

-----------------------------------------------------------------------------
(* Every kernel *)

\* The verdict of a forest.
LEMMA RfVerdict ==
  ASSUME KernelAssumption, KernelTypeOK, NEW v \in Vectors, rf_predict_entry(v)
  PROVE  VerdictIsTrained'
<1>1. /\ model \in Models /\ model.kind = "rf" /\ model' = model /\ raw' = v
      /\ verdict' = Leader(Votes(Scaled(model, v)), 0, model.classes - 1)
  BY DEF rf_predict_entry, KernelTypeOK
<1> DEFINE s == Scaled(model, v)
<1>2. verdict' = Leader(Votes(s), 0, model.classes - 1)
  BY <1>1
<1> HIDE DEF s
<1>3. Leader(Votes(s), 0, model.classes - 1) = Majority(model, s)
  BY <1>1, ForestVerdict
<1>4. Trained(model, s) = Majority(model, s)
  BY <1>1 DEF Trained
<1>5. verdict' = Trained(model', Scaled(model', raw'))
  BY <1>1, <1>2, <1>3, <1>4 DEF s
<1> QED BY <1>5 DEF VerdictIsTrained

\* Between the steps of a prediction the verdict says nothing: what has to be
\* kept is that the cells of the one buffer hold the input of this layer, those
\* of the other its outputs so far, and both from this vector alone.
KernelInv == /\ KernelTypeOK /\ StaysInScratch
             /\ MlpInv /\ BnnInv /\ VerdictIsTrained

LEMMA InitKernel ==
  ASSUME KernelAssumption, KernelInit PROVE KernelInv
<1>1. KernelTypeOK /\ StaysInScratch
  BY InitScratch DEF ScratchInv
<1>2. MlpInv /\ BnnInv /\ VerdictIsTrained
  BY DEF KernelInit, MlpInv, BnnInv, VerdictIsTrained
<1> QED BY <1>1, <1>2 DEF KernelInv

LEMMA StepKernel ==
  ASSUME KernelAssumption, KernelInv, [KernelNext]_kernel_vars PROVE KernelInv'
<1>0. KernelTypeOK /\ StaysInScratch /\ MlpInv /\ BnnInv /\ VerdictIsTrained
  BY DEF KernelInv
<1>1. KernelTypeOK' /\ StaysInScratch'
  BY <1>0, StepScratch DEF ScratchInv
<1> SUFFICES MlpInv' /\ BnnInv' /\ VerdictIsTrained'
  BY <1>1 DEF KernelInv
<1>2. ASSUME NEW v \in Vectors, Predict(v)
      PROVE  MlpInv' /\ BnnInv' /\ VerdictIsTrained'
  <2>1. MlpInv' /\ BnnInv'
    BY <1>0, <1>2, MlpEntry, BnnEntry
  <2>2. VerdictIsTrained'
    BY <1>2 DEF Predict, Entry, VerdictIsTrained
  <2> QED BY <2>1, <2>2
<1>3. CASE \/ mlp_layer_neon \/ mlp_layer_scalar \/ layer_forward_avx2
           \/ emit_wide_block \/ emit_dot_outputs
  <2>1. MlpInv'
    BY <1>0, <1>3, MlpWrite
  <2>2. /\ phase = "layer" /\ model.kind = "mlp"
        /\ \E n \in Nat \ {0} : \E acc : Room(n) /\ Write(n, acc)
    BY <1>0, <1>3, LayerWrites
  <2>3. model' = model /\ phase' \in {"layer", "argmax"}
    BY <2>2 DEF Write, Advance
  <2>4. BnnInv'
    BY <2>2, <2>3 DEF BnnInv, Bnn
  <2>5. VerdictIsTrained'
    BY <2>3 DEF VerdictIsTrained
  <2> QED BY <2>1, <2>4, <2>5
<1>4. CASE bnn_layer
  <2>1. BnnInv'
    BY <1>0, <1>4, BnnWrite
  <2>2. model.kind = "bnn" /\ model' = model /\ phase' \in {"layer", "argmax"}
    BY <1>4 DEF bnn_layer, Advance
  <2>3. MlpInv' /\ VerdictIsTrained'
    BY <2>2 DEF MlpInv, Mlp, VerdictIsTrained
  <2> QED BY <2>1, <2>3
<1>5. CASE Argmax
  <2>1. phase = "argmax" /\ phase' = "ready"
    BY <1>5 DEF Argmax
  <2>2. MlpInv' /\ BnnInv'
    BY <2>1 DEF MlpInv, BnnInv
  <2>3. Mlp \/ Bnn
    BY <1>0, <2>1 DEF KernelTypeOK, Layered, Mlp, Bnn
  <2>4. VerdictIsTrained'
    BY <1>0, <1>5, <2>3, MlpArgmax, BnnArgmax
  <2> QED BY <2>2, <2>4
<1>6. ASSUME NEW v \in Vectors, rf_predict_entry(v) \/ predict_mlp_xnnpack(v)
      PROVE  MlpInv' /\ BnnInv' /\ VerdictIsTrained'
  <2>1. phase' = "ready"
    BY <1>6 DEF rf_predict_entry, predict_mlp_xnnpack
  <2>2. MlpInv' /\ BnnInv'
    BY <2>1 DEF MlpInv, BnnInv
  <2>3. VerdictIsTrained'
    BY <1>0, <1>6, RfVerdict, XnnpackVerdict
  <2> QED BY <2>2, <2>3
<1>7. CASE UNCHANGED kernel_vars
  <2>1. UNCHANGED <<model, raw, phase, l, o, in, out, scratch, verdict>>
    BY <1>7 DEF kernel_vars
  <2>2. MlpInv'
    BY <1>0, <2>1 DEF MlpInv, Mlp, RawAccepted, InputHeld, OutputsHeld, LayerInput,
       Folded, Act, Vector, Output, RawOutput, Layers, size
  <2>3. BnnInv'
    BY <1>0, <2>1 DEF BnnInv, Bnn, WordsIn, WordsOut, Final, Act, Vector, Layers, size,
       Scores, MaxSize
  <2>4. VerdictIsTrained'
    BY <1>0, <2>1 DEF VerdictIsTrained
  <2> QED BY <2>2, <2>3, <2>4
<1> QED BY <1>2, <1>3, <1>4, <1>5, <1>6, <1>7 DEF KernelNext

\* What a kernel writes lies in the scratch memory that was asked for: the
\* kernels (infer_*.c) place their buffers, words and scores from the sizes of
\* the layers, model_runtime_init (inference.c) computes the size on its own.
THEOREM WritesStayInScratch == KernelSpec => []StaysInScratch
<1>1. KernelInit => ScratchInv
  BY KernelAssumption, InitScratch
<1>2. ScratchInv /\ [KernelNext]_kernel_vars => ScratchInv'
  BY KernelAssumption, StepScratch
<1>3. ScratchInv => StaysInScratch
  BY DEF ScratchInv
<1> QED BY <1>1, <1>2, <1>3, PTL DEF KernelSpec

\* While a layer runs, the cells it reads and the cells it writes are apart and
\* in the memory, so that no output takes the place of an input that is still
\* to be read: the buffers change places after every layer, and the second one
\* starts where no layer, to the word, reaches (mlp_predict_*, bnn_predict).
THEOREM LayersStayApart == KernelSpec => [](phase = "layer" => Apart)
<1>1. KernelInit => ScratchInv
  BY KernelAssumption, InitScratch
<1>2. ScratchInv /\ [KernelNext]_kernel_vars => ScratchInv'
  BY KernelAssumption, StepScratch
<1>3. ScratchInv => (phase = "layer" => Apart)
  BY KernelAssumption, LayersApart DEF ScratchInv
<1> QED BY <1>1, <1>2, <1>3, PTL DEF KernelSpec

\* The verdict of every kernel is the class the trained model gives the vector,
\* whatever an earlier prediction left in the memory: for any number and sizes
\* of layers, any weights and forests, any word and vector width, and for each
\* layout tools/export_*.py and train_export_hardcoded.py give the weights.
THEOREM VerdictAsTrained == KernelSpec => []VerdictIsTrained
<1>1. KernelInit => KernelInv
  BY KernelAssumption, InitKernel
<1>2. KernelInv /\ [KernelNext]_kernel_vars => KernelInv'
  BY KernelAssumption, StepKernel
<1>3. KernelInv => VerdictIsTrained
  BY DEF KernelInv
<1> QED BY <1>1, <1>2, <1>3, PTL DEF KernelSpec
=============================================================================
