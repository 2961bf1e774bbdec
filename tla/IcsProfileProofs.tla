-------------------------- MODULE IcsProfileProofs --------------------------
(***************************************************************************)
(* Proofs about the ICS profile, for every window, capacity and queue      *)
(* size, every set of registers and identifiers and any number of packets. *)
(*                                                                         *)
(* The profile uses a tracker, a pool and a queue.  Each is shown to be    *)
(* used as its own module says, so that what was proved of it there holds  *)
(* of it here; what the profile adds is then an invariant of its own.      *)
(***************************************************************************)
EXTENDS IcsProfile, DataLemmas

TP == INSTANCE ModbusTrackerProofs WITH
    Keys <- ReqKeys, Requests <- Addrs, NoRequest <- None,
    Capacity <- MaxPending, hash <- t_hash, pool <- t_pool,
    free_stack <- t_stack, free_top <- t_top, reply <- t_reply

SP == INSTANCE StoreProofs WITH
    Keys <- SensorKeys, Capacity <- MaxSensors,
    hash <- s_hash, next_free <- s_next,
    Items <- Vectors, NoItem <- None, Size <- QueueSize,
    items <- q_items, head <- q_head, tail <- q_tail,
    count <- q_count, dropped <- q_dropped

\* The assumptions of those modules.
LEMMA PartsConstants ==
  /\ MaxPending \in Nat \ {0} /\ None \notin Addrs
  /\ MaxSensors \in Nat \ {0}
  /\ QueueSize \in Nat \ {0}
BY IcsAssumption

\* s->window fits the array and has room for two readings.
LEMMA WindowFits == Window \in 2 .. MaxWindow
<1> DEFINE w == IF CfgWindow = 0 THEN 32 ELSE CfgWindow
           m == Min({w, MaxWindow})
<1>1. w \in Nat /\ MaxWindow \in Nat /\ 2 <= MaxWindow
  <2>1. CfgWindow \in Nat /\ MaxWindow \in Nat \ {0, 1}
    BY IcsAssumption
  <2> QED BY <2>1
<1> HIDE DEF w
<1>2. m \in Nat /\ m <= MaxWindow
  BY <1>1 DEF Min
<1>3. Window = Max({2, m})
  BY DEF Window, w
<1> HIDE DEF m
<1>4. Max({2, m}) \in {2, m} /\ Max({2, m}) >= 2
  BY <1>2 DEF Max
<1> QED BY <1>1, <1>2, <1>3, <1>4

-----------------------------------------------------------------------------
(* The operations of the parts are those of their modules. *)

LEMMA TrackerIs ==
  /\ Tracker!Init = TP!Init
  /\ \A k \in ReqKeys, a \in Addrs : Tracker!Add(k, a) = TP!Add(k, a)
  /\ \A k \in ReqKeys : Tracker!TakeFound(k) = TP!TakeFound(k)
  /\ \A k \in ReqKeys : Tracker!TakeMissing(k) = TP!TakeMissing(k)
  /\ Tracker!TypeOK = TP!TypeOK
BY DEF Tracker!Init, TP!Init, Tracker!Add, TP!Add, Tracker!AddAgain,
       TP!AddAgain, Tracker!AddNew, TP!AddNew, Tracker!AddNoSlot, TP!AddNoSlot,
       Tracker!AddRejected, TP!AddRejected, Tracker!TakeFound, TP!TakeFound,
       Tracker!TakeMissing, TP!TakeMissing, Tracker!Live, TP!Live,
       Tracker!Slots, TP!Slots, Tracker!Reply, TP!Reply, Tracker!TypeOK,
       TP!TypeOK

LEMMA PoolIs ==
  /\ Pool!Init = SP!Init
  /\ \A k \in SensorKeys : /\ Pool!Hit(k) = SP!Hit(k)
                          /\ Pool!Alloc(k) = SP!Alloc(k)
                          /\ Pool!NoEntry(k) = SP!NoEntry(k)
  /\ Pool!TypeOK = SP!TypeOK
BY DEF Pool!Init, SP!Init, Pool!Hit, SP!Hit, Pool!Alloc, SP!Alloc,
       Pool!NoEntry, SP!NoEntry, Pool!Tracked, SP!Tracked, Pool!vars, SP!vars,
       Pool!TypeOK, SP!TypeOK

LEMMA QueueIs ==
  /\ Queue!Init = SP!Queue!Init
  /\ \A x \in Vectors : Queue!Push(x) = SP!Queue!Push(x)
  /\ Queue!Pop = SP!Queue!Pop
  /\ Queue!TypeOK = SP!Queue!TypeOK
  /\ Queue!Content = SP!Queue!Content
BY DEF Queue!Init, SP!Queue!Init, Queue!Push, SP!Queue!Push, Queue!PushStored,
       SP!Queue!PushStored, Queue!PushDropped, SP!Queue!PushDropped, Queue!Pop, SP!Queue!Pop,
       Queue!TypeOK, SP!Queue!TypeOK, Queue!Places, SP!Queue!Places, Queue!Content,
       SP!Queue!Content

-----------------------------------------------------------------------------
(* The tracker.  Only requests and responses touch it.                     *)

AskedOK == asked \subseteq [key : ReqKeys, start : Addrs]

TrackerInv == TP!TypeOK /\ TP!PartitionInv /\ TP!LiveWritten

LEMMA TrackerSteps ==
  ASSUME AskedOK, [Next]_vars
  PROVE  [TP!Next]_(TP!vars) /\ AskedOK'
<1> USE TrackerIs DEF AskedOK
<1>1. ASSUME NEW k \in ReqKeys, NEW a \in Addrs, NEW sent \in BOOLEAN,
             RecvRequest(k, a, sent)
      PROVE  TP!Next /\ AskedOK'
  BY <1>1 DEF RecvRequest, TP!Next
<1>2. ASSUME NEW q \in asked, NEW again \in BOOLEAN, NEW data \in Responses,
             RecvResponse(q, data, again)
      PROVE  TP!Next /\ AskedOK'
  BY <1>2 DEF RecvResponse, TP!Next, TP!Take
<1>3. ASSUME NEW q \in asked, NEW again \in BOOLEAN, RecvShortResponse(q, again)
      PROVE  TP!Next /\ AskedOK'
  BY <1>3 DEF RecvShortResponse, TP!Next, TP!Take
<1>4. ASSUME NEW q \in asked, NEW again \in BOOLEAN, RecvUnmatched(q, again)
      PROVE  TP!Next /\ AskedOK'
  BY <1>4 DEF RecvUnmatched, TP!Next, TP!Take
<1>5. ASSUME NEW q \in asked, RecvIgnored(q)
      PROVE  UNCHANGED TP!vars /\ AskedOK'
  BY <1>5 DEF RecvIgnored, TP!vars, tracker
<1>6. ASSUME Handler \/ UNCHANGED vars
      PROVE  UNCHANGED TP!vars /\ AskedOK'
  BY <1>6 DEF Handler, ReadRegister, RegistersDone, Classify, DrainDone, vars,
              TP!vars, tracker, network
<1> QED
  BY <1>1, <1>2, <1>3, <1>4, <1>5, <1>6 DEF Next, Requests, Answers, Idle

LEMMA TrackerUsed == Spec => [](TrackerInv /\ AskedOK)
<1>1. Init => TP!Init /\ AskedOK
  BY TrackerIs DEF Init, AskedOK
<1>2. AskedOK /\ [Next]_vars => [TP!Next]_(TP!vars) /\ AskedOK'
  BY TrackerSteps
<1>3. Spec => TP!Spec /\ []AskedOK
  BY <1>1, <1>2, PTL DEF Spec, TP!Spec
<1>4. TP!Spec => []TrackerInv
  BY PartsConstants, TP!TrackerHolds DEF TrackerInv
<1> QED BY <1>3, <1>4, PTL

-----------------------------------------------------------------------------
(* Where the worker is, and the response it reads.                         *)

RespOK ==
  /\ pc \in {"rx", "regs", "drain"} /\ i \in Nat
  /\ packets \in 0 .. MaxPackets
  /\ resp.regs \in Seq(RegVals)
  /\ pc = "regs" => /\ resp.unit \in Units /\ resp.start \in Addrs
                    /\ resp.now \in Times

LEMMA RespSteps ==
  ASSUME AskedOK, TrackerInv, RespOK, [Next]_vars
  PROVE  RespOK'
<1> USE DEF RespOK
<1>0. MaxPackets \in Nat /\ Clock \in [1 .. MaxPackets -> Nat]
  BY IcsAssumption
<1>1. ASSUME NEW k \in ReqKeys, NEW a \in Addrs, NEW sent \in BOOLEAN,
             RecvRequest(k, a, sent)
      PROVE  RespOK'
  BY <1>0, <1>1 DEF RecvRequest, Receive
<1>2. ASSUME NEW q \in asked, NEW again \in BOOLEAN, NEW data \in Responses,
             RecvResponse(q, data, again)
      PROVE  RespOK'
  <2>1. q.key \in ReqKeys /\ q.key[2] \in Units
    BY DEF AskedOK, ReqKeys
  <2>2. t_reply'.req \in Addrs
    <3>1. TP!TakeFound(q.key)
      BY <1>2, <2>1, TrackerIs DEF RecvResponse
    <3> QED
      BY <2>1, <3>1, PartsConstants, TP!PendingChanges DEF TrackerInv, TP!Reply
  <2>3. data \in Seq(RegVals)
    BY DEF Responses
  <2>4. /\ pc' = "regs" /\ i' = 0
        /\ resp'.unit = q.key[2] /\ resp'.start = t_reply'.req
        /\ resp'.regs = data /\ resp'.now = Clock[packets']
        /\ packets < MaxPackets /\ packets' = packets + 1
    BY <1>2 DEF RecvResponse, Receive
  <2>5. packets' \in 1 .. MaxPackets
    BY <1>0, <2>4
  <2>6. resp'.now \in Times
    BY <2>4, <2>5 DEF Times
  <2> QED BY <2>1, <2>2, <2>3, <2>4, <2>5, <2>6
<1>3. ASSUME NEW q \in asked, NEW again \in BOOLEAN,
             RecvShortResponse(q, again) \/ RecvUnmatched(q, again)
      PROVE  RespOK'
  BY <1>0, <1>3 DEF RecvShortResponse, RecvUnmatched, Receive
<1>4. ASSUME NEW q \in asked, RecvIgnored(q) PROVE RespOK'
  BY <1>0, <1>4 DEF RecvIgnored, Receive
<1>5. ASSUME ReadRegister \/ RegistersDone \/ Classify \/ UNCHANGED vars
      PROVE  RespOK'
  BY <1>5 DEF ReadRegister, RegistersDone, Classify, vars, network
<1>6. ASSUME DrainDone PROVE RespOK'
  BY <1>6 DEF DrainDone, NoResponse, network
<1> QED
  BY <1>1, <1>2, <1>3, <1>4, <1>5, <1>6
  DEF Next, Requests, Answers, Handler, Idle

LEMMA RespHolds == Spec => []RespOK
<1>1. Init => RespOK
  BY IcsAssumption DEF Init, RespOK, NoResponse
<1>2. AskedOK /\ TrackerInv /\ RespOK /\ [Next]_vars => RespOK'
  BY RespSteps
<1> QED BY <1>1, <1>2, TrackerUsed, PTL DEF Spec

-----------------------------------------------------------------------------
(* The pool of sensors, the entries and the queue.  Only a register does   *)
(* anything to the first two.                                              *)

\* A register is a reading of one sensor.
LEMMA RegisterRead ==
  ASSUME RespOK, ReadRegister
  PROVE  /\ Sensor \in SensorKeys /\ Reading \in Samples
         /\ AddReading(Sensor, Reading)
<1>1. resp.unit \in Units /\ resp.start \in Addrs /\ i \in Nat
  BY DEF ReadRegister, RespOK
<1>2. Sensor \in SensorKeys
  <2>1. AddrSpace \in Nat \ {0} /\ Addrs \subseteq 0 .. AddrSpace - 1
    BY IcsAssumption
  <2>2. resp.start + i \in Nat
    <3>1. resp.start \in 0 .. AddrSpace - 1
      BY <1>1, <2>1
    <3> QED BY <1>1, <2>1, <3>1
  <2>3. (resp.start + i) % AddrSpace \in 0 .. AddrSpace - 1
    BY <2>1, <2>2
  <2> QED BY <1>1, <2>3 DEF Sensor, SensorKeys
<1>3. Reading \in Samples
  <2>1. Len(resp.regs) \in Nat /\ \A j \in 1 .. Len(resp.regs) : resp.regs[j] \in RegVals
    BY DEF RespOK
  <2>2. i < Len(resp.regs)
    BY DEF ReadRegister
  <2>3. i + 1 \in 1 .. Len(resp.regs)
    BY <1>1, <2>1, <2>2
  <2>4. Paired => i + 2 \in 1 .. Len(resp.regs)
    BY <1>1, <2>1, <2>2 DEF Paired
  <2>5. Reading.value \in Values
    BY <2>1, <2>3, <2>4 DEF Reading, Values
  <2>6. resp.now \in Times
    BY DEF ReadRegister, RespOK
  <2> QED BY <2>5, <2>6 DEF Reading, Samples
<1> QED BY <1>2, <1>3 DEF ReadRegister

LEMMA PoolSteps ==
  ASSUME RespOK, [Next]_vars
  PROVE  [SP!Next]_(SP!vars)
<1>1. ASSUME ReadRegister PROVE SP!Next
  BY <1>1, RegisterRead, PoolIs DEF AddReading, SP!Next, SP!LookupOrAlloc
<1>2. ASSUME ~ReadRegister PROVE UNCHANGED SP!vars
  BY <1>2
  DEF Next, Requests, Answers, Handler, Idle, RecvRequest, RecvResponse,
      RecvShortResponse, RecvUnmatched, RecvIgnored, RegistersDone, Classify,
      DrainDone, vars, sensors, SP!vars
<1> QED BY <1>1, <1>2

PoolInv == SP!TypeOK /\ SP!OneKeyPerEntry

LEMMA PoolUsed == Spec => []PoolInv
<1>1. Init => SP!Init
  BY PoolIs DEF Init
<1>2. RespOK /\ [Next]_vars => [SP!Next]_(SP!vars)
  BY PoolSteps
<1>3. Spec => SP!Spec
  BY <1>1, <1>2, RespHolds, PTL DEF Spec, SP!Spec
<1>4. SP!Spec => []SP!TypeOK
  BY PartsConstants, SP!PoolTypeCorrect
<1>5. SP!Spec => []SP!OneKeyPerEntry
  BY PartsConstants, SP!EntriesNotShared
<1> QED BY <1>3, <1>4, <1>5, PTL DEF PoolInv

\* write_index and sample_count move together, and the places below them
\* hold the readings of the window being filled.
Cells == [value : Values \cup {0}, tsc : Times \cup {0}]

Entry == [readings : [0 .. MaxWindow - 1 -> Cells],
          write_index : 0 .. MaxWindow - 1, sample_count : 0 .. Window - 1]

Filled(e) == /\ e.write_index = e.sample_count
             /\ \A j \in 0 .. e.sample_count - 1 : e.readings[j] \in Samples

EntriesOK == /\ entries \in [0 .. MaxSensors - 1 -> Entry]
             /\ \A n \in 0 .. MaxSensors - 1 : Filled(entries[n])

\* sensor_add_reading, after the lookup: either the window is open for more,
\* or it is complete.
Stored(e, v) == [e.readings EXCEPT ![e.write_index] = v]

Complete(e, k, v) ==
  [sensor |-> k, window |-> [j \in 1 .. Window |-> Stored(e, v)[j - 1]]]

LEMMA ReadingStored ==
  ASSUME NEW e \in Entry, Filled(e), NEW v \in Samples, NEW k \in SensorKeys
  PROVE  /\ Stored(e, v) \in [0 .. MaxWindow - 1 -> Cells]
         /\ \A j \in 0 .. e.sample_count : Stored(e, v)[j] \in Samples
         /\ \A j \in 0 .. e.sample_count - 1 : Stored(e, v)[j] = e.readings[j]
         /\ Stored(e, v)[e.sample_count] = v
         /\ e.sample_count + 1 >= Window => Complete(e, k, v) \in Windows
<1>1. /\ e.sample_count \in 0 .. Window - 1 /\ e.write_index = e.sample_count
      /\ e.readings \in [0 .. MaxWindow - 1 -> Cells]
      /\ \A j \in 0 .. e.sample_count - 1 : e.readings[j] \in Samples
  BY DEF Entry, Filled
<1>2. Window \in Nat /\ MaxWindow \in Nat /\ Window <= MaxWindow
  BY WindowFits, IcsAssumption
<1>3. /\ Stored(e, v) \in [0 .. MaxWindow - 1 -> Cells]
      /\ \A j \in 0 .. e.sample_count - 1 : Stored(e, v)[j] = e.readings[j]
      /\ Stored(e, v)[e.sample_count] = v
  <2>1. v \in Cells
    BY DEF Samples, Cells
  <2> QED BY <1>1, <1>2, <2>1 DEF Stored
<1>4. \A j \in 0 .. e.sample_count : Stored(e, v)[j] \in Samples
  BY <1>1, <1>3
<1>5. ASSUME e.sample_count + 1 >= Window PROVE Complete(e, k, v) \in Windows
  <2>1. \A j \in 1 .. Window : j - 1 \in 0 .. e.sample_count
    BY <1>1, <1>2, <1>5
  <2>2. [j \in 1 .. Window |-> Stored(e, v)[j - 1]] \in [1 .. Window -> Samples]
    BY <1>4, <2>1
  <2> QED BY <2>2 DEF Complete, Windows
<1> QED BY <1>3, <1>4, <1>5

LEMMA RecordIs ==
  ASSUME NEW n, NEW e \in Entry, Filled(e), NEW k \in SensorKeys,
         NEW v \in Samples, Record(n, e, k, v)
  PROVE  \/ /\ e.sample_count + 1 < Window
            /\ entries' = [entries EXCEPT ![n] =
                  [readings |-> Stored(e, v), write_index |-> e.sample_count + 1,
                   sample_count |-> e.sample_count + 1]]
            /\ completed' = None /\ UNCHANGED SP!Queue!vars
         \/ /\ e.sample_count + 1 = Window
            /\ entries' = [entries EXCEPT ![n] =
                  [readings |-> Stored(e, v), write_index |-> 0, sample_count |-> 0]]
            /\ Complete(e, k, v) \in Windows
            /\ completed' = Complete(e, k, v)
            /\ \E a \in {0, 1} : SP!Queue!Push(Vector(Complete(e, k, v), a))
<1>1. /\ e.sample_count \in 0 .. Window - 1 /\ e.write_index = e.sample_count
      /\ Window \in Nat
  BY WindowFits, IcsAssumption DEF Entry, Filled
<1>2. CASE e.sample_count + 1 >= Window
  <2>1. /\ entries' = [entries EXCEPT ![n] =
               [readings |-> Stored(e, v), write_index |-> 0, sample_count |-> 0]]
        /\ completed' = Complete(e, k, v)
        /\ \E a \in {0, 1} : Queue!Push(Vector(Complete(e, k, v), a))
    BY <1>2 DEF Record, Stored, Complete
  <2>2. Complete(e, k, v) \in Windows
    BY <1>2, ReadingStored
  <2>3. \E a \in {0, 1} : SP!Queue!Push(Vector(Complete(e, k, v), a))
    BY <2>1, <2>2, QueueIs DEF Vectors
  <2> QED BY <1>1, <1>2, <2>1, <2>2, <2>3
<1>3. CASE ~(e.sample_count + 1 >= Window)
  <2>1. /\ entries' = [entries EXCEPT ![n] =
               [readings |-> Stored(e, v), write_index |-> e.write_index + 1,
                sample_count |-> e.sample_count + 1]]
        /\ completed' = None /\ UNCHANGED queue
    BY <1>3 DEF Record, Stored
  <2> QED BY <1>1, <1>3, <2>1 DEF queue, SP!Queue!vars
<1> QED BY <1>2, <1>3

\* Which entry a reading goes to, and what it held.
LEMMA ReadingGoesTo ==
  ASSUME PoolInv, EntriesOK, NEW k \in SensorKeys, NEW v \in Samples,
         AddReading(k, v)
  PROVE  \/ /\ SP!Hit(k) /\ s_hash[k] \in 0 .. MaxSensors - 1
            /\ entries[s_hash[k]] \in Entry /\ Filled(entries[s_hash[k]])
            /\ Record(s_hash[k], entries[s_hash[k]], k, v)
         \/ /\ SP!Alloc(k) /\ s_next \in 0 .. MaxSensors - 1
            /\ s_hash' = [s_hash EXCEPT ![k] = s_next]
            /\ NewEntry \in Entry /\ Filled(NewEntry)
            /\ Record(s_next, NewEntry, k, v)
         \/ /\ SP!NoEntry(k)
            /\ UNCHANGED <<entries, completed>> /\ UNCHANGED SP!Queue!vars
<1>1. CASE Pool!Hit(k) /\ Record(s_hash[k], entries[s_hash[k]], k, v)
  <2>1. SP!Hit(k)
    BY <1>1, PoolIs
  <2>2. s_hash[k] \in 0 .. MaxSensors - 1
    BY <2>1, PartsConstants DEF SP!Hit, SP!Tracked, PoolInv, SP!TypeOK
  <2> QED BY <1>1, <2>1, <2>2 DEF EntriesOK
<1>2. CASE Pool!Alloc(k) /\ Record(s_hash'[k], NewEntry, k, v)
  <2>1. SP!Alloc(k)
    BY <1>2, PoolIs
  <2>2. /\ s_next \in 0 .. MaxSensors - 1 /\ s_hash'[k] = s_next
        /\ s_hash' = [s_hash EXCEPT ![k] = s_next]
    BY <2>1, PartsConstants DEF SP!Alloc, PoolInv, SP!TypeOK
  <2>3. NewEntry \in Entry /\ Filled(NewEntry)
    BY WindowFits, IcsAssumption DEF NewEntry, Entry, Filled, Cells
  <2> QED BY <1>2, <2>1, <2>2, <2>3
<1>3. CASE Pool!NoEntry(k) /\ UNCHANGED <<entries, queue, completed>>
  BY <1>3, PoolIs DEF queue, SP!Queue!vars
<1> QED BY <1>1, <1>2, <1>3 DEF AddReading

LEMMA RecordKeeps ==
  ASSUME EntriesOK, NEW n \in 0 .. MaxSensors - 1, NEW e \in Entry, Filled(e),
         NEW k \in SensorKeys, NEW v \in Samples, Record(n, e, k, v)
  PROVE  EntriesOK' /\ [SP!Queue!Next]_(SP!Queue!vars)
<1>1. ASSUME NEW c \in 0 .. Window - 1, c <= e.sample_count + 1,
             entries' = [entries EXCEPT ![n] =
                [readings |-> Stored(e, v), write_index |-> c, sample_count |-> c]]
      PROVE  EntriesOK'
  <2> DEFINE f == [readings |-> Stored(e, v), write_index |-> c, sample_count |-> c]
  <2>1. c \in 0 .. MaxWindow - 1
    BY WindowFits, IcsAssumption
  <2>2. f \in Entry
    BY <2>1, ReadingStored DEF Entry
  <2>3. Filled(f)
    <3>1. e.sample_count \in Nat
      BY DEF Entry
    <3>2. \A j \in 0 .. c - 1 : j \in 0 .. e.sample_count
      BY <1>1, <3>1
    <3> QED BY <3>2, ReadingStored DEF Filled
  <2>4. entries' = [entries EXCEPT ![n] = f]
    BY <1>1
  <2> HIDE DEF f
  <2> QED BY <2>2, <2>3, <2>4 DEF EntriesOK
<1>2. e.sample_count \in 0 .. Window - 1 /\ Window \in Nat \ {0}
  BY WindowFits, IcsAssumption DEF Entry
<1>3. CASE /\ e.sample_count + 1 < Window
           /\ entries' = [entries EXCEPT ![n] =
                 [readings |-> Stored(e, v), write_index |-> e.sample_count + 1,
                  sample_count |-> e.sample_count + 1]]
           /\ UNCHANGED SP!Queue!vars
  <2> DEFINE c == e.sample_count + 1
  <2>1. c < Window /\ c \in Nat
    BY <1>2, <1>3
  <2>2. c \in 0 .. Window - 1 /\ c <= e.sample_count + 1
    BY <1>2, <2>1
  <2>3. entries' = [entries EXCEPT ![n] =
           [readings |-> Stored(e, v), write_index |-> c, sample_count |-> c]]
    BY <1>3
  <2> HIDE DEF c
  <2> QED BY <1>1, <1>3, <2>2, <2>3
<1>4. CASE /\ entries' = [entries EXCEPT ![n] =
                 [readings |-> Stored(e, v), write_index |-> 0, sample_count |-> 0]]
           /\ Complete(e, k, v) \in Windows
           /\ \E a \in {0, 1} : SP!Queue!Push(Vector(Complete(e, k, v), a))
  <2>1. 0 \in 0 .. Window - 1 /\ 0 <= e.sample_count + 1
    BY <1>2
  <2>2. SP!Queue!Next
    BY <1>4 DEF SP!Queue!Next, Vectors
  <2> QED BY <1>1, <1>4, <2>1, <2>2
<1> QED BY <1>3, <1>4, RecordIs

LEMMA EntriesSteps ==
  ASSUME RespOK, PoolInv, EntriesOK, [Next]_vars
  PROVE  EntriesOK' /\ [SP!Queue!Next]_(SP!Queue!vars)
<1>1. ASSUME ReadRegister PROVE EntriesOK' /\ [SP!Queue!Next]_(SP!Queue!vars)
  <2>1. /\ Sensor \in SensorKeys /\ Reading \in Samples
        /\ AddReading(Sensor, Reading)
    BY <1>1, RegisterRead
  <2>2. UNCHANGED entries => EntriesOK'
    BY DEF EntriesOK
  <2> QED BY <2>1, <2>2, ReadingGoesTo, RecordKeeps
<1>2. ASSUME Classify PROVE EntriesOK' /\ [SP!Queue!Next]_(SP!Queue!vars)
  BY <1>2, QueueIs DEF Classify, sensors, EntriesOK, SP!Queue!Next
<1>3. ASSUME ~ReadRegister, ~Classify PROVE UNCHANGED <<entries, SP!Queue!vars>>
  BY <1>3
  DEF Next, Requests, Answers, Handler, Idle, RecvRequest, RecvResponse,
      RecvShortResponse, RecvUnmatched, RecvIgnored, RegistersDone,
      DrainDone, vars, sensors, queue, SP!Queue!vars
<1> QED BY <1>1, <1>2, <1>3 DEF EntriesOK

QueueInv == SP!RingInv /\ SP!HoldsVectors

LEMMA QueueUsed == Spec => SP!Queue!Spec /\ [](EntriesOK /\ QueueInv)
<1>1. Init => EntriesOK /\ SP!Queue!Init
  <2>1. NewEntry \in Entry /\ Filled(NewEntry)
    BY WindowFits, IcsAssumption DEF NewEntry, Entry, Filled, Cells
  <2> QED BY <2>1, QueueIs DEF Init, EntriesOK
<1>2. RespOK /\ PoolInv /\ EntriesOK /\ [Next]_vars
        => EntriesOK' /\ [SP!Queue!Next]_(SP!Queue!vars)
  BY EntriesSteps
<1>3. Spec => SP!Queue!Spec /\ []EntriesOK
  BY <1>1, <1>2, RespHolds, PoolUsed, PTL DEF Spec, SP!Queue!Spec
<1>4. SP!Queue!Spec => []QueueInv
  BY PartsConstants, SP!RingHolds DEF QueueInv
<1> QED BY <1>3, <1>4, PTL

-----------------------------------------------------------------------------
\* Every index stays inside its array: the slots of the tracker, the entries
\* of the pool, the ring, and write_index inside readings[], whatever window
\* the command line asks for (ics_init_worker, sensor_add_reading).
THEOREM TypeCorrect == Spec => []TypeOK
<1>1. TrackerInv /\ RespOK /\ PoolInv /\ EntriesOK /\ QueueInv => TypeOK
  BY TrackerIs, PoolIs, QueueIs
  DEF TrackerInv, RespOK, PoolInv, EntriesOK, Entry, Cells, QueueInv, SP!RingInv,
      TypeOK
<1> QED BY <1>1, TrackerUsed, RespHolds, PoolUsed, QueueUsed, PTL

\* The queue between the profile and the worker is a bounded first-in
\* first-out buffer of the vectors of complete windows (feature_queue_push,
\* feature_queue_pop, called by sensor_add_reading and drain_features).
THEOREM QueueImplementsFifo == Spec => QueueIsFifo
<1>1. SP!Queue!Fifo!Init => QueueSpec!Init
  BY QueueIs DEF SP!Queue!Fifo!Init, QueueSpec!Init
<1>2. [SP!Queue!Fifo!Next]_(SP!Queue!Fifo!vars) => [QueueSpec!Next]_(QueueSpec!vars)
  BY DEF SP!Queue!Fifo!Next, SP!Queue!Fifo!Put, SP!Queue!Fifo!Lose,
         SP!Queue!Fifo!Get, SP!Queue!Fifo!vars,
         QueueSpec!Next, QueueSpec!Put, QueueSpec!Lose, QueueSpec!Get,
         QueueSpec!vars, SP!Queue!Content, Queue!Content
<1>3. SP!Queue!Spec => SP!Queue!Fifo!Spec
  BY PartsConstants, SP!RingImplementsFifo
<1> QED
  BY <1>1, <1>2, <1>3, QueueUsed, PTL
  DEF SP!Queue!Fifo!Spec, QueueSpec!Spec, QueueIsFifo

-----------------------------------------------------------------------------
(* Whose registers are read.                                               *)

\* As long as no identifier was reused for another address, the request a
\* pending identifier leads to is the one its server saw last.
RightSoFar ==
  ~confused => /\ \A q \in asked : TP!pendingBar[q.key] \in {None, q.start}
               /\ pc = "regs" => resp.start = resp.genuine

LEMMA RightSteps ==
  ASSUME AskedOK, TrackerInv, RightSoFar, [Next]_vars
  PROVE  RightSoFar'
<1> DEFINE p == TP!pendingBar
           np == TP!pendingBar'
<1>0. /\ p \in [ReqKeys -> Addrs \cup {None}]
      /\ \A q \in asked : q.key \in ReqKeys /\ q.start \in Addrs
      /\ UNCHANGED <<t_hash, t_pool>> => np = p
  <2>1. p \in [ReqKeys -> Addrs \cup {None}]
    BY DEF TP!pendingBar, TrackerInv, TP!LiveWritten
  <2>2. UNCHANGED <<t_hash, t_pool>> => np = p
    BY DEF TP!pendingBar, TP!Live
  <2> QED BY <2>1, <2>2 DEF AskedOK
<1> SUFFICES ASSUME ~confused'
             PROVE  /\ \A q \in asked' : np[q.key] \in {None, q.start}
                    /\ pc' = "regs" => resp'.start = resp'.genuine
  BY DEF RightSoFar
<1>1. ASSUME NEW k \in ReqKeys, NEW a \in Addrs, NEW sent \in BOOLEAN,
             RecvRequest(k, a, sent)
      PROVE  /\ \A q \in asked' : np[q.key] \in {None, q.start}
             /\ pc' = "regs" => resp'.start = resp'.genuine
  <2>1. /\ ~confused /\ \A q \in asked : q.key = k => q.start = a
        /\ asked' \subseteq asked \cup {[key |-> k, start |-> a]}
        /\ pc' = "drain"
    BY <1>1 DEF RecvRequest
  <2>2. np = [p EXCEPT ![k] = a] \/ (np = p /\ p[k] = None)
    <3>1. TP!Add(k, a)
      BY <1>1, TrackerIs DEF RecvRequest
    <3> QED BY <3>1, PartsConstants, TP!PendingChanges DEF TrackerInv
  <2>3. \A q \in asked : p[q.key] \in {None, q.start}
    BY <2>1 DEF RightSoFar
  <2> HIDE DEF p, np
  <2> QED BY <1>0, <2>1, <2>2, <2>3
<1>2. ASSUME NEW q \in asked, TP!TakeFound(q.key)
      PROVE  /\ p[q.key] \in Addrs
             /\ t_reply'.req = p[q.key]
             /\ np = [p EXCEPT ![q.key] = None]
  <2>1. q.key \in ReqKeys
    BY <1>0
  <2> QED
    BY <1>2, <2>1, PartsConstants, TP!PendingChanges DEF TrackerInv, TP!Reply
<1>3. ASSUME NEW q \in asked, NEW again \in BOOLEAN, NEW data \in Responses,
             RecvResponse(q, data, again)
      PROVE  /\ \A r \in asked' : np[r.key] \in {None, r.start}
             /\ pc' = "regs" => resp'.start = resp'.genuine
  <2>1. /\ ~confused /\ asked' \subseteq asked
        /\ resp'.start = t_reply'.req /\ resp'.genuine = q.start
    BY <1>3 DEF RecvResponse
  <2>2. TP!TakeFound(q.key)
    BY <1>0, <1>3, TrackerIs DEF RecvResponse
  <2>3. \A r \in asked : p[r.key] \in {None, r.start}
    BY <2>1 DEF RightSoFar
  <2>4. /\ p[q.key] \in Addrs
        /\ t_reply'.req = p[q.key]
        /\ np = [p EXCEPT ![q.key] = None]
    BY <1>2, <2>2
  <2> HIDE DEF p, np
  <2> QED BY <1>0, <2>1, <2>3, <2>4, PartsConstants
<1>4. ASSUME NEW q \in asked, NEW again \in BOOLEAN, RecvShortResponse(q, again)
      PROVE  /\ \A r \in asked' : np[r.key] \in {None, r.start}
             /\ pc' = "regs" => resp'.start = resp'.genuine
  <2>1. ~confused /\ asked' \subseteq asked /\ pc' = "drain"
    BY <1>4 DEF RecvShortResponse
  <2>2. TP!TakeFound(q.key)
    BY <1>0, <1>4, TrackerIs DEF RecvShortResponse
  <2>3. \A r \in asked : p[r.key] \in {None, r.start}
    BY <2>1 DEF RightSoFar
  <2>4. np = [p EXCEPT ![q.key] = None]
    BY <1>2, <2>2
  <2> HIDE DEF p, np
  <2> QED BY <1>0, <2>1, <2>3, <2>4
<1>5. ASSUME UNCHANGED <<t_hash, t_pool, confused>>, asked' \subseteq asked,
             \/ pc' # "regs"
             \/ pc = "regs" /\ UNCHANGED resp
      PROVE  /\ \A r \in asked' : np[r.key] \in {None, r.start}
             /\ pc' = "regs" => resp'.start = resp'.genuine
  BY <1>0, <1>5 DEF RightSoFar
<1>6. ASSUME NEW q \in asked, NEW again \in BOOLEAN,
             RecvUnmatched(q, again) \/ RecvIgnored(q)
      PROVE  /\ UNCHANGED <<t_hash, t_pool, confused>>
             /\ asked' \subseteq asked /\ pc' # "regs"
  BY <1>6 DEF RecvUnmatched, RecvIgnored, Tracker!TakeMissing, tracker
<1>7. ASSUME Handler \/ UNCHANGED vars
      PROVE  /\ UNCHANGED <<t_hash, t_pool, confused>>
             /\ asked' \subseteq asked
             /\ pc' # "regs" \/ (pc = "regs" /\ UNCHANGED resp)
  BY <1>7 DEF Handler, ReadRegister, RegistersDone, Classify, DrainDone, vars,
              tracker, network
<1> QED
  BY <1>1, <1>3, <1>4, <1>5, <1>6, <1>7 DEF Next, Requests, Answers, Idle

\* Registers are read under the start address of the very request the
\* response answers, however late, repeated or malformed the responses are,
\* unless an identifier was reused for another address while its earlier
\* response could still come (ics_process_packet, modbus_tracker_take).
THEOREM AttributionIsRight == Spec => []AttributionRight
<1>1. Init => RightSoFar
  BY DEF Init, RightSoFar
<1>2. AskedOK /\ TrackerInv /\ RightSoFar /\ [Next]_vars => RightSoFar'
  BY RightSteps
<1>3. RightSoFar => AttributionRight
  BY DEF RightSoFar, AttributionRight
<1> QED BY <1>1, <1>2, <1>3, TrackerUsed, PTL DEF Spec

-----------------------------------------------------------------------------
(* The windows of the sensors.                                             *)

\* The readings of the window an entry is filling.
Open(e) == [j \in 1 .. e.sample_count |-> e.readings[j - 1]]

openBar == [k \in SensorKeys |->
              IF SP!Tracked(k) THEN Open(entries[s_hash[k]]) ELSE <<>>]

LEMMA ReadingAppended ==
  ASSUME NEW e \in Entry, Filled(e), NEW k \in SensorKeys, NEW v \in Samples
  PROVE  /\ Len(Append(Open(e), v)) = e.sample_count + 1
         /\ Append(Open(e), v)
              = [j \in 1 .. e.sample_count + 1 |-> Stored(e, v)[j - 1]]
<1> DEFINE c == e.sample_count
           a == Append(Open(e), v)
           b == [j \in 1 .. c + 1 |-> Stored(e, v)[j - 1]]
<1>1. /\ c \in Nat
      /\ \A j \in 0 .. c : Stored(e, v)[j] \in Samples
      /\ \A j \in 0 .. c - 1 : /\ e.readings[j] \in Samples
                             /\ Stored(e, v)[j] = e.readings[j]
      /\ Stored(e, v)[c] = v
  <2>1. c \in Nat
    BY DEF Entry
  <2> QED BY <2>1, ReadingStored DEF Filled
<1>2. /\ Open(e) \in Seq(Samples) /\ Len(Open(e)) = c
      /\ \A j \in 1 .. c : Open(e)[j] = e.readings[j - 1]
  <2>1. \A j \in 1 .. c : j - 1 \in 0 .. c - 1
    BY <1>1
  <2> HIDE DEF c
  <2>2. Open(e) = [j \in 1 .. c |-> e.readings[j - 1]]
    BY DEF Open, c
  <2> QED BY <1>1, <2>1, <2>2
<1>3. /\ b \in Seq(Samples) /\ Len(b) = c + 1
      /\ \A j \in 1 .. c + 1 : b[j] = Stored(e, v)[j - 1]
  <2>1. \A j \in 1 .. c + 1 : j - 1 \in 0 .. c
    BY <1>1
  <2> HIDE DEF c
  <2> QED BY <1>1, <2>1
<1>4. /\ a \in Seq(Samples) /\ Len(a) = c + 1
      /\ \A j \in 1 .. c : a[j] = Open(e)[j]
      /\ a[c + 1] = v
  BY <1>2, AppendProperties
<1> HIDE DEF a, b, c
<1>5. ASSUME NEW j \in 1 .. c + 1 PROVE a[j] = b[j]
  <2>1. CASE j = c + 1
    BY <1>1, <1>3, <1>4, <2>1
  <2>2. CASE j # c + 1
    <3>1. j \in 1 .. c /\ j - 1 \in 0 .. c - 1
      BY <1>1, <2>2
    <3> QED BY <1>1, <1>2, <1>3, <1>4, <3>1
  <2> QED BY <2>1, <2>2
<1>6. a = b
  BY <1>3, <1>4, <1>5, SeqEqual
<1> QED BY <1>4, <1>6 DEF a, b, c

\* A reading changes the window of its own sensor and of no other: two
\* sensors never share an entry.
LEMMA OpenChanges ==
  ASSUME PoolInv, EntriesOK, NEW k \in SensorKeys,
         NEW n \in 0 .. MaxSensors - 1, NEW f,
         \/ SP!Hit(k) /\ n = s_hash[k]
         \/ SP!Alloc(k) /\ n = s_next /\ s_hash' = [s_hash EXCEPT ![k] = s_next],
         entries' = [entries EXCEPT ![n] = f]
  PROVE  openBar' = [openBar EXCEPT ![k] = Open(f)]
<1>1. /\ s_hash \in [SensorKeys -> Int] /\ s_hash' \in [SensorKeys -> Int]
      /\ s_hash'[k] = n
      /\ \A l \in SensorKeys : l # k => s_hash'[l] = s_hash[l]
  BY PartsConstants DEF PoolInv, SP!TypeOK, SP!Hit, SP!Alloc, SP!vars
<1>2. \A l \in SensorKeys : l # k /\ s_hash[l] >= 0 => s_hash[l] # n
  BY PartsConstants DEF PoolInv, SP!TypeOK, SP!OneKeyPerEntry, SP!Tracked, SP!Hit, SP!Alloc
<1>3. /\ entries'[n] = f
      /\ \A m \in 0 .. MaxSensors - 1 : m # n => entries'[m] = entries[m]
  BY DEF EntriesOK
<1>4. \A l \in SensorKeys : s_hash[l] >= 0 => s_hash[l] \in 0 .. MaxSensors - 1
  BY PartsConstants DEF PoolInv, SP!TypeOK
<1> DEFINE w(l) == IF s_hash[l] >= 0 THEN Open(entries[s_hash[l]]) ELSE <<>>
           nw(l) == IF s_hash'[l] >= 0 THEN Open(entries'[s_hash'[l]]) ELSE <<>>
<1>5. \A l \in SensorKeys : nw(l) = IF l = k THEN Open(f) ELSE w(l)
  BY <1>1, <1>2, <1>3, <1>4
<1>6. openBar = [l \in SensorKeys |-> w(l)]
  BY DEF openBar, SP!Tracked
<1>7. openBar' = [l \in SensorKeys |-> nw(l)]
  BY DEF openBar, SP!Tracked, Open
<1> HIDE DEF w, nw
<1> QED BY <1>5, <1>6, <1>7

LEMMA RecordReads ==
  ASSUME PoolInv, EntriesOK, NEW k \in SensorKeys, NEW v \in Samples,
         NEW n \in 0 .. MaxSensors - 1, NEW e \in Entry, Filled(e),
         \/ SP!Hit(k) /\ n = s_hash[k]
         \/ SP!Alloc(k) /\ n = s_next /\ s_hash' = [s_hash EXCEPT ![k] = s_next],
         openBar[k] = Open(e), Record(n, e, k, v)
  PROVE  LET w == Append(openBar[k], v)
         IN  IF Len(w) < Window
               THEN openBar' = [openBar EXCEPT ![k] = w] /\ completed' = None
               ELSE /\ openBar' = [openBar EXCEPT ![k] = <<>>]
                    /\ completed' = [sensor |-> k, window |-> w]
<1> DEFINE w == Append(openBar[k], v)
           full == [readings |-> Stored(e, v), write_index |-> 0, sample_count |-> 0]
           more == [readings |-> Stored(e, v), write_index |-> e.sample_count + 1,
                    sample_count |-> e.sample_count + 1]
<1>1. /\ Len(w) = e.sample_count + 1 /\ e.sample_count \in Nat /\ Window \in Nat
      /\ w = [j \in 1 .. e.sample_count + 1 |-> Stored(e, v)[j - 1]]
  BY ReadingAppended, WindowFits DEF Entry
<1>2. CASE /\ e.sample_count + 1 < Window
           /\ entries' = [entries EXCEPT ![n] = more] /\ completed' = None
  <2>1. Open(more) = w
    BY <1>1 DEF Open
  <2> HIDE DEF more
  <2>2. openBar' = [openBar EXCEPT ![k] = Open(more)]
    BY <1>2, OpenChanges
  <2> QED BY <1>1, <1>2, <2>1, <2>2
<1>3. CASE /\ e.sample_count + 1 = Window
           /\ entries' = [entries EXCEPT ![n] = full]
           /\ completed' = Complete(e, k, v)
  <2>1. Open(full) = <<>>
    BY DEF Open
  <2>2. Complete(e, k, v) = [sensor |-> k, window |-> w]
    BY <1>1, <1>3 DEF Complete
  <2> HIDE DEF full
  <2>3. openBar' = [openBar EXCEPT ![k] = Open(full)]
    BY <1>3, OpenChanges
  <2> QED BY <1>1, <1>3, <2>1, <2>2, <2>3
<1> QED BY <1>2, <1>3, RecordIs

LEMMA WindowSteps ==
  ASSUME RespOK, PoolInv, EntriesOK, [Next]_vars
  PROVE  [SensorSpec!Next]_(SensorSpec!vars)
<1>0. /\ SensorSpec!vars = <<openBar, completed>>
      /\ UNCHANGED <<s_hash, entries, completed>> => UNCHANGED SensorSpec!vars
  BY DEF SensorSpec!vars, openBar, Open, SP!Tracked, Pool!Tracked
<1>1. ASSUME ReadRegister PROVE [SensorSpec!Next]_(SensorSpec!vars)
  <2> DEFINE k == Sensor
             v == Reading
             w == Append(openBar[k], v)
  <2>1. k \in SensorKeys /\ v \in Samples /\ AddReading(k, v)
    BY <1>1, RegisterRead
  <2> HIDE DEF k, v
  <2>2. ASSUME SP!NoEntry(k), UNCHANGED <<entries, completed>>
        PROVE  UNCHANGED SensorSpec!vars
    BY <1>0, <2>2 DEF SP!NoEntry, SP!vars
  <2>3. ASSUME IF Len(w) < Window
                 THEN openBar' = [openBar EXCEPT ![k] = w] /\ completed' = None
                 ELSE /\ openBar' = [openBar EXCEPT ![k] = <<>>]
                      /\ completed' = [sensor |-> k, window |-> w]
        PROVE  SensorSpec!Next
    BY <2>1, <2>3
    DEF SensorSpec!Next, SensorSpec!Read, openBar, Open, SP!Tracked, Pool!Tracked
  <2>4. ASSUME SP!Hit(k), s_hash[k] \in 0 .. MaxSensors - 1,
               entries[s_hash[k]] \in Entry, Filled(entries[s_hash[k]]),
               Record(s_hash[k], entries[s_hash[k]], k, v)
        PROVE  SensorSpec!Next
    <3>1. openBar[k] = Open(entries[s_hash[k]])
      BY <2>1, <2>4 DEF openBar, SP!Hit
    <3> QED BY <2>1, <2>3, <2>4, <3>1, RecordReads
  <2>5. ASSUME SP!Alloc(k), s_next \in 0 .. MaxSensors - 1,
               s_hash' = [s_hash EXCEPT ![k] = s_next],
               NewEntry \in Entry, Filled(NewEntry),
               Record(s_next, NewEntry, k, v)
        PROVE  SensorSpec!Next
    <3>1. openBar[k] = Open(NewEntry)
      BY <2>1, <2>5 DEF openBar, SP!Alloc, Open, NewEntry
    <3> QED BY <2>1, <2>3, <2>5, <3>1, RecordReads
  <2> QED BY <2>1, <2>2, <2>4, <2>5, ReadingGoesTo
<1>2. ASSUME ~ReadRegister PROVE UNCHANGED <<s_hash, entries, completed>>
  BY <1>2
  DEF Next, Requests, Answers, Handler, Idle, RecvRequest, RecvResponse,
      RecvShortResponse, RecvUnmatched, RecvIgnored, RegistersDone, Classify,
      DrainDone, vars, sensors
<1> QED BY <1>0, <1>1, <1>2

\* The readings of each tracked sensor are cut into consecutive windows of
\* Window readings, none skipped, none counted twice, none taken from another
\* sensor (sensor_add_reading).
THEOREM ImplementsSensorWindows == Spec => KeepsSensorWindows
<1>1. Init => SensorSpec!Init
  <2> SUFFICES ASSUME Init PROVE SensorSpec!Init
    OBVIOUS
  <2>1. \A k \in SensorKeys : s_hash[k] = -1 /\ ~Pool!Tracked(k)
    BY DEF Init, Pool!Init, Pool!Tracked
  <2> QED BY <2>1 DEF Init, SensorSpec!Init
<1>2. RespOK /\ PoolInv /\ EntriesOK /\ [Next]_vars
        => [SensorSpec!Next]_(SensorSpec!vars)
  BY WindowSteps
<1> QED
  BY <1>1, <1>2, RespHolds, PoolUsed, QueueUsed, PTL
  DEF Spec, KeepsSensorWindows, SensorSpec!Spec

-----------------------------------------------------------------------------
(* Room in the queue.                                                      *)

\* The queue is empty between packets, and in a response it gains at most a
\* vector per register.
QueueRoom == /\ pc = "rx" => q_count = 0
             /\ pc = "regs" => q_count <= i

LEMMA RegisterPushes ==
  ASSUME RespOK, PoolInv, EntriesOK, ReadRegister
  PROVE  UNCHANGED SP!Queue!vars \/ \E x \in Vectors : SP!Queue!Push(x)
<1>1. /\ Sensor \in SensorKeys /\ Reading \in Samples
      /\ AddReading(Sensor, Reading)
  BY RegisterRead
<1>2. ASSUME NEW n, NEW e \in Entry, Filled(e), Record(n, e, Sensor, Reading)
      PROVE  UNCHANGED SP!Queue!vars \/ \E x \in Vectors : SP!Queue!Push(x)
  <2>1. \A w \in Windows, a \in {0, 1} : Vector(w, a) \in Vectors
    BY DEF Vectors
  <2> QED BY <1>1, <1>2, <2>1, RecordIs
<1> QED BY <1>1, <1>2, ReadingGoesTo

LEMMA RoomSteps ==
  ASSUME RespOK, PoolInv, EntriesOK, QueueInv, QueueRoom, [Next]_vars
  PROVE  QueueRoom' /\ (q_dropped' # q_dropped => Len(resp.regs) > QueueSize)
<1>1. /\ i \in Nat /\ q_count \in Nat /\ Len(resp.regs) \in Nat
      /\ QueueSize \in Nat
  BY PartsConstants DEF RespOK, QueueInv, SP!RingInv, SP!Queue!TypeOK
<1>2. ASSUME ReadRegister
      PROVE  QueueRoom' /\ (q_dropped' # q_dropped => Len(resp.regs) > QueueSize)
  <2>1. /\ pc = "regs" /\ pc' = "regs" /\ i < Len(resp.regs) /\ q_count <= i
        /\ i' \in Nat /\ i' >= i + 1
    BY <1>1, <1>2 DEF ReadRegister, QueueRoom
  <2>2. UNCHANGED SP!Queue!vars \/ \E x \in Vectors : SP!Queue!Push(x)
    BY <1>2, RegisterPushes
  <2>3. \/ q_count' = q_count /\ q_dropped' = q_dropped
        \/ q_count' = q_count + 1 /\ q_dropped' = q_dropped
        \/ q_count' = q_count /\ q_count = QueueSize
    BY <2>2 DEF SP!Queue!vars, SP!Queue!Push, SP!Queue!PushStored, SP!Queue!PushDropped
  <2>4. q_count' <= i'
    BY <1>1, <2>1, <2>3
  <2>5. q_dropped' # q_dropped => Len(resp.regs) > QueueSize
    BY <1>1, <2>1, <2>3
  <2> QED BY <2>1, <2>4, <2>5 DEF QueueRoom
<1>3. ASSUME Classify PROVE QueueRoom' /\ q_dropped' = q_dropped
  BY <1>3 DEF Classify, Queue!Pop, QueueRoom
<1>4. ASSUME ~ReadRegister, ~Classify
      PROVE  /\ q_dropped' = q_dropped /\ q_count' = q_count
             /\ \/ pc' = "drain"
                \/ pc = "rx" /\ pc' = "regs" /\ i' = 0
                \/ q_count = 0 /\ pc' = "rx"
                \/ UNCHANGED <<pc, i>>
  BY <1>4
  DEF Next, Requests, Answers, Handler, Idle, RecvRequest, RecvResponse,
      RecvShortResponse, RecvUnmatched, RecvIgnored, RegistersDone,
      DrainDone, Receive, vars, queue
<1>5. ASSUME ~ReadRegister, ~Classify PROVE QueueRoom' /\ q_dropped' = q_dropped
  BY <1>4, <1>5 DEF QueueRoom
<1> QED BY <1>2, <1>3, <1>5

\* A feature vector is lost only in a response with more registers than the
\* queue has places: the worker empties the queue after every packet
\* (worker_loop, drain_features).
THEOREM DropsAreInLongResponses == Spec => DropsOnlyInLongResponse
<1>1. Init => QueueRoom
  BY DEF Init, Queue!Init, QueueRoom
<1>2. RespOK /\ PoolInv /\ EntriesOK /\ QueueInv /\ QueueRoom /\ [Next]_vars
        => /\ QueueRoom'
           /\ [q_dropped' # q_dropped => Len(resp.regs) > QueueSize]_vars
  BY RoomSteps
<1> QED
  BY <1>1, <1>2, RespHolds, PoolUsed, QueueUsed, PTL
  DEF Spec, DropsOnlyInLongResponse

-----------------------------------------------------------------------------
(* The feature contract.                                                   *)

LEMMA ValuesBounded == \A v \in Values : v \in Int /\ -65536 <= v /\ v <= 65536
<1>1. \A v \in RegVals : v \in Nat /\ v < 65536
  BY IcsAssumption
<1>2. \A v \in RegVals : Signed16(v) \in Int /\ -65536 <= Signed16(v)
                                           /\ Signed16(v) <= 65536
  BY <1>1 DEF Signed16
<1> QED BY <1>1, <1>2 DEF Values

Readings(r, S) == {r[j] : j \in S}

\* The sum of the readings of a window lies between as many times its least
\* and its greatest reading.
LEMMA OrderStatistics ==
  ASSUME NEW S, IsFiniteSet(S), NEW r, \A j \in S : r[j] \in Int,
         Readings(r, S) # {},
         \E b, c \in Int : \A j \in S : b <= r[j] /\ r[j] <= c
  PROVE  LET lo == Min(Readings(r, S))
             hi == Max(Readings(r, S))
             sum == SumOver(r, S)
         IN  /\ lo \in Int /\ hi \in Int /\ lo <= hi /\ sum \in Int
             /\ Cardinality(S) * lo <= sum /\ sum <= Cardinality(S) * hi
<1> DEFINE V == Readings(r, S)
           lo == Min(V)
           hi == Max(V)
           sum == SumOver(r, S)
<1>0. PICK b \in Int, c \in Int : \A v \in V : b <= v /\ v <= c
  BY DEF Readings
<1>1. V \in SUBSET Int /\ V # {} /\ \A j \in S : r[j] \in V
  BY DEF Readings
<1> HIDE DEF V
<1>2. lo \in V /\ \A v \in V : lo <= v
  BY <1>0, <1>1, MinIs
<1>3. hi \in V /\ \A v \in V : v <= hi
  BY <1>0, <1>1, MaxIs
<1> HIDE DEF lo, hi
<1>4. lo \in Int /\ hi \in Int /\ lo <= hi
  BY <1>1, <1>2, <1>3
<1>5. \A j \in S : r[j] \in lo .. hi
  <2> SUFFICES ASSUME NEW j \in S PROVE r[j] \in lo .. hi
    OBVIOUS
  <2>1. r[j] \in V /\ r[j] \in Int
    BY <1>1
  <2>2. lo <= r[j] /\ r[j] <= hi
    BY <1>2, <1>3, <2>1
  <2> QED BY <1>4, <2>1, <2>2
<1>6. /\ sum \in Int
      /\ lo * Cardinality(S) <= sum /\ sum <= hi * Cardinality(S)
  BY <1>4, <1>5, SumBounds
<1>7. Cardinality(S) \in Nat
  BY FS_CardinalityType
<1> HIDE DEF sum
<1>8. lo * Cardinality(S) = Cardinality(S) * lo
      /\ hi * Cardinality(S) = Cardinality(S) * hi
  BY <1>4, <1>7
<1> QED BY <1>4, <1>6, <1>8 DEF V, lo, hi, sum

\* Finitely many naturals have a bound.
LEMMA BoundedTimes ==
  ASSUME NEW n \in Nat, NEW f, \A j \in 1 .. n : f[j] \in Nat
  PROVE  \E c \in Nat : \A j \in 1 .. n : f[j] <= c
<1> DEFINE Bounded(m) == \E c \in Nat : \A j \in 1 .. m : f[j] <= c
           T == {m \in Nat : m <= n => Bounded(m)}
<1>1. 0 \in T
  OBVIOUS
<1>2. ASSUME NEW m \in T PROVE m + 1 \in T
  <2> SUFFICES ASSUME m + 1 <= n PROVE Bounded(m + 1)
    OBVIOUS
  <2>1. m \in Nat /\ m + 1 \in 1 .. n
    OBVIOUS
  <2>2. PICK c \in Nat : \A j \in 1 .. m : f[j] <= c
    BY <2>1
  <2>3. /\ c + f[m + 1] \in Nat /\ c <= c + f[m + 1]
        /\ f[m + 1] <= c + f[m + 1]
    BY <2>1
  <2>4. \A j \in 1 .. m + 1 : f[j] <= c + f[m + 1]
    <3>1. \A j \in 1 .. m + 1 : j \in 1 .. n /\ (j \in 1 .. m \/ j = m + 1)
      BY <2>1
    <3>2. \A j \in 1 .. m + 1 : f[j] \in Nat
      BY <3>1
    <3> QED BY <2>2, <2>3, <3>1, <3>2
  <2> QED BY <2>3, <2>4
<1>3. T = Nat
  <2>1. T \subseteq Nat
    OBVIOUS
  <2> HIDE DEF T
  <2> QED BY <1>1, <1>2, <2>1, Inductive
<1>4. n \in T
  BY <1>3
<1> QED BY <1>4

\* Such sums, of the readings and of the times between them, of a window of
\* at least two.
LEMMA WindowStatistics ==
  ASSUME NEW f, NEW m \in Nat, NEW a \in Nat, m >= a, DOMAIN f = a .. m,
         NEW b \in Int, NEW c \in Int,
         \A j \in a .. m : f[j] \in Int /\ b <= f[j] /\ f[j] <= c
  PROVE  /\ Least(f) \in Int /\ Greatest(f) \in Int /\ SumOf(f) \in Int
         /\ b <= Least(f) /\ Least(f) <= Greatest(f) /\ Greatest(f) <= c
         /\ (m - a + 1) * Least(f) <= SumOf(f)
         /\ SumOf(f) <= (m - a + 1) * Greatest(f)
<1> DEFINE S == a .. m
           V == Readings(f, S)
<1>1. IsFiniteSet(S) /\ Cardinality(S) = m - a + 1 /\ a \in S
  BY FS_Interval
<1>2. V = {f[j] : j \in DOMAIN f} /\ SumOf(f) = SumOver(f, S)
  BY DEF Readings, SumOf, SumOver
<1>3. DOMAIN f = S /\ (\A j \in S : f[j] \in Int /\ b <= f[j] /\ f[j] <= c)
  OBVIOUS
<1> HIDE DEF S
<1>4. V # {} /\ V \in SUBSET Int /\ \A v \in V : b <= v /\ v <= c
  BY <1>1, <1>3 DEF Readings
<1>5. \A j \in S : f[j] \in Int
  BY <1>3
<1>6. \E x, y \in Int : \A j \in S : x <= f[j] /\ f[j] <= y
  BY <1>3
<1>7. Least(f) = Min(V) /\ Greatest(f) = Max(V)
  BY <1>2 DEF Least, Greatest
<1>8. /\ Least(f) \in Int /\ Greatest(f) \in Int /\ Least(f) <= Greatest(f)
      /\ SumOver(f, S) \in Int
      /\ Cardinality(S) * Least(f) <= SumOver(f, S)
      /\ SumOver(f, S) <= Cardinality(S) * Greatest(f)
  <2>1. V # {}
    BY <1>4
  <2> HIDE DEF V
  <2> QED BY <1>1, <1>5, <1>6, <1>7, <2>1, OrderStatistics DEF V
<1>9. Least(f) \in V /\ Greatest(f) \in V
  <2>1. \A v \in V : b <= v
    BY <1>4
  <2>2. \A v \in V : v <= c
    BY <1>4
  <2> HIDE DEF V
  <2>3. Min(V) \in V
    BY <1>4, <2>1, MinIs
  <2>4. Max(V) \in V
    BY <1>4, <2>2, MaxIs
  <2> QED BY <1>7, <2>3, <2>4
<1> HIDE DEF V
<1>10. b <= Least(f) /\ Greatest(f) <= c
  BY <1>4, <1>9
<1> QED BY <1>1, <1>2, <1>8, <1>10

\* Two readings are never further apart than an int32_t holds, and time does
\* not run backwards in a window; so a vector satisfies the contract
\* (validate_ics).
LEMMA FeaturesValid ==
  ASSUME NEW r \in [0 .. Window - 1 -> Samples], NEW a \in {0, 1}
  PROVE  ContractHolds(Features(r, Window, a)) /\ Features(r, Window, a).n = 16
<1> DEFINE fv == Features(r, Window, a)
           v == ValuesOf(r, Window)
           dt == Gaps(r, Window)
<1>1. Window \in Nat /\ Window >= 2
  BY WindowFits, IcsAssumption
<1>2. \A j \in 0 .. Window - 1 : r[j].value \in Values /\ r[j].tsc \in Nat
  BY IcsAssumption DEF Samples, Times
<1>3. /\ Least(v) \in Int /\ Greatest(v) \in Int /\ SumOf(v) \in Int
      /\ -65536 <= Least(v) /\ Least(v) <= Greatest(v) /\ Greatest(v) <= 65536
      /\ Window * Least(v) <= SumOf(v) /\ SumOf(v) <= Window * Greatest(v)
  <2>1. DOMAIN v = 0 .. Window - 1
    BY DEF ValuesOf
  <2>2. \A j \in 0 .. Window - 1 : v[j] \in Int /\ -65536 <= v[j] /\ v[j] <= 65536
    BY <1>2, ValuesBounded DEF ValuesOf
  <2> DEFINE m == Window - 1
             b == -65536
             c == 65536
  <2>3. m \in Nat /\ m >= 0 /\ m - 0 + 1 = Window
    BY <1>1
  <2>4. DOMAIN v = 0 .. m /\ \A j \in 0 .. m : v[j] \in Int /\ b <= v[j] /\ v[j] <= c
    BY <2>1, <2>2
  <2>5. 0 \in Nat /\ b \in Int /\ c \in Int
    OBVIOUS
  <2> HIDE DEF v, m, b, c
  <2>6. /\ Least(v) \in Int /\ Greatest(v) \in Int /\ SumOf(v) \in Int
        /\ b <= Least(v) /\ Least(v) <= Greatest(v) /\ Greatest(v) <= c
        /\ (m - 0 + 1) * Least(v) <= SumOf(v)
        /\ SumOf(v) <= (m - 0 + 1) * Greatest(v)
    BY <2>3, <2>4, <2>5, WindowStatistics
  <2> QED BY <2>3, <2>6 DEF b, c
<1>4. /\ Least(dt) \in Int /\ Greatest(dt) \in Int /\ SumOf(dt) \in Int
      /\ 0 <= Least(dt) /\ Least(dt) <= Greatest(dt)
      /\ (Window - 1) * Least(dt) <= SumOf(dt)
      /\ SumOf(dt) <= (Window - 1) * Greatest(dt)
  <2>1. DOMAIN dt = 1 .. Window - 1
    BY DEF Gaps
  <2>2. \A j \in 1 .. Window - 1 : dt[j] \in Nat
    <3>1. \A j \in 1 .. Window - 1 : j \in 0 .. Window - 1 /\ j - 1 \in 0 .. Window - 1
      BY <1>1
    <3> QED BY <1>2, <3>1 DEF Gaps
  <2> DEFINE m == Window - 1
  <2>3. m \in Nat /\ m >= 1 /\ (m - 1) + 1 = Window - 1
    BY <1>1
  <2> HIDE DEF dt
  <2>4. PICK c \in Int : \A j \in 1 .. Window - 1 : dt[j] <= c
    <3>1. \E c \in Nat : \A j \in 1 .. Window - 1 : dt[j] <= c
      BY <2>2, <2>3, BoundedTimes DEF m
    <3> QED BY <3>1
  <2>5. /\ DOMAIN dt = 1 .. m
        /\ \A j \in 1 .. m : dt[j] \in Int /\ 0 <= dt[j] /\ dt[j] <= c
    BY <2>1, <2>2, <2>4
  <2>6. 1 \in Nat /\ 0 \in Int /\ c \in Int
    OBVIOUS
  <2> HIDE DEF m
  <2>7. /\ Least(dt) \in Int /\ Greatest(dt) \in Int /\ SumOf(dt) \in Int
        /\ 0 <= Least(dt) /\ Least(dt) <= Greatest(dt) /\ Greatest(dt) <= c
        /\ ((m - 1) + 1) * Least(dt) <= SumOf(dt)
        /\ SumOf(dt) <= ((m - 1) + 1) * Greatest(dt)
    BY <2>3, <2>5, <2>6, WindowStatistics
  <2> QED BY <2>3, <2>7
<1>5. /\ fv.n = 16 /\ fv.min = Least(v) /\ fv.max = Greatest(v)
      /\ fv.sum = SumOf(v) /\ fv.of = Window
      /\ fv.range = Int32(Greatest(v) - Least(v))
      /\ fv.iat_min = Least(dt) /\ fv.iat_max = Greatest(dt)
      /\ fv.iat_sum = SumOf(dt) /\ fv.iat_of = Window - 1 /\ fv.alert = a
  BY DEF Features
<1> HIDE DEF fv, v, dt
<1>6. Int32(Greatest(v) - Least(v)) = Greatest(v) - Least(v)
  <2>1. ~(Greatest(v) - Least(v) > 2147483647)
    BY <1>3
  <2> QED BY <2>1 DEF Int32, IntMax
<1>7. \A d \in {fv.range - (fv.max - fv.min), (fv.max - fv.min) - fv.range} : d = 0
  BY <1>3, <1>5, <1>6
<1>8. /\ Max({1, fv.max - fv.min, -(fv.max - fv.min)}) \in Int
      /\ Max({1, fv.max - fv.min, -(fv.max - fv.min)}) >= 1
  <2> DEFINE w == fv.max - fv.min
             M == {1, w, -w}
  <2>1. w \in Int
    BY <1>3, <1>5
  <2> HIDE DEF w
  <2>2. M \in SUBSET Int /\ M # {}
    BY <2>1
  <2>3. \E h \in Int : \A x \in M : x <= h
    <3>1. CASE w >= 0
      <4>1. w + 1 \in Int /\ \A x \in M : x <= w + 1
        BY <2>1, <3>1
      <4> QED BY <4>1
    <3>2. CASE ~(w >= 0)
      <4>1. 1 - w \in Int /\ \A x \in M : x <= 1 - w
        BY <2>1, <3>2
      <4> QED BY <4>1
    <3> QED BY <3>1, <3>2
  <2>4. Max(M) \in M /\ \A x \in M : x <= Max(M)
    BY <2>2, <2>3, MaxIs
  <2> QED BY <2>2, <2>4 DEF w
<1>9. 0 <= SumOf(dt)
  BY <1>1, <1>4
<1>10. /\ fv.n = 16 /\ fv.of # 0 /\ fv.iat_of # 0 /\ fv.alert \in {0, 1}
       /\ fv.iat_min >= 0 /\ fv.iat_max >= 0 /\ fv.iat_sum >= 0
       /\ fv.range >= 0
  BY <1>1, <1>3, <1>4, <1>5, <1>6, <1>9
<1>11. /\ fv.of * fv.min <= fv.sum /\ fv.sum <= fv.of * fv.max
       /\ fv.iat_of * fv.iat_min <= fv.iat_sum
       /\ fv.iat_sum <= fv.iat_of * fv.iat_max
  BY <1>3, <1>4, <1>5
<1> DEFINE w == fv.max - fv.min
<1>12. \A d \in {fv.range - w, w - fv.range} : 1000 * d <= Max({1, w, -w})
  <2>1. Max({1, w, -w}) \in Int
    BY <1>8
  <2>2. Max({1, w, -w}) >= 1 /\ \A d \in {fv.range - w, w - fv.range} : d = 0
    BY <1>7, <1>8
  <2> HIDE DEF w
  <2> QED BY <2>1, <2>2
<1>13. ContractHolds(fv)
  <2> HIDE DEF fv
  <2> QED BY <1>10, <1>11, <1>12 DEF ContractHolds, w
<1> QED BY <1>10, <1>13 DEF fv

LEMMA VectorsValid == \A x \in Vectors : ContractHolds(x.fv) /\ x.fv.n = 16
<1> SUFFICES ASSUME NEW w \in Windows, NEW a \in {0, 1}
             PROVE  ContractHolds(Vector(w, a).fv) /\ Vector(w, a).fv.n = 16
  BY DEF Vectors
<1> DEFINE r == [j \in 0 .. Window - 1 |-> w.window[j + 1]]
<1>1. r \in [0 .. Window - 1 -> Samples]
  <2>1. w.window \in [1 .. Window -> Samples] /\ Window \in Nat
    BY WindowFits, IcsAssumption DEF Windows
  <2>2. \A j \in 0 .. Window - 1 : j + 1 \in 1 .. Window
    BY <2>1
  <2> QED BY <2>1, <2>2
<1>2. Vector(w, a).fv = Features(r, Window, a)
  BY DEF Vector
<1> HIDE DEF r
<1> QED BY <1>1, <1>2, FeaturesValid

\* No vector of this profile is counted invalid, whatever the registers hold
\* and whenever they come, neither by the feature contract nor for its length
\* (validate_ics, model_prepare_input against compute_sensor_features), if the
\* model takes the profile's features, or more and padding is on.
THEOREM ContractRejectsNone == Spec => []ContractNeverRejects
<1> DEFINE Takes == InputDim = 16 \/ (AllowPad /\ InputDim > 16)
<1>1. Init => ContractNeverRejects
  BY DEF Init, ContractNeverRejects
<1>2. QueueInv /\ ContractNeverRejects /\ [Next]_vars => ContractNeverRejects'
  <2> SUFFICES ASSUME QueueInv, ContractNeverRejects, [Next]_vars, Takes
               PROVE  invalid' = 0
    BY DEF ContractNeverRejects
  <2>1. invalid = 0
    BY DEF ContractNeverRejects
  <2>2. ASSUME Classify PROVE invalid' = 0
    <3>1. q_count # 0
      BY <2>2 DEF Classify, Queue!Pop
    <3>2. q_items[q_head] \in Vectors
      BY <3>1, PartsConstants, SP!OldestIsVector DEF QueueInv
    <3> DEFINE fv == q_items[q_head].fv
    <3>3. ContractHolds(fv) /\ fv.n = 16
      BY <3>2, VectorsValid
    <3> HIDE DEF fv
    <3>4. ModelTakes(fv)
      BY <3>3, IcsAssumption DEF ModelTakes
    <3> QED BY <2>1, <2>2, <3>3, <3>4 DEF Classify, fv
  <2>3. ASSUME ~Classify PROVE invalid' = invalid
    BY <2>3
    DEF Next, Requests, Answers, Handler, Idle, RecvRequest, RecvResponse,
        RecvShortResponse, RecvUnmatched, RecvIgnored, ReadRegister,
        RegistersDone, DrainDone, vars
  <2> QED BY <2>1, <2>2, <2>3
<1> QED BY <1>1, <1>2, QueueUsed, PTL DEF Spec
=============================================================================
