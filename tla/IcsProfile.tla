----------------------------- MODULE IcsProfile -----------------------------
(***************************************************************************)
(* The ICS profile of one worker (src/src/features_ics.c) with everything  *)
(* it calls: the request tracker, the pool of sensors and the feature      *)
(* queue, and the worker's per-packet sequence process_packet,             *)
(* drain_features (src/src/worker.c).                                      *)
(*                                                                         *)
(* Around it stand the Modbus clients and servers.  A packet of theirs may *)
(* be a request or a response; responses come late, twice, malformed, as   *)
(* exceptions or never; identifiers are reused; the NIC may refuse to send *)
(* on what the worker has already processed.                               *)
(*                                                                         *)
(* process_packet of a response is a loop over registers.  Each iteration  *)
(* is a step, and nothing else of the worker runs until the loop and the   *)
(* drain that follows are over (pc).                                       *)
(***************************************************************************)
EXTENDS Integers, Sequences, FiniteSets, FiniteSetsExt

CONSTANTS Tids,         \* transaction ids
          Units,        \* unit ids
          Addrs,        \* start addresses of the requests
          AddrSpace,    \* register addresses wrap here: 65536
          RegVals,      \* contents of a register, 0 .. 65535
          MaxRegs,      \* most registers in a response, 127
          CfgWindow,    \* --ics-window
          MaxWindow,    \* ICS_MAX_WINDOW, the length of readings[]
          MaxPending,   \* capacity of the tracker
          MaxSensors,   \* max_sensors_per_worker
          QueueSize,    \* APP_FEATURE_QUEUE_SIZE
          InputDim,     \* features the model takes
          AllowPad,     \* --allow-feature-pad
          MaxPackets,   \* bound: packets received in a run
          Clock,        \* the TSC, read once per packet
          None          \* no request, no vector, no window

ASSUME IcsAssumption ==
    /\ AddrSpace \in Nat \ {0} /\ Addrs \subseteq 0 .. AddrSpace - 1
    /\ None \notin Addrs
    /\ \A v \in RegVals : v \in Nat /\ v < 65536
    /\ MaxRegs \in Nat /\ CfgWindow \in Nat /\ MaxPackets \in Nat
    /\ MaxWindow \in Nat \ {0, 1}
    /\ MaxPending \in Nat \ {0} /\ MaxSensors \in Nat \ {0}
    /\ QueueSize \in Nat \ {0}
    /\ Clock \in [1 .. MaxPackets -> Nat]
    /\ InputDim \in Nat /\ AllowPad \in BOOLEAN

VARIABLES
    pc,            \* where the worker is: "rx", "regs" or "drain"
    resp,          \* the response being read: unit, start, regs, now
    i,             \* the loop index over its registers
    asked,         \* requests that reached their server, response possible
    confused,      \* an identifier was reused while its response was possible
    t_hash, t_pool, t_stack, t_top, t_reply,      \* s->tracker
    s_hash, s_next,                               \* s->sensors
    entries,                                      \* the sensor entries
    q_items, q_head, q_tail, q_count, q_dropped,  \* s->q
    completed,     \* the window the last reading completed, or None
    invalid,       \* invalid_features
    packets        \* packets received so far

tracker == <<t_hash, t_pool, t_stack, t_top, t_reply>>
sensors == <<s_hash, s_next, entries>>
queue == <<q_items, q_head, q_tail, q_count, q_dropped>>
network == <<asked, confused, packets>>
vars == <<pc, resp, i, asked, confused, tracker, sensors, queue,
          completed, invalid, packets>>

-----------------------------------------------------------------------------
ReqKeys == Tids \X Units                    \* struct modbus_req_key
SensorKeys == Units \X (0 .. AddrSpace - 1) \* struct sensor_key

\* A 16-bit register read as int16_t.
Signed16(v) == IF v >= 32768 THEN v - 65536 ELSE v

\* A reading is a register, signed, or the low half of a pair, unsigned.
Values == {Signed16(v) : v \in RegVals} \cup RegVals

\* It is stored with the time of its packet: readings[j], timestamps[j].
Times == {Clock[p] : p \in 1 .. MaxPackets}
Samples == [value : Values, tsc : Times]

\* Wrong: the window is not limited to the array.
WindowUnlimited == LET w == IF CfgWindow = 0 THEN 32 ELSE CfgWindow IN Max({2, w})

\* s->window
Window == LET w == IF CfgWindow = 0 THEN 32 ELSE CfgWindow
          IN  Max({2, Min({w, MaxWindow})})

\* An int32_t result, which wraps where it does not fit.
IntMax == 2147483647
Int32(x) == IF x > IntMax THEN x - 2 * IntMax - 2 ELSE x

Least(f) == Min({f[j] : j \in DOMAIN f})
Greatest(f) == Max({f[j] : j \in DOMAIN f})
SumOf(f) == MapThenSumSet(LAMBDA j : f[j], DOMAIN f)

\* The readings of a window, and the times between them, zero where the clock
\* went back.
ValuesOf(r, n) == [j \in 0 .. n - 1 |-> r[j].value]
Gaps(r, n) == [j \in 1 .. n - 1 |->
                  LET dt == r[j].tsc - r[j - 1].tsc IN IF dt >= 0 THEN dt ELSE 0]

\* Wrong: the mean interval is taken over the readings, not the intervals.
FeaturesOverReadings(r, n, a) ==
    LET v == ValuesOf(r, n)
        dt == Gaps(r, n)
    IN  [n |-> 16, min |-> Least(v), max |-> Greatest(v),
         sum |-> SumOf(v), of |-> n, range |-> Int32(Greatest(v) - Least(v)),
         iat_min |-> Least(dt), iat_max |-> Greatest(dt),
         iat_sum |-> SumOf(dt), iat_of |-> n, alert |-> a]

\* compute_sensor_features, of the n readings of a window: the features the
\* contract reads, times in ticks, a mean as its sum and what it is divided
\* by.  a is what the CUSUM statistics make of the alert.
Features(r, n, a) ==
    LET v == ValuesOf(r, n)
        dt == Gaps(r, n)
    IN  [n |-> 16, min |-> Least(v), max |-> Greatest(v),
         sum |-> SumOf(v), of |-> n, range |-> Int32(Greatest(v) - Least(v)),
         iat_min |-> Least(dt), iat_max |-> Greatest(dt),
         iat_sum |-> SumOf(dt), iat_of |-> n - 1, alert |-> a]

\* validate_ics on the same numbers: a mean is finite unless it is divided by
\* zero, and the conversions to microseconds and to float keep the order.
ContractHolds(fv) ==
    LET width == fv.max - fv.min
    IN  /\ fv.n = 16
        /\ fv.of # 0
        /\ fv.of * fv.min <= fv.sum /\ fv.sum <= fv.of * fv.max
        /\ fv.iat_min >= 0 /\ fv.iat_max >= 0 /\ fv.iat_sum >= 0
        /\ fv.iat_of # 0
        /\ fv.iat_of * fv.iat_min <= fv.iat_sum
        /\ fv.iat_sum <= fv.iat_of * fv.iat_max
        /\ fv.range >= 0
        /\ \A d \in {fv.range - width, width - fv.range} :
              1000 * d <= Max({1, width, -width})
        /\ fv.alert \in {0, 1}

\* model_prepare_input
ModelTakes(fv) == fv.n = InputDim \/ (AllowPad /\ fv.n < InputDim)

NewEntry == [readings |-> [j \in 0 .. MaxWindow - 1 |-> [value |-> 0, tsc |-> 0]],
             write_index |-> 0, sample_count |-> 0]

Windows == [sensor : SensorKeys, window : [1 .. Window -> Samples]]

Tracker == INSTANCE ModbusTracker WITH
    Keys <- ReqKeys, Requests <- Addrs, NoRequest <- None,
    Capacity <- MaxPending, hash <- t_hash, pool <- t_pool,
    free_stack <- t_stack, free_top <- t_top, reply <- t_reply

Pool == INSTANCE FlowPool WITH
    Keys <- SensorKeys, Capacity <- MaxSensors,
    hash <- s_hash, next_free <- s_next

\* The vector of a complete window, with the alert a.
Vector(w, a) ==
    [sensor |-> w.sensor,
     fv |-> Features([j \in 0 .. Window - 1 |-> w.window[j + 1]], Window, a)]

Vectors == {Vector(w, a) : w \in Windows, a \in {0, 1}}

Queue == INSTANCE FeatureQueue WITH
    Items <- Vectors, NoItem <- None, Size <- QueueSize,
    items <- q_items, head <- q_head, tail <- q_tail,
    count <- q_count, dropped <- q_dropped

NoResponse == [unit |-> None, start |-> 0, regs |-> <<>>, now |-> 0,
               genuine |-> None]

Init ==
    /\ Tracker!Init
    /\ Pool!Init
    /\ entries = [e \in 0 .. MaxSensors - 1 |-> NewEntry]
    /\ Queue!Init
    /\ pc = "rx" /\ resp = NoResponse /\ i = 0
    /\ asked = {} /\ confused = FALSE /\ packets = 0
    /\ completed = None /\ invalid = 0

-----------------------------------------------------------------------------
(* ics_process_packet: one action per kind of packet *)

Receive == pc = "rx" /\ packets < MaxPackets /\ packets' = packets + 1

\* A read request.  It is sent on (sent) unless the TX queue is full.
RecvRequest(k, a, sent) ==
    /\ Receive
    /\ Tracker!Add(k, a)
    /\ confused' = (confused \/ \E q \in asked : q.key = k /\ q.start # a)
    /\ asked' = IF sent THEN asked \cup {[key |-> k, start |-> a]} ELSE asked
    /\ pc' = "drain"
    /\ UNCHANGED <<resp, i, sensors, queue, completed, invalid>>

\* A read response that matches a pending request and whose byte count fits
\* the packet: its registers are read next.
RecvResponse(q, data, again) ==
    /\ Receive
    /\ Tracker!TakeFound(q.key)
    /\ resp' = [unit |-> q.key[2], start |-> t_reply'.req, regs |-> data,
                now |-> Clock[packets'], genuine |-> q.start]
    /\ i' = 0
    /\ pc' = "regs"
    /\ asked' = IF again THEN asked ELSE asked \ {q}
    /\ UNCHANGED <<confused, sensors, queue, completed, invalid>>

\* A read response whose byte count exceeds the packet: the pending request
\* is taken before the length is looked at.
RecvShortResponse(q, again) ==
    /\ Receive
    /\ Tracker!TakeFound(q.key)
    /\ pc' = "drain"
    /\ asked' = IF again THEN asked ELSE asked \ {q}
    /\ UNCHANGED <<resp, i, confused, sensors, queue, completed, invalid>>

\* A read response nothing is pending for.
RecvUnmatched(q, again) ==
    /\ Receive
    /\ Tracker!TakeMissing(q.key)
    /\ pc' = "drain"
    /\ asked' = IF again THEN asked ELSE asked \ {q}
    /\ UNCHANGED <<resp, i, confused, sensors, queue, completed, invalid>>

\* An exception response, or one with another function code, is ignored
\* before the tracker is asked: the request stays pending.
RecvIgnored(q) ==
    /\ Receive
    /\ pc' = "drain"
    /\ asked' = asked \ {q}
    /\ UNCHANGED <<resp, i, confused, tracker, sensors, queue, completed,
                   invalid>>

-----------------------------------------------------------------------------
(* One iteration of the register loop *)

\* Register i is zero, the next one is not: the two are one 32-bit value.
Paired == /\ i + 1 < Len(resp.regs)
          /\ resp.regs[i + 1] = 0
          /\ resp.regs[i + 2] # 0

Sensor == <<resp.unit, (resp.start + i) % AddrSpace>>

Reading == [value |-> IF Paired THEN resp.regs[i + 2]
                                ELSE Signed16(resp.regs[i + 1]),
            tsc |-> resp.now]

\* Wrong: a complete window does not reset sample_count.
RecordKeepsCount(n, e, k, v) ==
    LET r == [e.readings EXCEPT ![e.write_index] = v]
        full == e.sample_count + 1 >= Window
        done == [sensor |-> k, window |-> [j \in 1 .. Window |-> r[j - 1]]]
    IN  /\ entries' = [entries EXCEPT ![n] =
              [readings |-> r, sample_count |-> e.sample_count + 1,
               write_index |-> IF full THEN 0 ELSE e.write_index + 1]]
        /\ IF full
             THEN /\ \E a \in {0, 1} : Queue!Push(Vector(done, a))
                  /\ completed' = done
             ELSE completed' = None /\ UNCHANGED queue

\* sensor_add_reading into entry number n, e being its content.  The
\* statistics kept across windows decide the alert, either way.
Record(n, e, k, v) ==
    LET r == [e.readings EXCEPT ![e.write_index] = v]
        full == e.sample_count + 1 >= Window
        done == [sensor |-> k, window |-> [j \in 1 .. Window |-> r[j - 1]]]
    IN  /\ entries' = [entries EXCEPT ![n] =
              IF full THEN [readings |-> r, write_index |-> 0, sample_count |-> 0]
                      ELSE [readings |-> r, write_index |-> e.write_index + 1,
                            sample_count |-> e.sample_count + 1]]
        /\ IF full
             THEN /\ \E a \in {0, 1} : Queue!Push(Vector(done, a))
                  /\ completed' = done
             ELSE completed' = None /\ UNCHANGED queue

\* sensor_add_reading
AddReading(k, v) ==
    \/ /\ Pool!Hit(k)
       /\ Record(s_hash[k], entries[s_hash[k]], k, v)
    \/ /\ Pool!Alloc(k)
       /\ Record(s_hash'[k], NewEntry, k, v)
    \/ /\ Pool!NoEntry(k)
       /\ UNCHANGED <<entries, queue, completed>>

ReadRegister ==
    /\ pc = "regs"
    /\ i < Len(resp.regs)
    /\ AddReading(Sensor, Reading)
    /\ i' = IF Paired THEN i + 2 ELSE i + 1
    /\ UNCHANGED <<pc, resp, network, tracker, invalid>>

RegistersDone ==
    /\ pc = "regs"
    /\ i >= Len(resp.regs)
    /\ pc' = "drain"
    /\ UNCHANGED <<resp, i, network, tracker, sensors, queue, completed,
                   invalid>>

-----------------------------------------------------------------------------
(* drain_features, once per packet *)

\* classify_feature: a vector the contract rejects or the model cannot take
\* is counted; any other one goes to the model.
Classify ==
    /\ pc = "drain"
    /\ Queue!Pop
    /\ LET fv == q_items[q_head].fv
       IN  invalid' = IF ContractHolds(fv) /\ ModelTakes(fv) THEN invalid ELSE invalid + 1
    /\ UNCHANGED <<pc, resp, i, network, tracker, sensors, completed>>

\* Wrong: one vector is drained per packet.
DrainOnce ==
    /\ pc = "drain"
    /\ pc' = "rx"
    /\ resp' = NoResponse /\ i' = 0
    /\ UNCHANGED <<network, tracker, sensors, queue, completed, invalid>>

DrainDone ==
    /\ pc = "drain"
    /\ q_count = 0
    /\ pc' = "rx"
    /\ resp' = NoResponse /\ i' = 0
    /\ UNCHANGED <<network, tracker, sensors, queue, completed, invalid>>

-----------------------------------------------------------------------------
Responses == UNION {[1 .. n -> RegVals] : n \in 0 .. MaxRegs}

Requests == \E k \in ReqKeys, a \in Addrs, sent \in BOOLEAN : RecvRequest(k, a, sent)

Answers ==
    \E q \in asked :
       \/ RecvIgnored(q)
       \/ \E again \in BOOLEAN :
             \/ \E data \in Responses : RecvResponse(q, data, again)
             \/ RecvShortResponse(q, again)
             \/ RecvUnmatched(q, again)

\* rte_eth_rx_burst returns nothing.
Idle == pc = "rx" /\ UNCHANGED vars

Handler == ReadRegister \/ RegistersDone \/ Classify \/ DrainDone

Next == Requests \/ Answers \/ Handler \/ Idle

\* The worker runs on a core of its own: it never stops inside a packet.
Spec == Init /\ [][Next]_vars /\ WF_vars(Handler)

-----------------------------------------------------------------------------
(* Type invariant.  In particular write_index never reaches the end of     *)
(* readings[], whatever window the command line asks for.                  *)
TypeOK ==
    /\ pc \in {"rx", "regs", "drain"}
    /\ Tracker!TypeOK /\ Pool!TypeOK /\ Queue!TypeOK
    /\ entries \in [0 .. MaxSensors - 1 ->
                      [readings : [0 .. MaxWindow - 1 ->
                                    [value : Values \cup {0}, tsc : Times \cup {0}]],
                       write_index : 0 .. MaxWindow - 1,
                       sample_count : 0 .. Window - 1]]

(***************************************************************************)
(* Safety: registers are read under the start address of the very request  *)
(* the response answers, however late, repeated or malformed the responses *)
(* are and whatever was lost, unless an identifier was reused for another  *)
(* address while its earlier response could still come (the key of         *)
(* modbus_tracker_take leaves out the connection).                         *)
(***************************************************************************)
AttributionRight ==
    pc = "regs" /\ ~confused => resp.start = resp.genuine

(***************************************************************************)
(* Refinement: whatever happens around it, each tracked sensor's readings  *)
(* are cut into consecutive windows of Window readings, none skipped, none *)
(* counted twice, none taken from another sensor (sensor_add_reading).     *)
(***************************************************************************)
SensorSpec == INSTANCE SensorWindows WITH
    Sensors <- SensorKeys, Values <- Samples, NoWindow <- None,
    complete <- completed,
    open <- [k \in SensorKeys |->
               IF Pool!Tracked(k)
                 THEN LET e == entries[s_hash[k]]
                      IN  [j \in 1 .. e.sample_count |-> e.readings[j - 1]]
                 ELSE <<>>]

KeepsSensorWindows == SensorSpec!Spec

(***************************************************************************)
(* Refinement: the feature queue is a bounded first-in first-out buffer    *)
(* (feature_queue_push, feature_queue_pop).                                *)
(***************************************************************************)
QueueSpec == INSTANCE BoundedFifo WITH
    Items <- Vectors, Size <- QueueSize, buffer <- Queue!Content, lost <- q_dropped

QueueIsFifo == QueueSpec!Spec

(***************************************************************************)
(* Action property: a feature vector is lost only while a response with    *)
(* more registers than the queue has places is being read: the worker      *)
(* empties the queue after every packet (worker_loop, drain_features).     *)
(***************************************************************************)
DropsOnlyInLongResponse ==
    [][q_dropped' # q_dropped => Len(resp.regs) > QueueSize]_vars

(***************************************************************************)
(* Safety: no vector of this profile is counted invalid, neither by the    *)
(* feature contract nor for its length (validate_ics, model_prepare_input  *)
(* against compute_sensor_features), unless the model takes fewer features *)
(* than the profile has, or more and padding is off.  The start-up check   *)
(* (main.c:96) lets the former through if padding is on.                   *)
(***************************************************************************)
ContractNeverRejects == InputDim = 16 \/ (AllowPad /\ InputDim > 16) => invalid = 0

(***************************************************************************)
(* Liveness: the worker comes back for the next packet (the register loop  *)
(* and the drain loop end).                                                *)
(***************************************************************************)
HandlerReturns == (pc # "rx") ~> (pc = "rx")
=============================================================================
