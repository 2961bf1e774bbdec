----------------------------- MODULE BenchModbus -----------------------------
(***************************************************************************)
(* The Modbus benchmark (src/offline_bench_pkt_process/bench_modbus.c):    *)
(* what it keeps where the classifier has a tracker with a free list, and  *)
(* the state of a sensor from window to window.  Pending requests stand in *)
(* a ring whose oldest place is overwritten, valid or not: several places  *)
(* may hold one identifier.  A sensor keeps its EWMA, its mean and its     *)
(* sample count.                                                           *)
(*                                                                         *)
(* One worker and any number of clients, each of which numbers its         *)
(* requests as it likes; requests and responses may be lost, late,         *)
(* repeated, truncated or exceptions.                                      *)
(***************************************************************************)
EXTENDS Integers, Sequences, FiniteSets, SequencesExt

CONSTANTS Tids,         \* transaction ids
          Units, Addrs, \* unit ids and start addresses of the requests
          AddrSpace,    \* register addresses wrap here: 65536
          RegVals,      \* contents of a register, 0 .. 65535
          MaxRegs,      \* most registers in a response, 127
          PendingCap,   \* MB_PENDING_CAP
          WindowSize,   \* MB_WINDOW_SIZE
          MaxSensors,   \* MB_MAX_SENSORS
          MaxReadings,  \* bound: readings taken in a run
          None          \* no request, no vector

Words == 0 .. 65535

ASSUME BenchModbusAssumption ==
    /\ PendingCap \in Nat \ {0}
    /\ WindowSize \in Nat \ {0} /\ MaxSensors \in Nat \ {0}
    /\ AddrSpace \in Nat \ {0} /\ Addrs \subseteq 0 .. AddrSpace - 1
    /\ RegVals \subseteq Words /\ MaxRegs \in Nat /\ MaxReadings \in Nat

VARIABLES
    asked,                \* requests that reached their server, response possible
    confused,             \* an identifier was reused too early, see RecvRequest
    recent,               \* the last PendingCap requests, the newest at 1; valid
                          \* while unanswered; read by confused only
    pending, pending_wr,  \* the ring
    resp, r,              \* the response being read, and the loop index
    s_hash, s_next,       \* s->table, s->next_free
    entries,              \* s->pool
    feature_sink,         \* the last vector
    history,              \* sensor -> its readings; read by properties only
    readings              \* s->readings

network == <<asked, confused, recent>>
ring == <<pending, pending_wr>>
sensors == <<s_hash, s_next, entries, feature_sink, history, readings>>
mb_vars == <<network, ring, resp, r, sensors>>

ReqKeys == Tids \X Units
SensorKeys == Units \X (0 .. AddrSpace - 1)

Signed16(v) == IF v >= 32768 THEN v - 65536 ELSE v

Sum(s) == FoldLeft(LAMBDA x, y : x + y, 0, s)

NoPending == [key |-> None, start |-> 0, valid |-> FALSE]

\* A mean is kept as numerator and denominator, an EWMA as the readings it was
\* computed from.
NewEntry(v) == [readings |-> [j \in 0 .. WindowSize - 1 |-> 0],
                sample_count |-> 0, write_index |-> 0,
                ewma |-> <<v>>, mean |-> <<v, 1>>, total_samples |-> 0]

Pool == INSTANCE FlowPool WITH
    Keys <- SensorKeys, Capacity <- MaxSensors,
    hash <- s_hash, next_free <- s_next

MbInit ==
    /\ asked = {} /\ confused = FALSE /\ readings = 0
    /\ recent = [d \in 1 .. PendingCap |-> NoPending]
    /\ pending = [j \in 0 .. PendingCap - 1 |-> NoPending] /\ pending_wr = 0
    /\ resp = None /\ r = 0
    /\ Pool!Init
    /\ entries = [n \in 0 .. MaxSensors - 1 |-> NewEntry(0)]
    /\ feature_sink = None
    /\ history = [k \in SensorKeys |-> <<>>]

-----------------------------------------------------------------------------
(* The ring *)

add_pending(k, a) ==
    /\ pending' = [pending EXCEPT ![pending_wr] = [key |-> k, start |-> a, valid |-> TRUE]]
    /\ pending_wr' = (pending_wr + 1) % PendingCap

Matches(k) == {j \in 0 .. PendingCap - 1 : pending[j].valid /\ pending[j].key = k}

\* Wrong: a place stays valid when it was read.
find_pendingKeepsValid(k, j) ==
    /\ j \in Matches(k) /\ \A x \in Matches(k) : j <= x
    /\ UNCHANGED <<pending, pending_wr>>

\* find_pending: the first match is returned and no longer valid.
find_pending(k, j) ==
    /\ j \in Matches(k) /\ \A x \in Matches(k) : j <= x
    /\ pending' = [pending EXCEPT ![j].valid = FALSE]
    /\ UNCHANGED pending_wr

-----------------------------------------------------------------------------
(* mb_proc_burst: one action per kind of packet *)

Receive == resp = None

Unanswered(k) == {d \in 1 .. PendingCap : recent[d].valid /\ recent[d].key = k}

\* A read request, which may be lost behind the worker.  An identifier is
\* reused too early while an earlier request with it, for another address, may
\* still get a response, or is unanswered and one of the last PendingCap: it
\* was lost, or answered by an exception.
RecvRequest(k, a, sent) ==
    /\ Receive
    /\ add_pending(k, a)
    /\ recent' = [d \in 1 .. PendingCap |->
                     IF d = 1 THEN [key |-> k, start |-> a, valid |-> TRUE]
                     ELSE recent[d - 1]]
    /\ confused' = \/ confused
                   \/ \E q \in asked : q.key = k /\ q.start # a
                   \/ \E d \in Unanswered(k) : recent[d].start # a
    /\ asked' = IF sent THEN asked \cup {[key |-> k, start |-> a]} ELSE asked
    /\ UNCHANGED <<resp, r, sensors>>

\* A response answers the oldest request with its identifier.
Answered(q, again) ==
    /\ asked' = IF again THEN asked ELSE asked \ {q}
    /\ \/ Unanswered(q.key) = {} /\ UNCHANGED recent
       \/ \E d \in Unanswered(q.key) :
             /\ \A x \in Unanswered(q.key) : x <= d
             /\ recent' = [recent EXCEPT ![d].valid = FALSE]
    /\ UNCHANGED confused

\* A response is read as far as both its byte count and the packet go.
RecvResponse(q, regs, again) ==
    /\ Receive
    /\ readings + Len(regs) <= MaxReadings
    /\ Answered(q, again)
    /\ \E j \in DOMAIN pending :
          /\ find_pending(q.key, j)
          /\ resp' = [unit |-> q.key[2], start |-> pending[j].start,
                      regs |-> regs, genuine |-> q.start]
    /\ r' = 0
    /\ UNCHANGED sensors

RecvUnmatched(q, again) ==
    /\ Receive
    /\ Answered(q, again)
    /\ Matches(q.key) = {}
    /\ UNCHANGED <<ring, resp, r, sensors>>

\* An exception, or another function code: the place stays valid.
RecvIgnored(q) ==
    /\ Receive
    /\ asked' = asked \ {q}
    /\ UNCHANGED <<confused, recent, ring, resp, r, sensors>>

-----------------------------------------------------------------------------
(* The loop over the registers of a response *)

\* The heuristic for 32-bit values.
Paired == /\ r + 1 < Len(resp.regs)
          /\ resp.regs[r + 1] = 0
          /\ resp.regs[r + 2] # 0

sensor_val == IF Paired THEN resp.regs[r + 2] ELSE Signed16(resp.regs[r + 1])

key == <<resp.unit, (resp.start + r) % AddrSpace>>

\* Wrong: the sample count is raised before the mean is weighted with it.
compute_featuresCountsFirst(e, window) ==
    LET n == e.total_samples + WindowSize
    IN  [ewma |-> window, ewma_before |-> e.ewma, total_samples |-> n,
         mean |-> <<e.mean[1] * n + Sum(window) * e.mean[2],
                    e.mean[2] * (n + WindowSize)>>]

\* compute_features, its state across windows: dev compares the two EWMAs,
\* CUSUM runs against the mean.
compute_features(e, window) ==
    LET n == e.total_samples
    IN  [ewma |-> window, ewma_before |-> e.ewma, total_samples |-> n + WindowSize,
         mean |-> IF n = 0 THEN <<Sum(window), WindowSize>>
                  ELSE <<e.mean[1] * n + Sum(window) * e.mean[2],
                         e.mean[2] * (n + WindowSize)>>]

\* The entry numbered n, holding e, takes reading v of sensor k.
Record(n, e, k, v) ==
    LET taken == [e.readings EXCEPT ![e.write_index] = v]
        f == compute_features(e, [j \in 1 .. WindowSize |-> taken[j - 1]])
        h == Append(history[k], v)
    IN  /\ history' = [history EXCEPT ![k] = h] /\ readings' = readings + 1
        /\ IF e.sample_count + 1 = WindowSize
           THEN /\ entries' = [entries EXCEPT ![n] =
                      [readings |-> taken, sample_count |-> 0, write_index |-> 0,
                       ewma |-> f.ewma, mean |-> f.mean,
                       total_samples |-> f.total_samples]]
                /\ feature_sink' = [fv |-> f, of |-> h]
           ELSE /\ entries' = [entries EXCEPT ![n] =
                      [e EXCEPT !.readings = taken, !.sample_count = @ + 1,
                                !.write_index = @ + 1]]
                /\ UNCHANGED feature_sink

handle_reading(k, v) ==
    \/ Pool!Hit(k) /\ Record(s_hash[k], entries[s_hash[k]], k, v)
    \/ Pool!Alloc(k) /\ Record(s_hash'[k], NewEntry(v), k, v)
    \/ Pool!NoEntry(k) /\ UNCHANGED <<entries, feature_sink, history, readings>>

ReadRegister ==
    /\ resp # None
    /\ r < Len(resp.regs)
    /\ handle_reading(key, sensor_val)
    /\ r' = IF Paired THEN r + 2 ELSE r + 1
    /\ UNCHANGED <<network, ring, resp>>

ResponseDone ==
    /\ resp # None
    /\ r >= Len(resp.regs)
    /\ resp' = None /\ r' = 0
    /\ UNCHANGED <<network, ring, sensors>>

-----------------------------------------------------------------------------
\* Nothing received, or a packet that is not read.
MbIdle == resp = None /\ UNCHANGED mb_vars

MbNext == \/ \E k \in ReqKeys, a \in Addrs, sent \in BOOLEAN : RecvRequest(k, a, sent)
          \/ \E q \in asked :
                \/ RecvIgnored(q)
                \/ \E again \in BOOLEAN :
                      \/ RecvUnmatched(q, again)
                      \/ \E n \in 0 .. MaxRegs : \E regs \in [1 .. n -> RegVals] :
                            RecvResponse(q, regs, again)
          \/ ReadRegister \/ ResponseDone \/ MbIdle

MbSpec == MbInit /\ [][MbNext]_mb_vars

-----------------------------------------------------------------------------
(***************************************************************************)
(* Safety: a response is read under the start address of the request it    *)
(* answers although several places of the ring may hold one identifier (a  *)
(* request sent again) of which find_pending takes the first, not the      *)
(* newest, although places of unanswered requests stay valid until         *)
(* add_pending comes round to them, and whatever was lost or repeated -    *)
(* unless an identifier was reused for another address while an earlier    *)
(* request with it could still be answered or was unanswered and one of    *)
(* the last PendingCap (add_pending does not look for it in the ring).     *)
(***************************************************************************)
AttributionRight ==
    resp # None /\ ~confused => resp.start = resp.genuine

(***************************************************************************)
(* Safety: the state a sensor keeps across windows says of all its         *)
(* readings what it is meant to: a vector compares the EWMA of the last    *)
(* window with that of the window before it (the first reading, for the    *)
(* first), and its mean is the mean of every reading since the sensor was  *)
(* first seen (compute_features, handle_reading).                          *)
(***************************************************************************)
StateCoversHistory ==
    feature_sink # None =>
      LET f == feature_sink.fv
          h == feature_sink.of
          n == Len(h)
      IN  /\ n % WindowSize = 0 /\ f.total_samples = n
          /\ f.ewma = SubSeq(h, n - WindowSize + 1, n)
          /\ f.ewma_before = IF n = WindowSize THEN <<h[1]>>
                             ELSE SubSeq(h, n - 2 * WindowSize + 1, n - WindowSize)
          /\ f.mean[1] * n = Sum(h) * f.mean[2]
=============================================================================
