---------------------------- MODULE FlowProfiles ----------------------------
(***************************************************************************)
(* One worker that tracks flows: the DoH and IoT profiles of the           *)
(* classifier, the benchmarks extracted from them and the prototype before *)
(* them.  Packets of a flow are accumulated in an entry; a full window     *)
(* becomes a feature vector.  The classifier's worker takes vectors from a *)
(* queue and checks them against the feature contract                      *)
(* (src/src/feature_contract.c); the others use them at once.              *)
(*                                                                         *)
(* The port spreads packets over two queues; this worker polls queue 0.    *)
(* Packets a program's parser refuses change nothing and are left out.     *)
(***************************************************************************)
EXTENDS FlowKey, Rss, RecordWindow, PacketWindow

CONSTANTS Programs,     \* "doh", "iot", "tls_bench", "tcp_bench", "iot_multicore"
          TlsLens,      \* tls_record_len
          Lens,         \* the IP total length
          Gaps,         \* time between two packets
          Flags,        \* number of TCP flags set
          CfgWindow,    \* --window
          BenchWindow,  \* TLSB_N_RECORDS, TCPF_N_PACKETS, N_PACKETS - 1
          MaxFlows,     \* max_flows_per_worker, TLSB_MAX_FLOWS, ...
          QueueSize,    \* APP_FEATURE_QUEUE_SIZE
          MaxPackets,   \* bound: packets that arrive in a run
          None          \* no vector

Words == 0 .. 65535   \* uint16_t
Spans == 0 .. 1000    \* so that no time reaches Never

ASSUME FlowProfilesAssumption ==
    /\ TlsLens \subseteq Words /\ Lens \subseteq Words
    /\ Flags \subseteq 0 .. 8 /\ Gaps \subseteq Spans
    /\ CfgWindow \in Words /\ BenchWindow \in Words \ {0, 1}
    /\ MaxPackets \in Spans
    /\ MaxFlows \in Nat \ {0} /\ QueueSize \in Nat \ {0}

VARIABLES
    program,
    pc,                                           \* "rx" or "drain"
    now,                                          \* the packets' time
    f_hash, f_next, entries,                      \* the flow table and its entries
    t_head, t_link, t_count,                      \* the TLS benchmark's free list
    q_items, q_head, q_tail, q_count, q_dropped,  \* s->q
    invalid,       \* invalid_features
    sink,          \* the last vector a benchmark or the prototype used
    history,       \* stream -> its packets here since its last vector
    elsewhere,     \* streams with packets since then at the other queue; these
                   \* two are read by properties only
    packets        \* packets that arrived

table == <<f_hash, f_next, t_head, t_link, t_count>>
queue == <<q_items, q_head, q_tail, q_count, q_dropped>>
seen == <<history, elsewhere>>
vars == <<program, pc, now, table, entries, queue, invalid, sink, seen, packets>>

-----------------------------------------------------------------------------
Queued == program \in {"doh", "iot"}
Tls == program \in {"doh", "tls_bench"}

\* s->window, and the benchmarks' fixed ones
Window == CASE program = "doh" -> IF CfgWindow = 0 THEN 16 ELSE CfgWindow
            [] program = "iot" -> IF CfgWindow = 0 THEN 8 ELSE CfgWindow
            [] OTHER -> BenchWindow

\* The prototype keeps the directions of a connection apart, and keys each by
\* the other end first.
Key(src, dst) == IF program = "iot_multicore" THEN <<dst, src>>
                 ELSE Canonical(src, dst)
Streams == IF program = "iot_multicore" THEN FlowKeys ELSE Connections
Stream(src, dst) == IF program = "iot_multicore" THEN <<src, dst>> ELSE {src, dst}

\* It asks for no key and sees whatever directions the NIC's own key brings.
Here(src, dst) == program = "iot_multicore" \/ Queue(src, dst) = 0

\* It also takes the length as it is on the wire, high byte first.
Swapped16(n) == (n % 256) * 256 + n \div 256

\* A packet as its handler is given it.
Packet(src, len, time, flags) ==
    [client |-> src[2] # 443, time |-> time, flags |-> flags,
     len |-> IF program = "iot_multicore" THEN Swapped16(len) ELSE len]
Parsed(src, dst, len, flags) ==
    IF Tls THEN len \in TlsLens /\ flags = 0 /\ (src[2] = 443 \/ dst[2] = 443)
    ELSE len \in Lens /\ flags \in Flags

Zero == IF Tls THEN NoRecords ELSE NoPackets
NewEntry == CASE program = "doh" -> doh_reset_entry
              [] program = "iot" -> iot_reset_entry
              [] program = "tls_bench" -> doh_reset_entry
              [] OTHER -> NoPackets
Update(e, p) ==
    CASE program = "doh" -> doh_update(e, p.len, p.client)
      [] program = "tls_bench" -> tls_update_flow(e, p.len, p.client)
      [] program = "iot" -> iot_update(e, p.len, p.time, p.flags)
      [] program = "tcp_bench" -> tcp_update_flow(e, p.len, p.time, p.flags)
      [] OTHER -> update_flow_entry(e, p.len, p.time, p.flags)
Count(e) == IF Tls THEN e.n_client + e.n_server ELSE e.pkt_count

\* The prototype's test is for equality: a flow has one vector.
Full(e) == IF program \in {"iot_multicore", "tcp_bench"} THEN Count(e) = Window
           ELSE Count(e) >= Window
\* Wrong: a window of records starts with the direction the last one ended in.
AfterWindowTurned(e) == CASE program = "tcp_bench" -> tcp_finalize_reset(e)
                          [] program = "iot_multicore" -> e
                          [] Tls -> [NewEntry EXCEPT !.last_dir = e.last_dir]
                          [] OTHER -> NewEntry
AfterWindow(e) == CASE program = "tcp_bench" -> tcp_finalize_reset(e)
                    [] program = "iot_multicore" -> e
                    [] OTHER -> NewEntry
Features(e) == IF Tls THEN RecordFeatures(e) ELSE PacketFeatures(e)
Reference(h) == IF Tls THEN RecordReference(h) ELSE PacketReference(h)
ContractHolds(fv) == IF Tls THEN validate_doh(fv, CfgWindow) ELSE validate_iot(fv)

Pool == INSTANCE FlowPool WITH
    Keys <- FlowKeys, Capacity <- MaxFlows, hash <- f_hash, next_free <- f_next

FeatureVectors ==
    [n_client : Nat, n_server : Nat, client_bytes : Nat, total_bytes : Nat,
     size_min : Nat, size_max : Nat, size_sum : Nat, dir_switches : Nat]
    \cup [count : Nat, len_min : Nat, len_max : Nat, len_sum : Nat,
          iat_max : Nat, iat_sum : Nat, iat_min : Nat, flags : Nat]

\* A vector with its flow and, for the properties, the packets it is due to
\* and whether any of them went elsewhere.
Vectors == [flow : FlowKeys, fv : FeatureVectors,
            of : Seq([client : BOOLEAN, len : Nat, time : Nat, flags : Nat]),
            torn : BOOLEAN]

Fq == INSTANCE FeatureQueue WITH
    Items <- Vectors, NoItem <- None, Size <- QueueSize,
    items <- q_items, head <- q_head, tail <- q_tail,
    count <- q_count, dropped <- q_dropped

Init ==
    /\ program \in Programs
    /\ Pool!Init
    /\ entries = [n \in 0 .. MaxFlows - 1 |-> Zero]
    /\ t_head = 0 /\ t_count = MaxFlows
    /\ t_link = [n \in 0 .. MaxFlows - 1 |-> n + 1]
    /\ Fq!Init
    /\ pc = "rx" /\ now = 0 /\ invalid = 0 /\ packets = 0
    /\ sink = None
    /\ history = [s \in Streams |-> <<>>]
    /\ elsewhere = {}

-----------------------------------------------------------------------------
\* alloc_entry of the TLS benchmark takes the head of its free list, and
\* free_entry puts it back when the hash table has no room.
TlsAlloc(k) ==
    /\ ~Pool!Tracked(k)
    /\ t_count > 0
    /\ f_hash' = [f_hash EXCEPT ![k] = t_head]
    /\ t_head' = t_link[t_head]
    /\ t_link' = [t_link EXCEPT ![t_head] = 0]
    /\ t_count' = t_count - 1
    /\ UNCHANGED f_next
TlsNoEntry(k) == ~Pool!Tracked(k) /\ UNCHANGED table

\* The other programs allocate as flow_pool.c does.
PoolAlloc(k) == Pool!Alloc(k) /\ UNCHANGED <<t_head, t_link, t_count>>

Alloc(k) == IF program = "tls_bench" THEN TlsAlloc(k) ELSE PoolAlloc(k)
NoEntry(k) == IF program = "tls_bench" THEN TlsNoEntry(k)
              ELSE Pool!NoEntry(k) /\ UNCHANGED table
Hit(k) == Pool!Hit(k) /\ UNCHANGED table

\* doh_emit and iot_emit push a vector; the others use it on the spot.
Emit(v) == IF Queued THEN Fq!Push(v) /\ UNCHANGED sink
           ELSE sink' = v /\ UNCHANGED queue

\* Entry n, holding e, takes one packet of flow k.
AddPacket(n, e, k, s, p) ==
    LET u == Update(e, p)
        h == Append(history[s], p)
        v == [flow |-> k, fv |-> Features(u), of |-> h, torn |-> s \in elsewhere]
    IN  IF Full(u)
        THEN /\ entries' = [entries EXCEPT ![n] = AfterWindow(u)]
             /\ history' = [history EXCEPT ![s] = <<>>]
             /\ elsewhere' = elsewhere \ {s}
             /\ Emit(v)
        ELSE /\ entries' = [entries EXCEPT ![n] = u]
             /\ history' = [history EXCEPT ![s] = h]
             /\ UNCHANGED <<elsewhere, queue, sink>>

Arrive(src, dst, len, gap, flags) ==
    /\ packets < MaxPackets
    /\ src # dst
    /\ Parsed(src, dst, len, flags)
    /\ Tls => gap = 0
    /\ now' = now + gap
    /\ packets' = packets + 1
    /\ UNCHANGED <<program, invalid>>

\* doh_process_packet, iot_process_packet, handle_record, handle_packet.
Receive(src, dst, len, gap, flags) ==
    LET k == Key(src, dst)
        s == Stream(src, dst)
        p == Packet(src, len, now', flags)
    IN  /\ pc = "rx"
        /\ Arrive(src, dst, len, gap, flags)
        /\ Here(src, dst)
        /\ \/ Hit(k) /\ AddPacket(f_hash[k], entries[f_hash[k]], k, s, p)
           \/ Alloc(k) /\ AddPacket(f_hash'[k], NewEntry, k, s, p)
           \/ NoEntry(k) /\ UNCHANGED <<entries, queue, sink, seen>>
        /\ pc' = IF Queued THEN "drain" ELSE "rx"

\* A packet for the other queue.
Elsewhere(src, dst, len, gap, flags) ==
    /\ Arrive(src, dst, len, gap, flags)
    /\ ~Here(src, dst)
    /\ elsewhere' = elsewhere \cup {Stream(src, dst)}
    /\ UNCHANGED <<pc, table, entries, queue, sink, history>>

\* classify_feature
Classify ==
    /\ pc = "drain"
    /\ Fq!Pop
    /\ invalid' = IF ContractHolds(q_items[q_head].fv) THEN invalid ELSE invalid + 1
    /\ UNCHANGED <<program, pc, now, table, entries, sink, seen, packets>>

DrainDone ==
    /\ pc = "drain"
    /\ q_count = 0
    /\ pc' = "rx"
    /\ UNCHANGED <<program, now, table, entries, queue, invalid, sink, seen, packets>>

\* rte_eth_rx_burst returns nothing, or a packet the parser refuses.
Idle == pc = "rx" /\ UNCHANGED vars

Next == \/ \E src, dst \in Endpoints, len \in TlsLens \cup Lens, gap \in Gaps,
              flags \in Flags \cup {0} :
              \/ Receive(src, dst, len, gap, flags)
              \/ Elsewhere(src, dst, len, gap, flags)
        \/ Classify \/ DrainDone \/ Idle

Spec == Init /\ [][Next]_vars

-----------------------------------------------------------------------------
(***************************************************************************)
(* Safety: a vector describes exactly the last Window packets that reached *)
(* the port of one connection (of one direction of it, for the prototype), *)
(* both directions together and in the order they arrived, as if counted   *)
(* from the packets: nothing is left over from the window before it, from  *)
(* a pause, or from another flow that had the entry or the ring place, and *)
(* no direction went to another worker (doh_update, iot_update, doh_emit,  *)
(* iot_emit, flow_key5_canonicalize, and rss_key in dpdk_port.c).          *)
(***************************************************************************)
Exact(v) == ~v.torn /\ Len(v.of) = Window /\ v.fv = Reference(v.of)

VectorsExact ==
    /\ \A j \in 1 .. q_count : Exact(Fq!Content[j])
    /\ sink # None => Exact(sink)

(***************************************************************************)
(* Safety: validate_doh and validate_iot accept every vector their profile *)
(* emits.                                                                  *)
(***************************************************************************)
ContractNeverRejects == invalid = 0
=============================================================================
