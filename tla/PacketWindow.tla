---------------------------- MODULE PacketWindow ----------------------------
(***************************************************************************)
(* A window of the TCP packets of one flow and the times between them: the *)
(* IoT profile (src/src/features_iot.c), the benchmark it was measured     *)
(* with (src/offline_bench_pkt_process/bench_tcp_flow.c) and the prototype *)
(* it grew from (src/onnx/iot_multicore.c).                                *)
(***************************************************************************)
EXTENDS Integers, Sequences, FiniteSets, FiniteSetsExt

\* UINT32_MAX and UINT64_MAX: above every length and every time.
Never == 1000001

NoPackets == [pkt_count |-> 0, last_tsc |-> 0, flags |-> 0,
              len_min |-> 0, len_max |-> 0, len_sum |-> 0,
              iat_min |-> 0, iat_max |-> 0, iat_sum |-> 0]

iot_reset_entry == [NoPackets EXCEPT !.len_min = Never, !.iat_min = Never]

\* What the benchmark clears after a window: the first packet of the next one
\* overwrites the rest.
tcp_finalize_reset(e) == [e EXCEPT !.pkt_count = 0]

\* iot_update, update_flow of the benchmark and update_flow_entry of the
\* prototype, which are alike.  total_bytes always equals len_sum.
iot_update(e, len, time, flags) ==
    LET gap == time - e.last_tsc
    IN  IF e.pkt_count = 0
          THEN [pkt_count |-> 1, last_tsc |-> time, flags |-> flags,
                len_min |-> len, len_max |-> len, len_sum |-> len,
                iat_min |-> Never, iat_max |-> 0, iat_sum |-> 0]
          ELSE [pkt_count |-> e.pkt_count + 1, last_tsc |-> time,
                flags |-> e.flags + flags,
                len_min |-> Min({len, e.len_min}),
                len_max |-> Max({len, e.len_max}),
                len_sum |-> e.len_sum + len,
                iat_min |-> Min({gap, e.iat_min}),
                iat_max |-> Max({gap, e.iat_max}),
                iat_sum |-> e.iat_sum + gap]
tcp_update_flow(e, len, time, flags) == iot_update(e, len, time, flags)
update_flow_entry(e, len, time, flags) == iot_update(e, len, time, flags)

\* iot_emit, and where the other two build their vector: means kept as sum
\* and count.
PacketFeatures(e) ==
    [count |-> e.pkt_count, len_min |-> e.len_min, len_max |-> e.len_max,
     len_sum |-> e.len_sum, iat_max |-> e.iat_max, iat_sum |-> e.iat_sum,
     iat_min |-> IF e.iat_min = Never THEN 0 ELSE e.iat_min,
     flags |-> e.flags]

\* Wrong: the mean gap is taken over the packets.
validate_iotCountsPackets(fv) ==
    /\ fv.len_min * fv.count <= fv.len_sum
    /\ fv.len_sum <= fv.len_max * fv.count
    /\ fv.iat_min * fv.count <= fv.iat_sum
    /\ fv.iat_sum <= fv.iat_max * fv.count

\* On the means of iot_emit, which divides by nothing that can be 0: the mean
\* of no gap is 0, and no feature is negative or infinite.
validate_iot(fv) ==
    LET gaps == IF fv.count > 1 THEN fv.count - 1 ELSE 1
    IN  /\ fv.len_min * fv.count <= fv.len_sum
        /\ fv.len_sum <= fv.len_max * fv.count
        /\ fv.iat_min * gaps <= fv.iat_sum
        /\ fv.iat_sum <= fv.iat_max * gaps

\* What the features should say of the packets h, counted from h itself: gaps
\* are between packets of one window, never from the window before.
PacketReference(h) ==
    LET lens == {h[j].len : j \in DOMAIN h}
        later == DOMAIN h \ {1}
        gap(j) == h[j].time - h[j - 1].time
        gaps == {gap(j) : j \in later}
    IN  [count |-> Len(h),
         len_min |-> Min(lens), len_max |-> Max(lens),
         len_sum |-> MapThenSumSet(LAMBDA j : h[j].len, DOMAIN h),
         iat_min |-> IF gaps = {} THEN 0 ELSE Min(gaps),
         iat_max |-> IF gaps = {} THEN 0 ELSE Max(gaps),
         iat_sum |-> MapThenSumSet(gap, later),
         flags |-> MapThenSumSet(LAMBDA j : h[j].flags, DOMAIN h)]
=============================================================================
