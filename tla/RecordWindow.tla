---------------------------- MODULE RecordWindow ----------------------------
(***************************************************************************)
(* A window of TLS records of one flow, both directions: the DoH profile   *)
(* (src/src/features_doh.c) and the benchmark it was measured with         *)
(* (src/offline_bench_pkt_process/bench_tls_appdata.c).                    *)
(*                                                                         *)
(* bytes_client and sum_client, bytes_server and sum_server always agree.  *)
(***************************************************************************)
EXTENDS Integers, Sequences, FiniteSets, FiniteSetsExt

NoRecords == [n_client |-> 0, n_server |-> 0,
              sum_client |-> 0, sum_server |-> 0,
              min_client |-> 0, max_client |-> 0,
              min_server |-> 0, max_server |-> 0,
              last_dir |-> 0, dir_switches |-> 0]

Longest == 65536   \* UINT32_MAX: above every record length

\* doh_reset_entry
doh_reset_entry == [NoRecords EXCEPT !.min_client = Longest, !.min_server = Longest]

Least(a, b) == IF a < b THEN a ELSE b
Greatest(a, b) == IF a > b THEN a ELSE b

ClientRecord(e, len) ==
    [e EXCEPT !.n_client = @ + 1,
              !.sum_client = @ + len,
              !.min_client = IF e.n_client = 0 THEN len ELSE Least(len, @),
              !.max_client = IF e.n_client = 0 THEN len ELSE Greatest(len, @)]

ServerRecord(e, len) ==
    [e EXCEPT !.n_server = @ + 1,
              !.sum_server = @ + len,
              !.min_server = IF e.n_server = 0 THEN len ELSE Least(len, @),
              !.max_server = IF e.n_server = 0 THEN len ELSE Greatest(len, @)]

doh_update(e, len, client) ==
    LET d == IF client THEN 1 ELSE 2
        a == IF client THEN ClientRecord(e, len) ELSE ServerRecord(e, len)
    IN  [a EXCEPT !.last_dir = d,
                  !.dir_switches = IF e.last_dir \notin {0, d} THEN @ + 1 ELSE @]

\* update_flow of the benchmark relies on the extremes it starts from.
tls_update_flow(e, len, client) ==
    LET d == IF client THEN 1 ELSE 2
        turned == e.last_dir # 0 /\ e.last_dir # d
        a == IF client
             THEN [e EXCEPT !.n_client = @ + 1, !.sum_client = @ + len,
                            !.min_client = Least(len, @),
                            !.max_client = Greatest(len, @)]
             ELSE [e EXCEPT !.n_server = @ + 1, !.sum_server = @ + len,
                            !.min_server = Least(len, @),
                            !.max_server = Greatest(len, @)]
    IN  [a EXCEPT !.last_dir = d, !.dir_switches = IF turned THEN @ + 1 ELSE @]

\* doh_emit and the benchmark's finalize_window: the fields the contract reads,
\* ratios kept as their two terms.
RecordFeatures(e) ==
    LET low == Least(IF e.n_client > 0 THEN e.min_client ELSE Longest,
                     IF e.n_server > 0 THEN e.min_server ELSE Longest)
        high == Greatest(IF e.n_client > 0 THEN e.max_client ELSE 0,
                         IF e.n_server > 0 THEN e.max_server ELSE 0)
    IN  [n_client |-> e.n_client, n_server |-> e.n_server,
         client_bytes |-> e.sum_client,
         total_bytes |-> e.sum_client + e.sum_server,
         size_min |-> IF low = Longest THEN 0 ELSE low,
         size_max |-> high,
         size_sum |-> e.sum_client + e.sum_server,
         dir_switches |-> e.dir_switches]

\* The window validate_doh is given is the configured one.
validate_doh(fv, window) ==
    LET n == fv.n_client + fv.n_server
    IN  /\ n = window
        /\ fv.client_bytes \in 0 .. fv.total_bytes
        /\ fv.size_min * n <= fv.size_sum
        /\ fv.size_sum <= fv.size_max * n
        /\ fv.dir_switches <= window - 1
        /\ fv.dir_switches <= 2 * Least(fv.n_client, fv.n_server)

\* What the features should say of the records h, counted from h itself.
RecordReference(h) ==
    LET Of(dir) == {j \in DOMAIN h : h[j].client = dir}
        lens == {h[j].len : j \in DOMAIN h}
        Bytes(S) == MapThenSumSet(LAMBDA j : h[j].len, S)
    IN  [n_client |-> Cardinality(Of(TRUE)), n_server |-> Cardinality(Of(FALSE)),
         client_bytes |-> Bytes(Of(TRUE)), total_bytes |-> Bytes(DOMAIN h),
         size_min |-> Min(lens), size_max |-> Max(lens),
         size_sum |-> Bytes(DOMAIN h),
         dir_switches |-> Cardinality({j \in DOMAIN h \ {1} :
                                          h[j].client # h[j - 1].client})]
=============================================================================
