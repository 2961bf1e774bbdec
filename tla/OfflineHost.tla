----------------------------- MODULE OfflineHost -----------------------------
(***************************************************************************)
(* The programs that measure a kernel without a port: what they open and   *)
(* allocate, and what they release on each way out (bf3/src/mlp_bench.c,   *)
(* bf3/src/check_hardcoded.c and x86/src/bench_main.c of the offline       *)
(* inference benchmarks, onnx/infer_arm64.c).  Memory that is never freed  *)
(* before the process ends is left out, and so are the rounds of a loop    *)
(* after the first.                                                        *)
(***************************************************************************)
EXTENDS HostSteps

\* A file that is written and closed again.
Written(file) == << Get(file, {}), Sure(PutAnyway(file)) >>

\* ---- mlp_bench.c, check_hardcoded.c -------------------------------------

build_xnnpack_runtime ==
    << Call("xnn_initialize", {}), Call("xnn_create_subgraph", {}),
       Call("xnn_create_runtime", {}) >>
mlp_bench_main(xnnpack) ==
    (IF xnnpack THEN OrElse(build_xnnpack_runtime, << Exit >>)
     ELSE << Call("shapes agree", {}) >>)
        \o Written("latencies.csv")

\* It does not look whether the file could be opened.
hc_bench(csv) ==
    << Sure(Get(csv, {})), Sure(Get("lat", {})), Sure(PutAnyway(csv)),
       Sure(PutAnyway("lat")) >>
check_hardcoded_main ==
    << Call("no mismatch", {}) >> \o hc_bench("latencies_hardcoded.csv")
        \o hc_bench("latencies_hardcoded_raw.csv")

\* ---- csv_logger.c, bench_main.c (x86) -----------------------------------

\* The file is opened to see whether it is there, or else created; a row opens
\* it again.
csv_logger_init == Written("csv")
csv_logger_row == Written("csv")
x86_bench_main ==
    LET free == << Sure(PutAnyway("features")), Sure(PutAnyway("latencies")) >>
    IN  csv_logger_init
          \o << Get("features", {}),
                [Get("latencies", {}) EXCEPT
                    !.undo = << Sure(PutAnyway("features")) >>] >>
          \o OrElse(csv_logger_row, free) \o free

\* ---- infer_arm64.c ------------------------------------------------------

load_inputs == Written("inputs.bin")

\* Three tensors over the caller's buffers, and the output of a run.
Inputs == << "t_ids", "t_mask", "t_tt" >>
Inference ==
    [i \in DOMAIN Inputs |-> Sure(Get(Inputs[i], {"mem_info"}))]
        \o << Sure(Get("t_out", {"session", "t_ids", "t_mask", "t_tt"})),
              Sure(PutAnyway("t_out")) >>
        \o [i \in DOMAIN Inputs |-> Sure(PutAnyway(Inputs[i]))]

\* Of the calls into the runtime only the creation of the session is looked
\* at, and when it fails nothing is released; the others are taken to succeed.
\* Embeddings that cannot be saved are not.
infer_arm64_main ==
    load_inputs
        \o << Sure(Get("env", {})), Sure(Get("opts", {})),
              [Get("session", {"env", "opts"}) EXCEPT !.loses = {"env", "opts"}],
              Sure(Get("mem_info", {})) >>
        \o Inference \o Inference
        \o << [Get("embeddings.bin", {}) EXCEPT !.resume = 1],
              Sure(Put("embeddings.bin")), Sure(PutAnyway("mem_info")),
              Sure(PutAnyway("session")), Sure(PutAnyway("opts")),
              Sure(PutAnyway("env")) >>
==============================================================================
