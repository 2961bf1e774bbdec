------------------------------ MODULE DpdkBench ------------------------------
(***************************************************************************)
(* Start and end of the other programs that poll a port: the packet        *)
(* processing benchmarks (bench_common.h and its three users) and the      *)
(* first prototype of the classifier (onnx/iot_multicore.c).  They have    *)
(* one lcore per worker, the main lcore among them, and give the whole     *)
(* process up at the first failure.                                        *)
(***************************************************************************)
EXTENDS DpdkHost

Main == 0   \* rte_get_main_lcore(); lcores are numbered from 0

\* The same port for both: every queue takes its packets from one pool.
\* Queues past what the device offers are not set up.
port_init ==
    << Call("dev_info_get", {"eal"}), Call("dev_configure", {"eal"}),
       Call("adjust_nb_rx_tx_desc", {"eal"}) >>
        \o ForEachWorker(LAMBDA w : << Call("rx_queue_setup", {"mbuf_pool"}) >>)
        \o ForEachWorker(LAMBDA w : << Call("tx_queue_setup", {"eal"}) >>)
        \o << Get("port", {"eal", "mbuf_pool"}) >>
bench_port_init == port_init
Launch(w, touched) == << Sure(Get(Loop(w), touched)) >>

\* ---- bench_*.c: app_init ------------------------------------------------

\* State, hash table and entries; a failure leaves all of it to bench_main,
\* which exits.
AppParts == << ".state", ".table", ".pool" >>
app_init(app, w) ==
    [i \in DOMAIN AppParts |-> Get(Of(w, app \o AppParts[i]), {"eal"})]
mb_app_init(w) == app_init("mb", w)
tlsb_app_init(w) == app_init("tlsb", w)
tcpf_app_init(w) == app_init("tcpf", w)
AppInit(app, w) == CASE app = "mb" -> mb_app_init(w)
                     [] app = "tlsb" -> tlsb_app_init(w)
                     [] app = "tcpf" -> tcpf_app_init(w)

\* ---- bench_common.h -----------------------------------------------------

Samples == << "ev_cycles", "burst_cycles", "burst_pkts" >>
SampleBuffers(w) ==
    [i \in DOMAIN Samples |-> Get(Of(w, Samples[i]), {"eal"})]
MeasuredBy(app, w) ==
    {Of(w, Samples[i]) : i \in DOMAIN Samples}
        \cup {Of(w, app \o AppParts[i]) : i \in DOMAIN AppParts}

\* Results go to two files; one that cannot be opened is left out.
bench_dump_results(app) ==
    LET Open(file) == [Get(file, {}) EXCEPT !.resume = 1]
    IN  << Open("samples.csv"), Open("summary.csv") >>
          \o ForEachWorker(LAMBDA w :
                << Sure(Call("percentiles", MeasuredBy(app, w))) >>)
          \o << Sure(Put("samples.csv")), Sure(Put("summary.csv")) >>

\* The EAL takes down what is on its heap and was not freed: all of it.
rte_eal_cleanup(heap) ==
    [i \in DOMAIN heap |-> Sure(PutAnyway(heap[i]))]
        \o << Sure(PutAnyway("eal")) >>
BenchHeap(app) ==
    ForEachWorker(LAMBDA w :
        [i \in DOMAIN AppParts |-> Of(w, app \o AppParts[i])]
            \o [i \in DOMAIN Samples |-> Of(w, Samples[i])])
        \o << "mbuf_pool" >>

\* rte_panic, exit and rte_exit end the process.  The loop of the main lcore
\* is bench_lcore_main, or its copy with a deadline; the others end when they
\* see the flag that one of them or a signal has set.
bench_main(app) ==
    LET Touches(w) == {"port", "mbuf_pool"} \cup MeasuredBy(app, w)
    IN  OrElse(<< Get("eal", {}), Call("bench_parse_args", {}),
                  Call("ports available", {"eal"}),
                  Get("mbuf_pool", {"eal"}) >>
                 \o bench_port_init
                 \o ForEachWorker(LAMBDA w :
                        SampleBuffers(w) \o AppInit(app, w)),
               rte_exit)
          \o ForEachWorker(LAMBDA w :
                IF w = Main THEN << >> ELSE Launch(w, Touches(w)))
          \o Launch(Main, Touches(Main)) \o << Sure(PutAnyway(Loop(Main))) >>
          \o ForEachWorker(LAMBDA w :
                IF w = Main THEN << >> ELSE << Sure(PutAnyway(Loop(w))) >>)
          \o bench_dump_results(app)
          \o << Sure(Call("dev_stop", {"port"})), Sure(PutAnyway("port")) >>
          \o rte_eal_cleanup(BenchHeap(app))

\* ---- onnx/iot_multicore.c -----------------------------------------------

\* (Its buffers and the file are the process's own.)
IotHeap == ForEachWorker(LAMBDA w : << Of(w, "hash") >>) \o << "mbuf_pool" >>

\* A port that does not stop ends the process at once.
close_ports ==
    << [Call("dev_stop", {}) EXCEPT !.resume = Len(IotHeap) + 3],
       Sure(PutAnyway("port")) >>

\* The handler closes the file and the port whatever the workers are doing,
\* and ends the process.
on_terminate ==
    << Sure(Put("feat_csv")) >> \o close_ports
        \o rte_eal_cleanup(IotHeap) \o << Exit >>

\* From the installation of the handler, before every step.
Interruptible(steps) ==
    FlattenSeq([i \in DOMAIN steps |->
        << [Call("signal", {}) EXCEPT !.undo = on_terminate], steps[i] >>])

\* Hash tables for all lcores, then workers are launched one by one while the
\* buffers of the next are still to be allocated.  The main lcore's loop never
\* ends: the command loop and the clean-up after it are never reached, and
\* only a signal ends the program.
Polled(w) == {"port", "mbuf_pool", "feat_csv",
              Of(w, "hash"), Of(w, "buf_a"), Of(w, "buf_b")}
SetUpCore(w) ==
    OrElse(<< Get(Of(w, "buf_a"), {}), Get(Of(w, "buf_b"), {}) >>, rte_exit)
        \o IF w = Main THEN << >> ELSE Launch(w, Polled(w))
iot_multicore_main ==
    OrElse(<< Get("eal", {}), Get("feat_csv", {}) >>, rte_exit)
        \o Interruptible(
             OrElse(ForEachWorker(LAMBDA w : << Get(Of(w, "hash"), {"eal"}) >>)
                      \o << Get("mbuf_pool", {"eal"}) >> \o port_init,
                    rte_exit)
               \o ForEachWorker(SetUpCore))
        \o Launch(Main, Polled(Main))
        \o << [Step("wait", "signal") EXCEPT !.undo = on_terminate] >>
==============================================================================
