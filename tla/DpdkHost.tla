------------------------------- MODULE DpdkHost -------------------------------
(***************************************************************************)
(* Start and end of the classifier itself (src/main.c): what the process,  *)
(* the logger and each worker allocate, the lcores they run on, and the    *)
(* order in which all of it is freed.  One definition per C function,      *)
(* under its name; rte_exit ends the process where it is.                  *)
(***************************************************************************)
EXTENDS HostSteps, SequencesExt

CONSTANT WorkerCount   \* worker_count, at least 1

ASSUME WorkerCountAssumption == WorkerCount \in Nat \ {0}

Workers == 0 .. WorkerCount - 1
Of(w, what) == what \o ToString(w)
rte_exit == << Exit >>

\* One function after the other, for every worker.
ForEachWorker(Steps(_)) ==
    FlattenSeq([i \in 1 .. WorkerCount |-> Steps(i - 1)])

\* ---- flow_pool.c, modbus_tracker.c --------------------------------------

flow_pool_init(p) ==
    << GetPart(p \o ".hash", {}),
       [GetPart(p \o ".entries", {}) EXCEPT
            !.sets = {p}, !.undo = << Sure(PutAnyway(p \o ".hash")) >>] >>
flow_pool_free(p) ==
    << Sure(PutAnyway(p \o ".hash")), Sure(PutAnyway(p \o ".entries")) >>

\* (A stack of free slots allocated although the slots could not be is freed
\* with the hash.)
modbus_tracker_init(t) ==
    << GetPart(t \o ".hash", {}),
       [GetPart(t \o ".pool", {}) EXCEPT
            !.undo = << Sure(PutAnyway(t \o ".hash")) >>],
       [GetPart(t \o ".free_stack", {}) EXCEPT
            !.sets = {t},
            !.undo = << Sure(PutAnyway(t \o ".hash")),
                        Sure(PutAnyway(t \o ".pool")) >>] >>
modbus_tracker_free(t) ==
    << Sure(PutAnyway(t \o ".hash")), Sure(PutAnyway(t \o ".pool")),
       Sure(PutAnyway(t \o ".free_stack")) >>

\* ---- features_*.c: init_worker and free_worker --------------------------

State(w) == Of(w, "state")
ics_init_worker(w) ==
    << Get(State(w), {Of(w, "worker")}) >>
        \o OrElse(flow_pool_init(Of(w, "sensors")),
                  << Sure(PutAnyway(State(w))) >>)
        \o OrElse(modbus_tracker_init(Of(w, "tracker")),
                  flow_pool_free(Of(w, "sensors"))
                    \o << Sure(PutAnyway(State(w))) >>)
ics_free_worker(w) ==
    When(State(w), modbus_tracker_free(Of(w, "tracker"))
                     \o flow_pool_free(Of(w, "sensors"))
                     \o << Sure(PutAnyway(State(w))) >>)
doh_init_worker(w) ==
    << Get(State(w), {Of(w, "worker")}) >>
        \o OrElse(flow_pool_init(Of(w, "flows")),
                  << Sure(PutAnyway(State(w))) >>)
doh_free_worker(w) ==
    When(State(w), flow_pool_free(Of(w, "flows"))
                     \o << Sure(PutAnyway(State(w))) >>)
iot_init_worker(w) == doh_init_worker(w)
iot_free_worker(w) == doh_free_worker(w)

init_worker(profile, w) == CASE profile = "ics" -> ics_init_worker(w)
                             [] profile = "doh" -> doh_init_worker(w)
                             [] profile = "iot" -> iot_init_worker(w)
free_worker(profile, w) == CASE profile = "ics" -> ics_free_worker(w)
                             [] profile = "doh" -> doh_free_worker(w)
                             [] profile = "iot" -> iot_free_worker(w)

\* ---- logger.c, dpdk_port.c ----------------------------------------------

logger_init(async) ==
    IF async THEN << Get("log_ring", {"eal"}), Get("log_pool", {"eal"}) >>
    ELSE << >>
logger_free == << Sure(Put("log_ring")), Sure(Put("log_pool")) >>

MbufPool(w) == Of(w, "mbuf_pool")
\* Queues past what the device offers are not set up; all pools stay.
app_port_init ==
    << Call("dev_info_get", {"eal"}), Call("dev_configure", {"eal"}) >>
        \o ForEachWorker(LAMBDA w : << Call("queue_setup", {MbufPool(w)}) >>)
        \o << Get("port", {"eal"} \cup {MbufPool(w) : w \in Workers}) >>
app_ports_close == << Sure(PutAnyway("port")) >>

\* ---- app_config.c -------------------------------------------------------

\* The options given on the command line, in any order; those with a value can
\* be refused.
Valued == {"profile", "model", "kernel", "port", "workers", "window",
           "ics-window", "log-mode", "swap-mac", "main-worker",
           "allow-feature-pad", "promisc", "max-flows", "max-sensors",
           "log-ring"}
app_config_parse(options) ==
    FlattenSeq([i \in DOMAIN options |->
        IF options[i] \in Valued THEN << Call(options[i], {}) >> ELSE << >>])

\* ---- main.c -------------------------------------------------------------

\* What is looked at before anything is created.  Asked for its usage, the
\* program returns and leaves the EAL as it is.
Checked(options) ==
    << [Call("help", {}) EXCEPT !.loses = {"eal"}] >>
        \o OrElse(app_config_parse(options)
                    \o << Call("feature_count matches", {}),
                          Call("port usable", {"eal"}),
                          Call("worker lcores", {"eal"}) >>,
                  rte_exit)

\* What a worker's loop touches: it runs on its lcore from its launch until the
\* wait for all lcores, which waits for the logger's as well.
Loop(w) == Of(w, "worker_loop")
Touched(w, async, scratch) ==
    {Of(w, "worker"), State(w), MbufPool(w), "port"}
        \cup (IF scratch THEN {Of(w, "scratch")} ELSE {})
        \cup (IF async THEN {"log_ring", "log_pool"} ELSE {})

LaunchLogger ==
    << Sure(Get("logger_loop", {"log_ring", "log_pool"})) >>
rte_eal_mp_wait_lcore ==
    << Sure(Put("logger_loop")) >>
        \o ForEachWorker(LAMBDA w : << Sure(PutAnyway(Loop(w))) >>)

\* Allocations are on the EAL's heap; the contexts are one array.
SetUpWorker(profile, scratch, w) ==
    << Sure(Get(Of(w, "worker"), {"workers"})) >>
        \o (IF scratch THEN << Get(Of(w, "scratch"), {}) >> ELSE << >>)
        \o init_worker(profile, w)
FreeWorker(profile, w) ==
    free_worker(profile, w)
        \o << Sure(Put(Of(w, "scratch"))), Sure(PutAnyway(Of(w, "worker"))) >>

\* The model runtime needs scratch memory for the MLP and the BNN.  With no
\* lcore to spare for the logger, nothing is logged, but the ring is there.
classifier_main(profile, options, scratch, async, log_lcore) ==
    LET logging == async /\ log_lcore
    IN  << Get("eal", {}) >> \o Checked(options)
          \o OrElse(
               logger_init(async)
                 \o (IF logging THEN LaunchLogger ELSE << >>)
                 \o ForEachWorker(LAMBDA w : << Get(MbufPool(w), {"eal"}) >>)
                 \o app_port_init
                 \o << Get("workers", {"eal"}) >>
                 \o ForEachWorker(LAMBDA w : SetUpWorker(profile, scratch, w)),
               rte_exit)
          \o ForEachWorker(LAMBDA w :
               << Sure(Get(Loop(w), Touched(w, logging, scratch))) >>)
          \o rte_eal_mp_wait_lcore
          \o ForEachWorker(LAMBDA w : FreeWorker(profile, w))
          \o << Sure(PutAnyway("workers")) >> \o app_ports_close
          \o ForEachWorker(LAMBDA w : << Sure(Put(MbufPool(w))) >>)
          \o logger_free \o << Sure(PutAnyway("eal")) >>
===============================================================================
