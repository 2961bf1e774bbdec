------------------------------- MODULE DocaHost -------------------------------
(***************************************************************************)
(* The host programs written against DOCA: programmable congestion control *)
(* (flexio/pcc and its copy flexio/ml_dpa) and the flow sample.  One       *)
(* definition per C function, under its name.                              *)
(***************************************************************************)
EXTENDS HostSteps, SequencesExt

\* ---- pcc_core.c ---------------------------------------------------------

\* Whatever happens to the file, it is closed again.
WithFile(calls) ==
    << Get("file", {}) >> \o OrElse(calls, << Sure(PutAnyway("file")) >>)
        \o << Sure(PutAnyway("file")) >>
get_file_size ==
    WithFile(<< Call("fseek", {"file"}) >>) \o << Call("size", {}) >>
read_file_into_buffer ==
    WithFile(<< Sure(Call("fread", {"file", "file_buffer"})) >>)
        \o << Call("all read", {}) >>

create_dpa_resources ==
    LET free == << Sure(PutAnyway("file_buffer")) >>
        both == << PutAnyway("dpa_resources") >> \o free
    IN  get_file_size \o << Get("file_buffer", {}) >>
          \o OrElse(read_file_into_buffer
                      \o << Get("dpa_resources", {"file_buffer"}) >>, free)
          \o OrElse(<< Call("get_num_eus", {"dpa_resources"}),
                       Call("get_eus", {"dpa_resources"}) >>, both)
          \o << [PutAnyway("dpa_resources") EXCEPT !.resume = 0, !.undo = free] >>
          \o free

\* Devices are looked at in turn until the name matches.
pcc_device_exists_check ==
    LET free == << Sure(PutAnyway("devinfo")) >>
    IN  << Get("devinfo", {}) >>
          \o OrElse(<< Call("name found", {"devinfo"}) >>, free) \o free
open_pcc_device ==
    LET free == << Sure(PutAnyway("devinfo")) >>
    IN  << Get("devinfo", {}) >>
          \o OrElse(<< Call("is_pcc_supported", {"devinfo"}),
                       Get("device", {}) >>, free)
          \o free

\* ---- pcc_core.c: parameters ----------------------------------------------

Parameters == << "device", "threads", "wait-time", "remote-sw-handler",
                 "coredump-file", "dpa-resources", "dpa-app-key" >>
register_pcc_params ==
    FlattenSeq([i \in DOMAIN Parameters |->
        << Call("param_create", {"argp"}), Call("register_param", {"argp"}) >>])

\* A callback refuses a value by failing.
device_name_callback == << Call("name fits", {}) >> \o pcc_device_exists_check
threads_list_callback ==
    << Call("list fits", {}), Call("not empty", {}), Call("all digits", {}) >>
wait_time_callback == << Call("not zero", {}) >>
ccmad_remote_sw_handler_callback == << Sure(Call("set handler", {})) >>
coredump_file_callback == << Call("path fits", {}) >>
dpa_resources_file_callback ==
    << Call("path fits", {}), Get("file", {}), Sure(PutAnyway("file")) >>
dpa_application_key_callback == << Call("key fits", {}) >>

Callback(parameter) ==
    CASE parameter = "device" -> device_name_callback
      [] parameter = "threads" -> threads_list_callback
      [] parameter = "wait-time" -> wait_time_callback
      [] parameter = "remote-sw-handler" -> ccmad_remote_sw_handler_callback
      [] parameter = "coredump-file" -> coredump_file_callback
      [] parameter = "dpa-resources" -> dpa_resources_file_callback
      [] parameter = "dpa-app-key" -> dpa_application_key_callback

\* The callbacks of the parameters given; the device is mandatory.
doca_argp_start(given) ==
    << Call("parse", {"argp"}) >>
        \o FlattenSeq([i \in DOMAIN Parameters |->
              IF Parameters[i] \in given \cup {"device"}
              THEN Callback(Parameters[i]) ELSE << >>])

PccSettings ==
    << "get_min_num_threads", "get_max_num_threads", "threads_num",
       "set_app", "set_thread_affinity", "set_ccmad_probe_packet_format",
       "rp_set_ccmad_remote_sw_handler", "set_print_buffer_size",
       "set_trace_message", "set_dev_coredump_file" >>
pcc_destroy == << PutAnyway("pcc"), PutAnyway("device") >>

\* Threads come from a list or from a resources file with a key, not from both.
Refused(given) ==
    \/ {"threads", "dpa-resources"} \subseteq given
    \/ "dpa-resources" \in given /\ "dpa-app-key" \notin given
pcc_init(given) ==
    (IF Refused(given) THEN << Refuse >> ELSE << >>)
        \o (IF "dpa-resources" \in given THEN create_dpa_resources ELSE << >>)
        \o open_pcc_device
        \o << [Get("pcc", {"device"}) EXCEPT
                  !.undo = << PutAnyway("device") >>] >>
        \o [i \in DOMAIN PccSettings |->
              [Call(PccSettings[i], {"pcc"}) EXCEPT !.undo = pcc_destroy]]

\* ---- pcc.c --------------------------------------------------------------

\* One round of the loop; it ends on a signal, or when the process is found
\* deactivated or in error.
PccLoop ==
    << [Call("host_stop", {}) EXCEPT !.resume = 5],
       Sure(Call("enable_debug, dump_debug", {"pcc"})),
       Call("get_process_state", {"pcc"}),
       [Call("active", {}) EXCEPT !.resume = 2],
       Call("wait", {"pcc"}) >>

argp_cleanup == << PutAnyway("argp") >>
Arguments(given) ==
    << Call("signal handlers", {}), Call("log backends", {}), Get("argp", {}) >>
        \o OrElse(register_pcc_params \o doca_argp_start(given)
                    \o << Call("get_log_level", {"argp"}) >>, argp_cleanup)
RunPcc ==
    OrElse(<< Call("doca_pcc_start", {"pcc"}) >> \o PccLoop,
           pcc_destroy \o argp_cleanup)
pcc_mainDestroysTwice(given) ==
    Arguments(given) \o OrElse(pcc_init(given), pcc_destroy \o argp_cleanup)
        \o RunPcc \o pcc_destroy \o argp_cleanup
pcc_main(given) ==
    Arguments(given) \o OrElse(pcc_init(given), argp_cleanup)
        \o RunPcc \o pcc_destroy \o argp_cleanup

\* The copy under another name.
ml_dpa_init(given) == pcc_init(given)
ml_dpa_main(given) == pcc_main(given)

\* ---- doca_flow ----------------------------------------------------------

Ports == 0 .. 1
OfPort(what, p) == what \o ToString(p)

\* A pipe is made from a description that ends with the call.
CreatePipe(pipe, p, settings, next) ==
    LET cfg == OfPort(pipe, p) \o "_cfg"
        free == << Sure(PutAnyway(cfg)) >>
    IN  << Get(cfg, {OfPort("port", p)}) >>
          \o OrElse([i \in DOMAIN settings |-> Call(settings[i], {cfg})]
                      \o << Get(OfPort(pipe, p), {OfPort("port", p)} \cup next) >>,
                    free)
          \o free
AddEntry(pipe, p, next) ==
    << Call("add_entry", {OfPort(pipe, p)} \cup next) >>

create_match_meta_pipe(p) ==
    CreatePipe("match_meta", p, << "set", "set_match", "set_actions" >>, {})
add_match_meta_pipe_entry(p) == AddEntry("match_meta", p, {})
create_match_comparison_pipe(p) == CreatePipe("comparison", p, << "set" >>, {})
add_match_comparison_pipe_entry(p) ==
    AddEntry("comparison", p, {OfPort("match_meta", p)})
create_sum_to_meta_pipe(p) ==
    CreatePipe("sum", p, << "set", "set_match", "set_actions" >>,
               {OfPort("comparison", p)})
add_sum_to_meta_pipe_entry(p) == AddEntry("sum", p, {})

\* One turn of the set-up loop, and what stopping the ports ends: every pipe
\* goes with its port.
SetUpPort(p) ==
    create_match_meta_pipe(p) \o add_match_meta_pipe_entry(p)
        \o create_match_comparison_pipe(p) \o add_match_comparison_pipe_entry(p)
        \o create_sum_to_meta_pipe(p) \o add_sum_to_meta_pipe_entry(p)
        \o << Call("entries_process", {OfPort("port", p)}),
              Call("nb_processed", {}) >>
stop_doca_flow_ports ==
    LET StopPort(p) ==
            << Sure(Put(OfPort("sum", p))), Sure(Put(OfPort("comparison", p))),
               Sure(Put(OfPort("match_meta", p))), PutAnyway(OfPort("port", p)) >>
    IN  StopPort(0) \o StopPort(1)

\* A signal before a turn of the set-up loop skips what is left of it.
flow_match_comparison ==
    LET destroy == << Sure(PutAnyway("doca_flow")) >>
        stop == stop_doca_flow_ports \o destroy
        Turns(rest) == << [Call("should_exit", {}) EXCEPT
                              !.resume = Len(rest) + 1] >> \o rest
    IN  << Get("doca_flow", {"devs"}) >>
          \o OrElse(<< Get("port0", {"doca_flow"}),
                       [Get("port1", {"doca_flow"}) EXCEPT
                           !.undo = << PutAnyway("port0") >>] >>, destroy)
          \o OrElse(Turns(SetUpPort(0) \o Turns(SetUpPort(1))), stop)
          \o stop

\* main.  Devices and the EAL come up inside doca_argp_start and
\* init_doca_flow_devs; only dpdk_fini_with_devs takes them down.
flow_sample_main ==
    LET sample_argp_cleanup == << Sure(PutAnyway("argp")) >>
        dpdk_cleanup == << Sure(PutAnyway("devs")), Sure(PutAnyway("eal")) >>
                            \o sample_argp_cleanup
        queues == << Sure(PutAnyway("queues")) >>
    IN  << Call("log backends", {}), Get("argp", {}) >>
          \o OrElse(<< Call("register_flow_device_params", {"argp"}),
                       Get("eal", {}),
                       [Get("devs", {"eal"}) EXCEPT !.loses = {"eal"}] >>,
                    sample_argp_cleanup)
          \o OrElse(<< Get("queues", {"eal"}) >>, dpdk_cleanup)
          \o OrElse(flow_match_comparison, queues \o dpdk_cleanup)
          \o queues \o dpdk_cleanup
===============================================================================
