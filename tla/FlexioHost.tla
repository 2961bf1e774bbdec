------------------------------ MODULE FlexioHost ------------------------------
(***************************************************************************)
(* The host programs that load code onto the data path accelerator: what   *)
(* they create, in which order, and what they take down.  One definition   *)
(* per C function, under its name; calls into libflexio, libibverbs and    *)
(* libmlx5 are steps.                                                      *)
(***************************************************************************)
EXTENDS HostSteps

\* ---- flow_steering_utils.c ----------------------------------------------

\* A failure returns NULL and leaves what was made so far to nobody.
create_flow_matcher_sw_steer_rx(m) ==
    << Sure(GetPart(m, {})),
       [GetPart(m \o ".domain", {"ibv_ctx"}) EXCEPT !.loses = {m}],
       [GetPart(m \o ".table_root", {m \o ".domain"}) EXCEPT
            !.loses = {m, m \o ".domain"}],
       [GetPart(m \o ".matcher_root", {m \o ".table_root"}) EXCEPT
            !.loses = {m, m \o ".domain", m \o ".table_root"},
            !.sets = {m}] >>

create_flow_matcher_sw_steer_tx(m) ==
    LET root == {m, m \o ".domain", m \o ".table_root", m \o ".matcher_root"}
    IN  [create_flow_matcher_sw_steer_rx(m) EXCEPT ![4].sets = {}] \o
        << [GetPart(m \o ".table_sws", {m \o ".domain"}) EXCEPT
                !.loses = root],
           [GetPart(m \o ".matcher_sws", {m \o ".table_sws"}) EXCEPT
                !.loses = root \cup {m \o ".table_sws"}, !.sets = {m}] >>

\* A rule is an action and a dr_rule in one of the matcher's tables; a failure
\* takes down what was made.
create_flow_rule(r, target, matcher) ==
    << Sure(GetPart(r, {})),
       [GetPart(r \o ".action", target) EXCEPT !.undo = << Sure(PutAnyway(r)) >>],
       [GetPart(r \o ".dr_rule", {matcher, r \o ".action"}) EXCEPT
            !.sets = {r},
            !.undo = << Sure(PutAnyway(r \o ".action")), Sure(PutAnyway(r)) >>] >>
create_flow_rule_rx(r, m) ==
    create_flow_rule(r, {"rq"}, m \o ".matcher_root")
create_flow_rule_tx(r, m) ==
    create_flow_rule(r, {m \o ".domain"}, m \o ".matcher_sws")
create_flow_rule_tx_table(r, m) ==
    create_flow_rule(r, {m \o ".table_sws"}, m \o ".matcher_root")

\* The masks and values to match live as long as the call.
Masked(m, steps) ==
    << Sure(GetPart(m \o "_mask", {})) >>
        \o OrElse(steps, << Sure(PutAnyway(m \o "_mask")) >>)
        \o << Sure(PutAnyway(m \o "_mask")) >>
create_matcher_rx(m) == Masked(m, create_flow_matcher_sw_steer_rx(m))
create_matcher_tx(m) == Masked(m, create_flow_matcher_sw_steer_tx(m))
create_rule_rx_mac_match(r, m) == Masked(r, create_flow_rule_rx(r, m))
create_rule_tx_fwd_to_vport(r, m) == Masked(r, create_flow_rule_tx(r, m))
create_rule_tx_fwd_to_sws_table(r, m) ==
    Masked(r, create_flow_rule_tx_table(r, m))

\* Both stop at the first part that cannot be taken down.
destroy_matcher(m, parts) ==
    When(m, StopAtFailure(
        [i \in DOMAIN parts |-> PutAnyway(m \o parts[i])]
            \o << Sure(PutAnyway(m)) >>))
RxParts == << ".matcher_root", ".table_root", ".domain" >>
TxParts == << ".matcher_root", ".table_root", ".matcher_sws", ".table_sws",
              ".domain" >>
destroy_rule(r) ==
    When(r, StopAtFailure(<< PutAnyway(r \o ".dr_rule"),
                             PutAnyway(r \o ".action"),
                             Sure(PutAnyway(r)) >>))

\* ---- dpa_inference/host -------------------------------------------------

app_open_ibv_ctx ==
    << Get("dev_list", {}),
       [Call("find device", {"dev_list"}) EXCEPT
            !.undo = << Sure(PutAnyway("dev_list")) >>],
       [Get("ibv_ctx", {}) EXCEPT !.undo = << Sure(PutAnyway("dev_list")) >>],
       Sure(PutAnyway("dev_list")) >>

\* DPA heap memory and host memory copied to it.
DpaBuffer(what) == Get(what, {"process"})
Copied(host, steps) ==
    << Get(host, {}) >> \o OrElse(steps, << Sure(PutAnyway(host)) >>)
        \o << Sure(PutAnyway(host)) >>

cq_mem_alloc(cq) ==
    << DpaBuffer(cq \o ".dbr") >>
        \o Copied(cq \o ".ring_src", << DpaBuffer(cq \o ".ring") >>)
CreateCq(cq, also) ==
    cq_mem_alloc(cq) \o << Get(cq, {cq \o ".dbr", cq \o ".ring"} \cup also) >>
sq_mem_alloc == << DpaBuffer("sq.data"), DpaBuffer("sq.ring") >>
rq_mem_alloc ==
    << DpaBuffer("rq.data"), DpaBuffer("rq.ring"), DpaBuffer("rq.dbr") >>
create_dpa_mkey(q) == << Get(q \o ".mkey", {"process", q \o ".data"}) >>

create_app_sq ==
    CreateCq("sq_cq", {}) \o sq_mem_alloc
        \o << Get("sq", {"sq_cq", "sq.ring"}) >> \o create_dpa_mkey("sq")

init_dpa_rq_ring ==
    Copied("rx_wqes", << Call("copy ring", {"rq.ring", "rq.mkey"}) >>)
init_rq_dbr == << Call("copy doorbell", {"rq.dbr"}) >>
create_app_rq ==
    CreateCq("rq_cq", {"event_handler"}) \o rq_mem_alloc
        \o create_dpa_mkey("rq") \o init_dpa_rq_ring
        \o << Get("rq", {"rq_cq", "rq.ring", "rq.dbr"}) >> \o init_rq_dbr

create_steering_rules(nic_mode) ==
    create_matcher_rx("rx_matcher")
        \o create_rule_rx_mac_match("rx_rule", "rx_matcher")
        \o IF nic_mode THEN << >>
           ELSE create_matcher_tx("tx_matcher")
                  \o create_rule_tx_fwd_to_sws_table("tx_rule_table", "tx_matcher")
                  \o create_rule_tx_fwd_to_vport("tx_rule_vport", "tx_matcher")

create_app_event_handler == << Get("event_handler", {"process"}) >>
copy_app_data_to_dpa == Copied("h2d_data", << DpaBuffer("app_data") >>)

clean_up_rules ==
    destroy_rule("rx_rule") \o destroy_matcher("rx_matcher", RxParts)
        \o destroy_rule("tx_rule_vport") \o destroy_rule("tx_rule_table")
        \o destroy_matcher("tx_matcher", TxParts)

clean_up_app_rqKeepsDbr ==
    << Put("rq"), Put("rq.mkey"), Put("rq.ring"),
       Put("rq.data"), Put("rq_cq"), Put("rq_cq.ring"), Put("rq_cq.dbr") >>
clean_up_app_rq ==
    << Put("rq"), Put("rq.mkey"), Put("rq.dbr"), Put("rq.ring"),
       Put("rq.data"), Put("rq_cq"), Put("rq_cq.ring"), Put("rq_cq.dbr") >>
clean_up_app_sq ==
    << Put("sq"), Put("sq.mkey"), Put("sq.ring"), Put("sq.data"),
       Put("sq_cq"), Put("sq_cq.ring"), Put("sq_cq.dbr") >>

\* The stream is destroyed when there is a process, and the process whether
\* there is one or not.
DestroyProcess ==
    << [Put("stream") EXCEPT !.if = {"process"}], PutAnyway("process") >>
DpaCleanUpRulesLate ==
    << Put("app_data") >> \o clean_up_app_sq \o clean_up_app_rq
        \o clean_up_rules \o << Put("event_handler") >> \o DestroyProcess
        \o << PutAnyway("ibv_ctx") >>
DpaCleanUp ==
    << Put("app_data") >> \o clean_up_rules \o clean_up_app_sq
        \o clean_up_app_rq \o << Put("event_handler") >> \o DestroyProcess
        \o << PutAnyway("ibv_ctx") >>

LoadApp ==
    << Call("flexio_version_set", {}), Call("flexio_app_get", {"ibv_ctx"}),
       Get("process", {"ibv_ctx"}), Get("stream", {"process"}) >>

\* main.  A failure of app_open_ibv_ctx returns at once.
dpa_inference_main(nic_mode) ==
    app_open_ibv_ctx
        \o OrElse(
             << Call("ibv_query_port", {"ibv_ctx"}), Call("link layer", {}) >>
               \o LoadApp \o create_app_event_handler \o create_app_sq
               \o create_app_rq \o create_steering_rules(nic_mode)
               \o copy_app_data_to_dpa
               \o << Call("flexio_event_handler_run",
                          {"event_handler", "app_data"}) >>,
             DpaCleanUp)
        \o DpaCleanUp

\* The sample it was derived from sets up and takes down the same things, line
\* for line.
packet_processor_main(nic_mode) == dpa_inference_main(nic_mode)

\* ---- flexio_rpc/host ----------------------------------------------------

RpcCleanUp ==
    DestroyProcess \o << Put("ibv_ctx"), Sure(Put("dev_list")) >>
flexio_rpc_main ==
    OrElse(<< Call("parse_rpc_sample_args", {}), Get("dev_list", {}),
              Call("find device", {"dev_list"}), Get("ibv_ctx", {}) >>
             \o LoadApp \o << Call("rpc_calculate", {"process"}) >>,
           RpcCleanUp)
        \o RpcCleanUp
===============================================================================
