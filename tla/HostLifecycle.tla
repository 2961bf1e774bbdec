----------------------------- MODULE HostLifecycle -----------------------------
(***************************************************************************)
(* Host programs from start to end, with a failure at any step of their    *)
(* set-up and of their clean-up: the order of creation and of teardown     *)
(* over all error paths.  The programs are sequences of steps (FlexioHost, *)
(* DocaHost, DpdkHost, DpdkBench, OfflineHost); this module runs them.     *)
(***************************************************************************)
EXTENDS FlexioHost, DocaHost, DpdkBench, OfflineHost

CONSTANT MaxStuck   \* bound: clean-up steps that fail in a run

\* What a step can do.
Kinds == {"get", "put", "call", "exit", "wait"}

Programs ==
    [dpa_inference        |-> dpa_inference_main(FALSE),
     dpa_inference_nic    |-> dpa_inference_main(TRUE),
     packet_processor     |-> packet_processor_main(FALSE),
     flexio_rpc           |-> flexio_rpc_main,
     pcc                  |-> pcc_main({"wait-time", "remote-sw-handler"}),
     pcc_resources        |-> pcc_main({"dpa-resources", "dpa-app-key"}),
     pcc_no_key           |-> pcc_main({"dpa-resources"}),
     ml_dpa               |-> ml_dpa_main({"threads", "coredump-file"}),
     flow_match           |-> flow_sample_main,
     classifier_ics       |->
        classifier_main("ics", << "profile", "ics-window", "log-mode" >>,
                        TRUE, TRUE, TRUE),
     classifier_doh       |->
        classifier_main("doh", << "profile", "model", "log-mode" >>,
                        FALSE, TRUE, FALSE),
     classifier_iot       |->
        classifier_main("iot", << "window", "drop-anomaly" >>,
                        TRUE, FALSE, FALSE),
     bench_modbus         |-> bench_main("mb"),
     bench_tls_appdata    |-> bench_main("tlsb"),
     bench_tcp_flow       |-> bench_main("tcpf"),
     iot_multicore        |-> iot_multicore_main,
     mlp_bench            |-> mlp_bench_main(FALSE),
     mlp_bench_xnnpack    |-> mlp_bench_main(TRUE),
     check_hardcoded      |-> check_hardcoded_main,
     x86_bench            |-> x86_bench_main,
     infer_arm64          |-> infer_arm64_main]
VARIABLES
    program,
    at,       \* <<i, 0>>: step i; <<i, j>>: step j of what step i left to run
    live,     \* resources that exist
    gone,     \* resources that existed
    handles,  \* handles the program holds; it does not clear them
    left,     \* lost, or could not be taken down
    stuck     \* number of clean-up steps that failed

vars == <<program, at, live, gone, handles, left, stuck>>

Pos == IF at[2] = 0 THEN at[1] ELSE at[2]
Further(n) == IF at[2] = 0 THEN <<at[1] + n, 0>> ELSE <<at[1], at[2] + n>>

\* The steps a program still has to do where it is.
Part(main) == IF at[2] = 0 THEN main ELSE main[at[1]].undo
From(steps) == SubSeq(steps, Pos, Len(steps))
Rest == From(Part(Programs[program]))
Ended == Rest = << >>

\* The steps left, if there are any and the first is to be done.
Handled(step) == step.if \subseteq handles
Due(does) == {todo \in {Rest} \ {<< >>} :
                 Head(todo).does \in does /\ Handled(Head(todo))}

Interrupted == program = "iot_multicore" /\ at[2] > 0

\* What a resource of the program is made of.
Made(steps, r) ==
    steps[CHOOSE i \in DOMAIN steps : steps[i].does = "get" /\ steps[i].what = r].on
Needs(r) == Made(Programs[program], r)

Init == /\ program \in DOMAIN Programs
        /\ at = <<1, 0>>
        /\ live = {} /\ gone = {} /\ handles = {} /\ left = {}
        /\ stuck = 0

\* "if (handle && ...)"
PassOver == /\ \E todo \in {Rest} \ {<< >>} : ~Handled(Head(todo))
            /\ at' = Further(1)
            /\ UNCHANGED <<program, live, gone, handles, left, stuck>>

Create == \E todo \in Due({"get"}) :
    LET step == Head(todo)
    IN  /\ live' = live \cup {step.what}
        /\ gone' = gone \ {step.what}
        /\ handles' = handles \cup step.sets
        /\ at' = Further(1)
        /\ UNCHANGED <<program, left, stuck>>

CallOther == /\ Due({"call"}) # {}
             /\ at' = Further(1)
             /\ UNCHANGED <<program, live, gone, handles, left, stuck>>

\* Destroying what was never there (a NULL handle) changes nothing.
Destroy == \E todo \in Due({"put"}) :
    LET what == Head(todo).what
    IN  /\ live' = live \ {what}
        /\ gone' = gone \cup (live \cap {what})
        /\ at' = Further(1)
        /\ UNCHANGED <<program, handles, left, stuck>>

\* The step fails and the function is left, or it fails and the code goes on.
Leave == \E todo \in Due(Kinds) :
    LET step == Head(todo)
    IN  /\ step.fails /\ step.resume = 0
        /\ at' = <<at[1], 1>>
        /\ left' = left \cup step.loses \cup (live \cap {step.what})
        /\ UNCHANGED <<program, live, gone, handles, stuck>>
GoOn == \E todo \in Due(Kinds) :
    LET step == Head(todo)
        passed == {todo[i].what : i \in 1 .. step.resume}
    IN  /\ step.fails /\ step.resume > 0
        /\ step.does = "put" => stuck < MaxStuck
        /\ stuck' = IF step.does = "put" THEN stuck + 1 ELSE stuck
        /\ left' = left \cup (live \cap passed)
        /\ at' = Further(step.resume)
        /\ UNCHANGED <<program, live, gone, handles>>

\* rte_exit: the process is gone with all that was its own.
ExitProcess == /\ Due({"exit"}) # {}
               /\ live' = {} /\ gone' = gone \cup live
               /\ at' = Further(1)
               /\ UNCHANGED <<program, handles, left, stuck>>

Finished == Ended /\ UNCHANGED vars

Next == PassOver \/ Create \/ CallOther \/ Destroy \/ Leave \/ GoOn
            \/ ExitProcess \/ Finished

Spec == Init /\ [][Next]_vars

--------------------------------------------------------------------------------
\* Over every error path: what a step is about to use exists, and what it is
\* about to take down was not taken down before (destroy_matcher after a
\* create function failed half way, pcc_destroy after pcc_init's own unwinding,
\* free_worker after init_worker's).
NothingUsedAfterItsEnd ==
    \A todo \in Due(Kinds) :
        LET step == Head(todo)
        IN  /\ step.does \in {"get", "call"} => step.on \subseteq live
            /\ step.does = "put" => step.what \notin gone

\* flexio_packet_processor_host.c:1088: "a reference system that won't allow
\* destroying resources that has references": nothing is taken down before what
\* was made of it, however far the set-up came, unless that could not be taken
\* down.  In main.c and bench_common.h: nothing is freed while an lcore still
\* runs on it.  (The prototype's signal handler, iot_multicore.c:786, does just
\* that: once it runs, the claim is about everything but the workers' loops.)
MadeOfLiveParts ==
    \A r \in live \ left :
        \/ Needs(r) \subseteq live
        \/ Interrupted /\ r \in {Loop(w) : w \in Workers}

\* A program that ends leaves behind only what it could not take down, or what
\* no one held a handle on: the parts of a matcher whose creation failed
\* (flow_steering_utils.c:134, :182), the EAL of a flow sample whose devices did
\* not come up (flow_match_comparison_main.c:95) or of a classifier asked for
\* its usage (main.c:75), and an ONNX environment without a session
\* (infer_arm64.c:181).
NothingLeftBehind == Ended => live \subseteq left
===============================================================================
