------------------------------- MODULE Worker -------------------------------
(***************************************************************************)
(* One worker's loop over bursts and the packet buffers it shares with its *)
(* NIC queue: received into buffers of the pool, kept or dropped one by    *)
(* one, sent together, and returned to the pool by whoever is last to hold *)
(* them.  The loop is worker_loop of the classifier (src/src/worker.c),    *)
(* the benchmarks' (bench_lcore_main, and the copy of it in bench_main     *)
(* that watches the time), or the prototype's lcore_main.                  *)
(*                                                                         *)
(* What they do with a packet is in IcsProfile, FlowProfiles and           *)
(* BenchModbus; here it is a verdict.                                      *)
(***************************************************************************)
EXTENDS Integers, Sequences, FiniteSets, SequencesExt

CONSTANTS Programs,      \* "classifier", "bench" (forwarding), "bench_drop"
                         \* or "prototype"
          Mbufs,         \* the buffers of pools[i]
          BurstSize,     \* APP_DEFAULT_BURST, BENCH_BURST_SIZE: the length of bufs
          TxRoom,        \* descriptors of the TX queue
          DropAnomaly,   \* --drop-anomaly
          MaxPackets     \* bound: packets that arrive in a run

ASSUME WorkerAssumption ==
    /\ IsFiniteSet(Mbufs)
    /\ BurstSize \in Nat \ {0} /\ TxRoom \in Nat \ {0}
    /\ DropAnomaly \in BOOLEAN /\ MaxPackets \in Nat

VARIABLES
    program,
    stop,      \* g_stop, bench_force_quit
    pc,        \* "poll", "packet" or "done"
    bufs,      \* the burst
    i,         \* packets of the burst processed
    tx_bufs,   \* packets of the burst to be sent
    pool,      \* free buffers
    rx_queue, tx_queue,                          \* the NIC's two queues
    rx_packets, tx_packets, dropped_packets,     \* the worker's counters
    arrival    \* buffer -> how many packets came before its packet; read by
               \* the properties only

vars == <<program, stop, pc, bufs, i, tx_bufs, pool, rx_queue, tx_queue, rx_packets,
          tx_packets, dropped_packets, arrival>>
counters == <<rx_packets, tx_packets, dropped_packets>>
nic == <<pool, rx_queue, tx_queue, arrival>>
local == <<pc, bufs, i, tx_bufs, counters>>

Arrived == LET seen == {arrival[m] : m \in Mbufs} \cup {0}
           IN  CHOOSE n \in seen : \A x \in seen : x <= n

Init ==
    /\ program \in Programs
    /\ stop = FALSE
    /\ pc = "poll" /\ bufs = <<>> /\ i = 0 /\ tx_bufs = <<>>
    /\ pool = Mbufs /\ rx_queue = <<>> /\ tx_queue = <<>>
    /\ rx_packets = 0 /\ tx_packets = 0 /\ dropped_packets = 0
    /\ arrival = [m \in Mbufs |-> 0]

-----------------------------------------------------------------------------
(* The NIC, the network and the operator *)

\* A packet is received into a free buffer; without one the NIC loses it.
Arrive(m) ==
    /\ Arrived < MaxPackets
    /\ m \in pool
    /\ pool' = pool \ {m}
    /\ rx_queue' = Append(rx_queue, m)
    /\ arrival' = [arrival EXCEPT ![m] = Arrived + 1]
    /\ UNCHANGED <<program, stop, local, tx_queue>>

\* A packet has left; its buffer is free again.
Transmit ==
    /\ tx_queue # <<>>
    /\ pool' = pool \cup {Head(tx_queue)}
    /\ tx_queue' = Tail(tx_queue)
    /\ UNCHANGED <<program, stop, local, rx_queue, arrival>>

\* signal_handler, bench_sig_handler, or the main lcore's deadline.  The
\* prototype's handler ends the process instead.
Stop == /\ ~stop
        /\ program # "prototype"
        /\ stop' = TRUE
        /\ UNCHANGED <<program, local, nic>>

-----------------------------------------------------------------------------
(* worker_loop, bench_lcore_main, lcore_main *)

Leave ==
    /\ pc = "poll"
    /\ stop
    /\ pc' = "done"
    /\ UNCHANGED <<program, stop, bufs, i, tx_bufs, counters, nic>>

\* bench_main's own loop, when -d was given, ends by itself and tells the others.
Deadline ==
    /\ pc = "poll"
    /\ program \in {"bench", "bench_drop"}
    /\ stop' = TRUE
    /\ pc' = "done"
    /\ UNCHANGED <<program, bufs, i, tx_bufs, counters, nic>>

\* Wrong: the burst is as long as the RX queue.
TakeAll ==
    /\ bufs' = rx_queue /\ rx_queue' = <<>>
    /\ rx_packets' = rx_packets + Len(rx_queue)

\* rte_eth_rx_burst
TakeBurst ==
    \E n \in 1 .. BurstSize :
        /\ n <= Len(rx_queue)
        /\ bufs' = SubSeq(rx_queue, 1, n)
        /\ rx_queue' = SubSeq(rx_queue, n + 1, Len(rx_queue))
        /\ rx_packets' = rx_packets + n

Poll ==
    /\ pc = "poll"
    /\ ~stop
    /\ rx_queue # <<>>
    /\ TakeBurst
    /\ pc' = "packet"
    /\ UNCHANGED <<program, stop, i, tx_bufs, tx_packets, dropped_packets, pool, tx_queue,
                   arrival>>

\* A packet of the burst has been processed.
Decide == pc = "packet" /\ i < Len(bufs) /\ i' = i + 1

\* Wrong: a dropped packet is queued for sending too.
DropFallsThrough ==
    /\ Decide
    /\ program = "classifier" /\ DropAnomaly
    /\ pool' = pool \cup {bufs[i + 1]}
    /\ dropped_packets' = dropped_packets + 1
    /\ tx_bufs' = Append(tx_bufs, bufs[i + 1])
    /\ UNCHANGED <<program, stop, pc, bufs, rx_packets, tx_packets, rx_queue, tx_queue,
                   arrival>>

\* A vector this packet completed was predicted anomalous.
Drop ==
    /\ Decide
    /\ program = "classifier" /\ DropAnomaly
    /\ pool' = pool \cup {bufs[i + 1]}
    /\ dropped_packets' = dropped_packets + 1
    /\ UNCHANGED <<program, stop, pc, bufs, tx_bufs, rx_packets, tx_packets, rx_queue,
                   tx_queue, arrival>>

\* Wrong: packets are collected from the end of tx_bufs.
KeepInFront ==
    /\ Decide
    /\ tx_bufs' = <<bufs[i + 1]>> \o tx_bufs
    /\ UNCHANGED <<program, stop, pc, bufs, counters, nic>>

Keep ==
    /\ Decide
    /\ tx_bufs' = Append(tx_bufs, bufs[i + 1])
    /\ UNCHANGED <<program, stop, pc, bufs, counters, nic>>

\* Only the classifier counts what it does not send.
Lost(n) == dropped_packets' =
    IF program = "classifier" THEN dropped_packets + n ELSE dropped_packets

\* Wrong: the packets the TX queue did not take are counted, not freed.
DiscardKeeps(rest) ==
    /\ Lost(Len(rest))
    /\ UNCHANGED pool

\* The packets the TX queue did not take are freed.
Discard(rest) ==
    /\ pool' = pool \cup ToSet(rest)
    /\ Lost(Len(rest))

\* rte_eth_tx_burst takes as many packets as it has room for, or fewer; with
\* tx_bufs empty it is not called.
Send ==
    /\ pc = "packet"
    /\ i = Len(bufs)
    /\ program # "bench_drop"
    /\ \E nb_tx \in 0 .. Len(tx_bufs) :
          /\ Len(tx_queue) + nb_tx <= TxRoom
          /\ tx_queue' = tx_queue \o SubSeq(tx_bufs, 1, nb_tx)
          /\ tx_packets' = tx_packets + nb_tx
          /\ Discard(SubSeq(tx_bufs, nb_tx + 1, Len(tx_bufs)))
    /\ pc' = "poll"
    /\ bufs' = <<>> /\ i' = 0 /\ tx_bufs' = <<>>
    /\ UNCHANGED <<program, stop, rx_packets, rx_queue, arrival>>

\* -f 0: the burst is freed.
FreeBurst ==
    /\ pc = "packet"
    /\ i = Len(bufs)
    /\ program = "bench_drop"
    /\ Discard(tx_bufs)
    /\ pc' = "poll"
    /\ bufs' = <<>> /\ i' = 0 /\ tx_bufs' = <<>>
    /\ UNCHANGED <<program, stop, rx_packets, tx_packets, rx_queue, tx_queue, arrival>>

Work == Leave \/ Poll \/ Drop \/ Keep \/ Send \/ FreeBurst

\* Polling an empty queue, or the lcore after its return.
Idle == pc \in {"poll", "done"} /\ UNCHANGED vars

Next == \/ \E m \in Mbufs : Arrive(m)
        \/ Transmit \/ Stop \/ Deadline \/ Work \/ Idle

\* The worker owns its lcore, and the NIC sends what it was given.
Spec == Init /\ [][Next]_vars /\ WF_vars(Work) /\ WF_vars(Transmit)

-----------------------------------------------------------------------------
\* The buffers of the burst the worker has still to decide on.
Undecided == {bufs[j] : j \in i + 1 .. Len(bufs)}

(***************************************************************************)
(* Type invariant: a burst fits bufs and tx_bufs, and the TX queue is      *)
(* never given more than it has room for.                                  *)
(***************************************************************************)
TypeOK ==
    /\ pc \in {"poll", "packet", "done"}
    /\ bufs \in Seq(Mbufs) /\ Len(bufs) <= BurstSize
    /\ tx_bufs \in Seq(Mbufs) /\ Len(tx_bufs) <= i
    /\ i \in 0 .. Len(bufs)
    /\ pool \subseteq Mbufs
    /\ Len(tx_queue) <= TxRoom

(***************************************************************************)
(* Safety: every buffer has one holder - the pool, a NIC queue or the      *)
(* worker - and the worker holds it once: none is freed twice, sent after  *)
(* it was freed, or lost, whatever the verdicts and however much of a      *)
(* burst is sent (worker_loop).                                            *)
(***************************************************************************)
MbufsConserved ==
    LET Held(q, m) == Cardinality({j \in DOMAIN q : q[j] = m})
    IN  \A m \in Mbufs :
          Held(rx_queue, m) + Held(tx_queue, m) + Held(tx_bufs, m)
            + Held(SubSeq(bufs, i + 1, Len(bufs)), m)
            + (IF m \in pool THEN 1 ELSE 0) = 1

(***************************************************************************)
(* Safety: packets leave in the order they arrived, with or without some   *)
(* dropped between them.                                                   *)
(***************************************************************************)
ForwardedInOrder ==
    \A j, k \in DOMAIN tx_queue :
        j < k => arrival[tx_queue[j]] < arrival[tx_queue[k]]

(***************************************************************************)
(* Liveness: a buffer the worker holds comes back to the pool, stop signal *)
(* or not: a burst under way is completed (the stop flag is looked at      *)
(* between bursts only).                                                   *)
(***************************************************************************)
BurstReturns ==
    \A m \in Mbufs : (m \in Undecided \cup ToSet(tx_bufs)) ~> (m \in pool)
=============================================================================
