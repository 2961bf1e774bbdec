---------------------------- MODULE DpaProcessor ----------------------------
(***************************************************************************)
(* The packet processor that runs on the NIC's data path accelerator       *)
(* (src/flexio/dpa_inference/dev with src/flexio/common/dev/com_dev.c) and *)
(* the NIC it shares its rings with.  A received frame is a completion in  *)
(* the RQ's CQ; the handler answers each frame with its MAC addresses      *)
(* swapped, and counts the frames the forest finds anomalous.              *)
(*                                                                         *)
(* Counters that both sides compare are kept modulo Width.                 *)
(***************************************************************************)
EXTENDS FlowTrack, SequencesExt

CONSTANTS Frames,        \* [src, dst, proto, ihl, size]: what may arrive
          FlowIndices,   \* 0 .. FLOW_TABLE_MASK
          FlowIndex(_),  \* flow_track_hash
          Depth,         \* Q_DEPTH, of the CQ, the RQ, the SQ and its data
          Width,         \* 2^32, or 2^16 for the RQ doorbell
          MaxFrames      \* bound: frames that arrive in a run

ASSUME DpaAssumption ==
    /\ Depth \in Nat \ {0} /\ Width \in Nat
    /\ \E k \in 1 .. Width : Width = 2 * Depth * k
    /\ MaxFrames \in Nat

\* A frame fits its receive buffer of Q_DATA_ENTRY_BSIZE bytes.
MaxSize == 2048

ASSUME FlowAssumption ==
    /\ Frames \subseteq [src : Nat, dst : Nat, proto : Nat, ihl : 0 .. 60,
                        size : 0 .. MaxSize]
    /\ \A f \in Frames : FlowIndex(Canonical(f)) \in FlowIndices
    /\ MaxCount \in Nat \ {0}

NoFrame == [src |-> 0, dst |-> 0, proto |-> 0, ihl |-> 0, size |-> 0]
Slots == 0 .. Depth - 1
Counters == 0 .. Width - 1
Up(n) == (n + 1) % Width
Gap(a, b) == (a - b) % Width

VARIABLES
    received,        \* completions the NIC has written
    sent,            \* send WQEs the NIC has executed
    cqe,             \* slot -> [owner, wqe_counter]
    rq_data, rq_pi,  \* receive buffers, receive doorbell
    cq_ci,           \* CQ doorbell
    armed,           \* the next completion triggers the handler
    event,           \* the handler is to be activated
    running,         \* the host has called flexio_event_handler_run
    pc,              \* "off", "poll", "process", "ring", "refill",
                     \* "step" or "arm"
    not_first_run,
    cq_idx, cq_hw_owner_bit,
    tx_buff_idx, sq_wqe, sq_pi,
    sq_ring,         \* send WQE -> its data entry
    sq_data,         \* [frame, swapped]
    flow_table, anomaly_count,
    tracked          \* the frames tracked, in order; read by properties only

nic == <<received, sent>>
rq == <<cqe, rq_data, rq_pi, cq_ci>>
wake == <<armed, event, running>>
dpa == <<not_first_run, cq_idx, cq_hw_owner_bit>>
sq == <<tx_buff_idx, sq_wqe, sq_pi, sq_ring, sq_data>>
ml == <<flow_table, anomaly_count, tracked>>
vars == <<nic, rq, wake, pc, dpa, sq, ml>>

\* What the host wrote to the rings: no completion is the handler's, and every
\* receive WQE is the NIC's.
CqMemory == /\ cqe = [s \in Slots |-> [owner |-> 1, wqe_counter |-> 0]]
            /\ cq_ci = 0
RqPosted == rq_pi = Depth

Init ==
    /\ CqMemory /\ RqPosted
    /\ received = 0 /\ sent = 0
    /\ rq_data = [s \in Slots |-> NoFrame]
    /\ armed = TRUE /\ event = FALSE /\ running = FALSE
    /\ pc = "off"
    /\ not_first_run = FALSE
    /\ cq_idx = 0 /\ cq_hw_owner_bit = 0
    /\ tx_buff_idx = 0 /\ sq_wqe = 0 /\ sq_pi = 0
    /\ sq_ring = [s \in Slots |-> 0]
    /\ sq_data = [s \in Slots |-> [frame |-> NoFrame, swapped |-> FALSE]]
    /\ flow_table = [i \in FlowIndices |-> NoEntry]
    /\ anomaly_count = 0
    /\ tracked = <<>>

-----------------------------------------------------------------------------
(* The NIC, and the host's start *)

\* A completion of an armed CQ triggers.
Notify == /\ armed' = FALSE
          /\ event' = (event \/ armed)

Pass(n) == (n \div Depth) % 2

\* A frame arrives while a receive WQE is posted.
Receive(f) ==
    /\ Len(tracked) + Gap(received, sq_wqe) < MaxFrames
    /\ received # rq_pi
    /\ rq_data' = [rq_data EXCEPT ![received % Depth] = f]
    /\ cqe' = [cqe EXCEPT ![received % Depth] =
                  [owner |-> Pass(received), wqe_counter |-> received]]
    /\ received' = Up(received)
    /\ Notify
    /\ UNCHANGED <<sent, rq_pi, cq_ci, running, pc, dpa, sq, ml>>

\* The oldest send WQE is executed.
Transmit ==
    /\ sent # sq_pi
    /\ sent' = Up(sent)
    /\ UNCHANGED <<received, rq, wake, pc, dpa, sq, ml>>

\* flexio_event_handler_run; steering already brings frames.
HostRun ==
    /\ ~running
    /\ running' = TRUE
    /\ UNCHANGED <<nic, rq, armed, event, pc, dpa, sq, ml>>

-----------------------------------------------------------------------------
(* flexio_pp_dev *)

\* com_cq_ctx_init
CqContext == cq_idx' = 0 /\ cq_hw_owner_bit' = 1

\* app_ctx_init; sq_pi keeps the zero of static memory.
Initialised ==
    /\ not_first_run' = TRUE
    /\ CqContext
    /\ tx_buff_idx' = 0 /\ sq_wqe' = 0
    /\ flow_table' = [i \in FlowIndices |-> NoEntry]
    /\ anomaly_count' = 0
    /\ UNCHANGED <<sq_pi, sq_ring, sq_data, tracked>>

\* The first activation initialises the contexts.
Activate ==
    /\ pc = "off" /\ event /\ running
    /\ event' = FALSE
    /\ pc' = "poll"
    /\ IF not_first_run THEN UNCHANGED <<dpa, sq, ml>> ELSE Initialised
    /\ UNCHANGED <<nic, rq, armed, running>>

Completed == cqe[cq_idx % Depth].owner # cq_hw_owner_bit

Poll ==
    /\ pc = "poll"
    /\ pc' = IF Completed THEN "process" ELSE "arm"
    /\ UNCHANGED <<nic, rq, wake, dpa, sq, ml>>

\* Wrong: the CQ is armed one past the consumer index.
ArmPastEnd ==
    /\ pc = "arm"
    /\ IF received # cq_idx /\ received # Up(cq_idx)
       THEN event' = TRUE /\ UNCHANGED armed
       ELSE armed' = TRUE /\ UNCHANGED event
    /\ pc' = "off"
    /\ UNCHANGED <<nic, rq, running, dpa, sq, ml>>

\* Arm the CQ and reschedule; a completion that came after the last poll
\* triggers at once.
Arm ==
    /\ pc = "arm"
    /\ IF received # cq_idx
       THEN event' = TRUE /\ UNCHANGED armed
       ELSE armed' = TRUE /\ UNCHANGED event
    /\ pc' = "off"
    /\ UNCHANGED <<nic, rq, running, dpa, sq, ml>>

\* flow_track_update and the forest's verdict.
Track(f) ==
    LET flow == Canonical(f)
        i == FlowIndex(flow)
        entry == Looked(flow_table[i], flow, f.size)
    IN  /\ flow_table' = [flow_table EXCEPT ![i] = After(entry, f.size)]
        /\ anomaly_count' = anomaly_count +
               (IF Anomalous(Features(entry, f.size)) THEN 1 ELSE 0)
        /\ tracked' = Append(tracked, f)

swap_macs(f) == [frame |-> f, swapped |-> TRUE]

\* get_next_dte and get_next_sqe; a WQE is four segments.
DataEntry == tx_buff_idx % Depth
SendWqe == sq_wqe % Depth

\* process_packet up to the doorbell: the frame is copied to the next data
\* entry, tracked, its MAC addresses swapped, and a send WQE written.
Process ==
    /\ pc = "process"
    /\ LET f == rq_data[cqe[cq_idx % Depth].wqe_counter % Depth]
       IN  /\ sq_data' = [sq_data EXCEPT ![DataEntry] = swap_macs(f)]
           /\ IF Parses(f) THEN Track(f)
              ELSE /\ tracked' = Append(tracked, f)
                   /\ UNCHANGED <<flow_table, anomaly_count>>
    /\ sq_ring' = [sq_ring EXCEPT ![SendWqe] = DataEntry]
    /\ tx_buff_idx' = Up(tx_buff_idx)
    /\ sq_wqe' = Up(sq_wqe)
    /\ pc' = "ring"
    /\ UNCHANGED <<nic, rq, wake, dpa, sq_pi>>

\* Send doorbell
Ring ==
    /\ pc = "ring"
    /\ sq_pi' = Up(sq_pi)
    /\ pc' = "refill"
    /\ UNCHANGED <<nic, rq, wake, dpa, tx_buff_idx, sq_wqe, sq_ring, sq_data, ml>>

\* Wrong: the doorbell counts segments of 16 bytes, two for an entry.
RefillTwo ==
    /\ pc = "refill"
    /\ rq_pi' = Up(Up(rq_pi))
    /\ pc' = "step"
    /\ UNCHANGED <<nic, cqe, rq_data, cq_ci, wake, dpa, sq, ml>>

\* Receive doorbell: the frame's buffer is the NIC's again.
Refill ==
    /\ pc = "refill"
    /\ rq_pi' = Up(rq_pi)
    /\ pc' = "step"
    /\ UNCHANGED <<nic, cqe, rq_data, cq_ci, wake, dpa, sq, ml>>

\* Wrong: the owner bit flips one entry late.
StepFlipsLate ==
    /\ pc = "step"
    /\ cq_idx' = Up(cq_idx)
    /\ cq_hw_owner_bit' = IF cq_idx % Depth = 0
                          THEN 1 - cq_hw_owner_bit ELSE cq_hw_owner_bit
    /\ cq_ci' = Up(cq_idx)
    /\ pc' = "poll"
    /\ UNCHANGED <<nic, cqe, rq_data, rq_pi, wake, not_first_run, sq, ml>>

\* com_step_cq
Step ==
    /\ pc = "step"
    /\ cq_idx' = Up(cq_idx)
    /\ cq_hw_owner_bit' = IF cq_idx' % Depth = 0
                          THEN 1 - cq_hw_owner_bit ELSE cq_hw_owner_bit
    /\ cq_ci' = Up(cq_idx)
    /\ pc' = "poll"
    /\ UNCHANGED <<nic, cqe, rq_data, rq_pi, wake, not_first_run, sq, ml>>

Handler == Activate \/ Poll \/ Arm \/ Process \/ Ring \/ Refill \/ Step

\* The handler never looks at send completions.  Its data entries and send
\* WQEs are reused Depth frames later, and the model follows the program only
\* while the NIC has sent them by then.
SenderKeepsUp == pc = "process" => Gap(sq_wqe, sent) < Depth

\* Nothing arrives for the rest of the run, and all is answered.
Quiet == /\ Len(tracked) = MaxFrames /\ pc = "off" /\ sent = sq_pi
         /\ UNCHANGED vars

Next == \/ \E f \in Frames : Receive(f)
        \/ Transmit \/ HostRun
        \/ Handler /\ SenderKeepsUp
        \/ Quiet

\* The DPA's thread and the NIC go on, and the host gets to its last call.
Spec == /\ Init /\ [][Next]_vars
        /\ WF_vars(Handler /\ SenderKeepsUp)
        /\ WF_vars(Transmit) /\ WF_vars(HostRun)

-----------------------------------------------------------------------------
(***************************************************************************)
(* Type invariant: the NIC never has more receive WQEs than there are, and *)
(* is never more than one completion past a CQ as full as its doorbell     *)
(* says (process_packet refills the RQ before com_step_cq frees the        *)
(* completion).                                                            *)
(***************************************************************************)
TypeOK ==
    /\ {received, sent, rq_pi, cq_ci, cq_idx, tx_buff_idx, sq_wqe, sq_pi}
           \subseteq Counters
    /\ cqe \in [Slots -> [owner : {0, 1}, wqe_counter : Counters]]
    /\ cq_hw_owner_bit \in {0, 1}
    /\ pc \in {"off", "poll", "process", "ring", "refill", "step", "arm"}
    /\ {armed, event, running, not_first_run} \subseteq BOOLEAN
    /\ sq_ring \in [Slots -> Slots]
    /\ Gap(rq_pi, received) <= Depth
    /\ Gap(received, cq_ci) <= Depth + 1

(***************************************************************************)
(* Refinement: NIC and handler together are a first-in first-out line of   *)
(* replies.  Each frame is answered once, in the order of arrival, with    *)
(* its own bytes and swapped addresses: no stale completion is taken for a *)
(* new one when an index wraps, and no frame is overwritten before it was  *)
(* copied, or its copy before it was sent (flexio_pp_dev, process_packet). *)
(***************************************************************************)
Replies == [frame : Frames, swapped : {TRUE}]

Pending == [k \in 1 .. Gap(received, sq_pi) |->
               [frame |-> rq_data[(sq_pi + k - 1) % Depth], swapped |-> TRUE]]

Posted == [k \in 1 .. Gap(sq_pi, sent) |->
               sq_data[sq_ring[(sent + k - 1) % Depth]]]

Line == INSTANCE BoundedFifo WITH Items <- Replies, Size <- 2 * Depth,
                                  buffer <- Posted \o Pending, lost <- 0

AnswersInOrder == Line!Spec

(***************************************************************************)
(* Liveness: the n-th frame the NIC receives is answered.  One that comes  *)
(* between the last poll and the arming, or before the host has started    *)
(* the handler, is not left until the next one comes (flexio_pp_dev).      *)
(***************************************************************************)
Arrived == Len(tracked) + Gap(received, sq_wqe)
Answered == Len(tracked) - Gap(sq_wqe, sent)

EveryFrameAnswered == \A n \in 1 .. MaxFrames : Arrived >= n ~> Answered >= n

-----------------------------------------------------------------------------
(* The flows, from the frames alone *)

SameFlow(f, g) == {f.src, f.dst} = {g.src, g.dst} /\ f.proto = g.proto

Place(f) == FlowIndex(IF f.src <= f.dst THEN <<f.src, f.dst, f.proto>>
                                        ELSE <<f.dst, f.src, f.proto>>)

\* Which of the frames were tracked at index i.
At(frames, i) == {n \in DOMAIN frames : Parses(frames[n]) /\ Place(frames[n]) = i}

\* The last of some frames that are all of one flow.
LastEpisode(frames, ns) ==
    {n \in ns : \A m \in ns : m >= n => SameFlow(frames[m], frames[Max(ns)])}

\* The average of their sizes, in order.
Ewma(frames, ns) ==
    MapThenFoldSet(LAMBDA size, e : (Fxp(size) + 3 * e) \div 4,
                   Fxp(frames[Min(ns)].size), LAMBDA n : frames[n].size, Max, ns)

(***************************************************************************)
(* Safety: an entry describes the frames of exactly one flow since that    *)
(* flow last took the entry, both directions together; nothing of an       *)
(* evicted flow is left in it (flow_track_update).                         *)
(***************************************************************************)
FlowsNeverMix ==
    \A i \in FlowIndices :
        LET ns == At(tracked, i)
            last == LastEpisode(tracked, ns)
        IN  IF ns = {} THEN flow_table[i] = NoEntry
            ELSE /\ flow_table[i].pkt_count = (IF Cardinality(last) < MaxCount
                                               THEN Cardinality(last) ELSE MaxCount)
                 /\ flow_table[i].last_size = tracked[Max(ns)].size
                 /\ flow_table[i].ewma_size = Ewma(tracked, last)

(***************************************************************************)
(* Action property: the forest counts exactly the frames of 1500 bytes and *)
(* more with which tracking of a flow starts, whatever came before: a flow *)
(* under way is never flagged, and one that was evicted is flagged again   *)
(* (flow_ml_forest_infer over the features of flow_track_update).          *)
(***************************************************************************)
StartsLarge(f, before) ==
    LET ns == At(before, Place(f))
    IN  /\ Parses(f) /\ f.size >= 1500
        /\ ns = {} \/ ~SameFlow(before[Max(ns)], f)

FlagsLargeStarts ==
    [][tracked' # tracked =>
          (anomaly_count' > anomaly_count <=> StartsLarge(Last(tracked'), tracked))]_vars
=============================================================================
