------------------------------ MODULE AsyncLog ------------------------------
(***************************************************************************)
(* The asynchronous prediction log (src/src/logger.c) between the workers  *)
(* that submit events (submit_log in src/src/worker.c) and the logger      *)
(* lcore that writes them, until the stop flag ends both.                  *)
(*                                                                         *)
(* Workers and logger run in parallel on lcores of their own.  Every       *)
(* access to what they share is a step: the mempool of event slots, the    *)
(* ring, the stop flag and the two counters.  The counters are plain       *)
(* uint64_t that all workers increment, so a load and a store are two      *)
(* steps.  rte_ring and rte_mempool operations are atomic.                 *)
(***************************************************************************)
EXTENDS Integers, Sequences, FiniteSets, FiniteSetsExt

CONSTANTS Workers,
          LogRingSize, \* --log-ring
          Burst,       \* most events one burst of packets gives a worker
          BatchSize,   \* most events the logger dequeues at a time, 64
          MaxEvents,   \* bound: events submitted in a run, by all workers
          NoSlot       \* a worker holds no slot

ASSUME AsyncLogAssumption ==
    /\ IsFiniteSet(Workers)
    /\ LogRingSize \in Nat \ {0} /\ NoSlot \notin Nat
    /\ Burst \in Nat \ {0} /\ BatchSize \in Nat \ {0} /\ MaxEvents \in Nat

VARIABLES
    stop,        \* g_stop
    pc,          \* worker -> where it is
    left,        \* worker -> events its current burst may still give
    events,      \* worker -> events it has submitted, its next one's number
    held,        \* worker -> the slot it took from the pool, or NoSlot
    loaded,      \* worker -> the counter value it is about to add one to
    pool,        \* free slots of lg->pool: a queue, as it is created without a cache
    content,     \* slot in use -> event copied into it
    ring,        \* lg->ring, slots in order
    submitted, dropped,   \* lg->submitted, lg->dropped
    logger,      \* where the logger is
    batch,       \* slots dequeued, not yet written
    file,        \* the last event written
    due,         \* events enqueued and not yet written, in order
    accepted, refused     \* how many events were enqueued, how many were not

workerVars == <<pc, left, events, held, loaded>>
\* Read by the properties only.
history == <<due, accepted, refused>>
vars == <<stop, workerVars, pool, content, ring, submitted, dropped,
          logger, batch, file, history>>

\* A ring created with log_ring_size entries holds one less.
RingRoom == LogRingSize - 1

\* The elements of log_pool.
Slots == 0 .. LogRingSize - 1

Events == Workers \X Nat

NoEvent == <<>>

MoreEvents == MapThenSumSet(LAMBDA w : events[w], Workers) < MaxEvents

Init ==
    /\ stop = FALSE
    /\ pc = [w \in Workers |-> "poll"]
    /\ left = [w \in Workers |-> 0]
    /\ events = [w \in Workers |-> 0]
    /\ held = [w \in Workers |-> NoSlot]
    /\ loaded = [w \in Workers |-> 0]
    /\ pool = [j \in 1 .. LogRingSize |-> j - 1]
    /\ content = [s \in Slots |-> NoEvent]
    /\ ring = <<>>
    /\ submitted = 0 /\ dropped = 0
    /\ logger = "start" /\ batch = <<>> /\ file = NoEvent
    /\ due = <<>> /\ accepted = 0 /\ refused = 0

\* signal_handler
Stop == /\ ~stop
        /\ stop' = TRUE
        /\ UNCHANGED <<workerVars, pool, content, ring, submitted, dropped, logger,
                       batch, file, history>>

-----------------------------------------------------------------------------
(* A worker *)

At(w, here) == pc[w] = here
Goto(w, there) == pc' = [pc EXCEPT ![w] = there]

\* worker_loop looks at the stop flag between bursts only.  A burst that
\* gives no event changes nothing here.
Poll(w) ==
    /\ At(w, "poll")
    /\ IF stop
         THEN Goto(w, "done") /\ UNCHANGED left
         ELSE /\ MoreEvents
              /\ Goto(w, "burst")
              /\ \E n \in 1 .. Burst : left' = [left EXCEPT ![w] = n]
    /\ UNCHANGED <<stop, events, held, loaded, pool, content, ring, submitted,
                   dropped, logger, batch, file, history>>

\* Wrong: the stop flag is not looked at after a burst with events.
EndBurstUnchecked(w) ==
    /\ At(w, "burst")
    /\ left[w] = 0 \/ ~MoreEvents
    /\ IF MoreEvents
         THEN left' = [left EXCEPT ![w] = Burst] /\ UNCHANGED pc
         ELSE left' = [left EXCEPT ![w] = 0] /\ Goto(w, "poll")
    /\ UNCHANGED <<stop, events, held, loaded, pool, content, ring, submitted,
                   dropped, logger, batch, file, history>>

EndBurst(w) ==
    /\ At(w, "burst")
    /\ left[w] = 0 \/ ~MoreEvents
    /\ Goto(w, "poll")
    /\ left' = [left EXCEPT ![w] = 0]
    /\ UNCHANGED <<stop, events, held, loaded, pool, content, ring, submitted,
                   dropped, logger, batch, file, history>>

\* logger_submit_prediction: rte_mempool_get.
GetSlot(w) ==
    /\ At(w, "burst")
    /\ left[w] > 0 /\ MoreEvents
    /\ left' = [left EXCEPT ![w] = @ - 1]
    /\ events' = [events EXCEPT ![w] = @ + 1]
    /\ IF pool = <<>>
         THEN /\ Goto(w, "load_dropped")
              /\ refused' = refused + 1
              /\ UNCHANGED <<held, pool>>
         ELSE /\ Goto(w, "enqueue")
              /\ held' = [held EXCEPT ![w] = Head(pool)]
              /\ pool' = Tail(pool)
              /\ UNCHANGED refused
    /\ UNCHANGED <<stop, loaded, content, ring, submitted, dropped, logger, batch,
                   file, due, accepted>>

\* The event is copied into the slot, then rte_ring_enqueue.
Enqueue(w) ==
    /\ At(w, "enqueue")
    /\ content' = [content EXCEPT ![held[w]] = <<w, events[w]>>]
    /\ IF Len(ring) < RingRoom
         THEN /\ ring' = Append(ring, held[w])
              /\ held' = [held EXCEPT ![w] = NoSlot]
              /\ due' = Append(due, <<w, events[w]>>)
              /\ accepted' = accepted + 1
              /\ Goto(w, "load_submitted")
         ELSE /\ Goto(w, "put_back")
              /\ UNCHANGED <<ring, held, due, accepted>>
    /\ UNCHANGED <<stop, left, events, loaded, pool, submitted, dropped, logger,
                   batch, file, refused>>

\* Wrong: the slot of a refused event is not put back.
PutBackForgotten(w) ==
    /\ At(w, "put_back")
    /\ held' = [held EXCEPT ![w] = NoSlot]
    /\ refused' = refused + 1
    /\ Goto(w, "load_dropped")
    /\ UNCHANGED <<stop, left, events, loaded, pool, content, ring, submitted,
                   dropped, logger, batch, file, due, accepted>>

\* Wrong: a refused event is counted as submitted.
PutBackMiscounted(w) ==
    /\ At(w, "put_back")
    /\ pool' = Append(pool, held[w])
    /\ content' = [content EXCEPT ![held[w]] = NoEvent]
    /\ held' = [held EXCEPT ![w] = NoSlot]
    /\ refused' = refused + 1
    /\ Goto(w, "load_submitted")
    /\ UNCHANGED <<stop, left, events, loaded, ring, submitted, dropped,
                   logger, batch, file, due, accepted>>

PutBack(w) ==
    /\ At(w, "put_back")
    /\ pool' = Append(pool, held[w])
    /\ content' = [content EXCEPT ![held[w]] = NoEvent]
    /\ held' = [held EXCEPT ![w] = NoSlot]
    /\ refused' = refused + 1
    /\ Goto(w, "load_dropped")
    /\ UNCHANGED <<stop, left, events, loaded, ring, submitted, dropped,
                   logger, batch, file, due,
                   accepted>>

\* lg->submitted++ and lg->dropped++
Load(w) ==
    /\ \/ At(w, "load_submitted") /\ Goto(w, "store_submitted")
          /\ loaded' = [loaded EXCEPT ![w] = submitted]
       \/ At(w, "load_dropped") /\ Goto(w, "store_dropped")
          /\ loaded' = [loaded EXCEPT ![w] = dropped]
    /\ UNCHANGED <<stop, left, events, held, pool, content, ring, submitted,
                   dropped, logger, batch, file, history>>

Store(w) ==
    /\ \/ At(w, "store_submitted") /\ submitted' = loaded[w] + 1 /\ UNCHANGED dropped
       \/ At(w, "store_dropped") /\ dropped' = loaded[w] + 1 /\ UNCHANGED submitted
    /\ loaded' = [loaded EXCEPT ![w] = 0]
    /\ Goto(w, "burst")
    /\ UNCHANGED <<stop, left, events, held, pool, content, ring, logger,
                   batch, file, history>>

Work(w) == \/ Poll(w) \/ EndBurst(w) \/ GetSlot(w) \/ Enqueue(w) \/ PutBack(w)
           \/ Load(w) \/ Store(w)

-----------------------------------------------------------------------------
(* logger_loop *)

\* When the file cannot be opened the logger returns and nobody empties the
\* ring.
Open == /\ logger = "start"
        /\ logger' \in {"loop", "no_file"}
        /\ UNCHANGED <<stop, workerVars, pool, content, ring, submitted, dropped,
                       batch, file, history>>

\* Wrong: the whole ring is dequeued into events[64].
DequeueAll ==
    /\ logger = "loop"
    /\ ring # <<>>
    /\ batch' = ring /\ ring' = <<>>
    /\ logger' = "write"
    /\ UNCHANGED <<stop, workerVars, pool, content, submitted, dropped, file,
                   history>>

\* Until the stop flag is seen on an empty ring.  An empty ring before that
\* is polled again.
Dequeue ==
    /\ logger = "loop"
    /\ ring # <<>>
    /\ LET n == IF Len(ring) < BatchSize THEN Len(ring) ELSE BatchSize
       IN  /\ batch' = SubSeq(ring, 1, n)
           /\ ring' = SubSeq(ring, n + 1, Len(ring))
    /\ logger' = "write"
    /\ UNCHANGED <<stop, workerVars, pool, content, submitted, dropped, file,
                   history>>

\* Wrong: the batch is written from its end.
WriteBackwards ==
    LET last == batch[Len(batch)]
    IN  /\ logger = "write"
        /\ file' = content[last]
        /\ due' = Tail(due)
        /\ pool' = Append(pool, last)
        /\ content' = [content EXCEPT ![last] = NoEvent]
        /\ batch' = SubSeq(batch, 1, Len(batch) - 1)
        /\ logger' = IF Len(batch) = 1 THEN "loop" ELSE "write"
        /\ UNCHANGED <<stop, workerVars, ring, submitted, dropped, accepted, refused>>

\* write_event, then rte_mempool_put.  What a free slot holds is no matter.
Write ==
    /\ logger = "write"
    /\ file' = content[Head(batch)]
    /\ due' = Tail(due)
    /\ pool' = Append(pool, Head(batch))
    /\ content' = [content EXCEPT ![Head(batch)] = NoEvent]
    /\ batch' = Tail(batch)
    /\ logger' = IF Len(batch) = 1 THEN "loop" ELSE "write"
    /\ UNCHANGED <<stop, workerVars, ring, submitted, dropped, accepted,
                   refused>>

\* Wrong: the logger waits until all that was counted is written.
CloseByCount ==
    /\ logger = "loop"
    /\ stop /\ ring = <<>> /\ submitted = accepted
    /\ logger' = "done"
    /\ UNCHANGED <<stop, workerVars, pool, content, ring, submitted, dropped, batch,
                   file, history>>

Close ==
    /\ logger = "loop"
    /\ stop /\ ring = <<>>
    /\ logger' = "done"
    /\ UNCHANGED <<stop, workerVars, pool, content, ring, submitted, dropped, batch,
                   file, history>>

Logger == Open \/ Dequeue \/ Write \/ Close

-----------------------------------------------------------------------------
Finished == /\ logger \in {"done", "no_file"}
            /\ \A w \in Workers : At(w, "done")

\* rte_eal_mp_wait_lcore returns; main prints its summary and ends.
End == Finished /\ UNCHANGED vars

Next == Stop \/ (\E w \in Workers : Work(w)) \/ Logger \/ End

\* Workers and logger own their lcores; nothing forces a signal to come.
Spec == /\ Init /\ [][Next]_vars
        /\ \A w \in Workers : WF_vars(Work(w))
        /\ WF_vars(Logger)

-----------------------------------------------------------------------------
\* The events in the logger's hands and in the ring, oldest first.
Waiting == LET q == batch \o ring IN [j \in DOMAIN q |-> content[q[j]]]

\* Type invariant: what is shared holds slots and events of the right kind,
\* and the ring never more than it has room for.
TypeOK ==
    /\ stop \in BOOLEAN
    /\ held \in [Workers -> Slots \cup {NoSlot}]
    /\ pool \in Seq(Slots)
    /\ content \in [Slots -> Events \cup {NoEvent}]
    /\ ring \in Seq(Slots) /\ Len(ring) <= RingRoom
    /\ batch \in Seq(Slots) /\ Len(batch) <= BatchSize
    /\ file \in Events \cup {NoEvent}
    /\ submitted \in Nat /\ dropped \in Nat

(***************************************************************************)
(* Safety: a slot is in one place only - free, with one worker, in the     *)
(* ring or with the logger - and in some place always: no interleaving of  *)
(* submitters and logger hands a slot to two users or loses one            *)
(* (rte_mempool_get and _put in logger_submit_prediction, logger_loop).    *)
(***************************************************************************)
SlotsConserved ==
    LET shared == pool \o ring \o batch
    IN  \A s \in Slots :
          Cardinality({j \in DOMAIN shared : shared[j] = s})
            + Cardinality({w \in Workers : held[w] = s}) = 1

(***************************************************************************)
(* Safety: the events whose submission succeeded are written in the order  *)
(* they were enqueued, and until then wait unaltered in their slots: none  *)
(* is overwritten, written twice or passed over, none that was refused is  *)
(* written.                                                                *)
(***************************************************************************)
FileFollowsSubmissions ==
    /\ [](due = Waiting)
    /\ [][file' # file => file' = Head(due)]_vars

(***************************************************************************)
(* Safety: the two statistics may lose updates, being incremented by       *)
(* several workers without synchronisation, but never claim more than      *)
(* happened (lg->submitted++, lg->dropped++).                              *)
(***************************************************************************)
CountersNeverExceed == submitted <= accepted /\ dropped <= refused

(***************************************************************************)
(* Safety: the logger may end while a worker is still in its last burst;   *)
(* what it leaves unwritten is at most one burst of each worker            *)
(* (loop condition of logger_loop, stop check of worker_loop).             *)
(***************************************************************************)
LeavesAtMostOneBurst ==
    logger = "done" =>
        \A w \in Workers :
            Cardinality({j \in DOMAIN ring : content[ring[j]][1] = w}) <= Burst

(***************************************************************************)
(* Liveness: after the stop signal every worker and the logger end, so     *)
(* that main gets past rte_eal_mp_wait_lcore.                              *)
(***************************************************************************)
StopEndsAll == stop ~> Finished
=============================================================================
