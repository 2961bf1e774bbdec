# TLA+ models of the SmartNIC traffic classifier

This directory models the programs of the repository: the DPDK application
that classifies traffic on a SmartNIC (`src/`, `include/`), the programs that run
on the card's own processors and their hosts (`flexio/`, `doca_flow/`), and the
prototypes and benchmarks beside them (`onnx/`, `offline_bench_*`). TLC checks
the models on small instances; TLAPS proves what is said in section 4 for every
instance.

Paths: `PROJECT.json` and the comments of the modules name files from the root
of a checkout kept in a directory `src`, so `src/src/worker.c` is the
repository's `src/worker.c`. The text below uses the repository's own paths.

## 1. The system

**The classifier** is one process. `main` (`src/main.c`) reads the command line,
gives one lcore to the logger and the others to workers, starts them, waits for
SIGINT or SIGTERM and for all lcores, prints a summary and frees everything. Each
worker (`src/worker.c`) polls one RX queue. For every packet it calls the profile
chosen on the command line, which parses the packet, updates the state of a flow
or sensor and, when a window is full, pushes a feature vector into a small
ring; the worker then drains the ring: it checks each vector against a
contract, runs the model, and submits a log event. The packet is then sent on or
dropped.

    NIC queue -> worker_loop -> process_packet -> flow pool / tracker
                     |               |
                     |               +-> feature queue
                     +-> drain_features <---+
                     |      +-> contract -> model -> logger_submit_prediction
                     |                                 | ring, mempool
                     +-> TX or free                    v
                                            logger_loop (own lcore) -> file

Everything a worker uses is its own, except what it shares with the logger (the
mempool of event slots, the ring, two counters) and the stop flag.

**The DPA packet processor** is an event handler on the card. Completions wake
it; it answers each frame with its MAC addresses swapped, keeps statistics of
the flow in a direct-mapped table, and scores them with a small forest. Its host
program creates the queues and rules and takes them down again.

**The ML congestion control** is called by the card for each event of a flow. It
asks for RTT samples, and on each answer a forest moves the flow's rate, between
limits. Its host program starts it and waits for a signal.

**The prototype and the benchmarks** do what the profiles do, with loops, tables
and kernels of their own.

There are three kinds of hard behaviour: long sequences of calls into the state
of one worker, where packets arrive in any order; the interleaving of workers,
logger, card and signal; and everything that has to be undone, once and in
order, when one of fifty calls at start-up fails.

| component | state | operations | what makes it correct |
|---|---|---|---|
| request tracker `modbus_tracker.c` | hash, slots, stack of free slots | add, take, init, free | a slot is free once or held by one key; a bounded map of the latest request |
| flow and sensor pool `flow_pool.c` | hash, bump index | lookup_or_alloc, del, init, free | no entry shared by two keys, none outside the array |
| feature queue `profiles.h` | ring of 64, counters | push, pop | first in first out; only a full ring drops |
| ICS profile `features_ics.c` | tracker, sensor entries, queue | requests, responses, registers | registers attributed to the right address; exact windows per sensor |
| DoH profile `features_doh.c` | flow entries, queue | records of two directions | each vector describes exactly one window of one connection |
| IoT profile `features_iot.c` | flow entries, queue | TCP packets | as DoH, with lengths and inter-arrival times |
| feature contract `feature_contract.c` | none | validate | accepts every vector a profile emits |
| logger `logger.c` | mempool, ring, counters, file | submit, loop | slots conserved; accepted events written once, in order; ends after the stop |
| worker loop `worker.c` | packets of a burst, counters | poll, process, drain, send | every packet sent or freed once |
| start-up, shutdown `main.c`, `dpdk_port.c` | lcores, queues, allocations | parse, launch, wait, free | nothing freed while used, nothing left behind |
| parser, flow key `packet_parser.c`, `common.h` | none | parse, canonicalize | both directions of a connection give one key |
| inference kernels `infer_*.c` | scratch memory | MLP, RF, BNN | the class the trained network gives, at the edges of blocks and words too |
| DPA packet processor `flexio/dpa_inference/dev` | completion, receive and send rings, flow table | handle completions | every frame answered once and in order, no mixed flows |
| hosts `flexio/*/host`, `doca_flow` | resources, handles | create, call, tear down | reverse order over every error path |
| congestion control `flexio/pcc/device` | one flow's context | events, settings | the rate stays in range and follows the vote; probes go on |
| prototype, benchmarks `onnx`, `offline_bench_*` | flow tables, windows, pending ring | packets, bursts | as the profiles, with the differences the code has |

What is hard to test in this code is listed line by line under `hazards` in
`PROJECT.json`, with the properties that would catch it.

## 2. The modules

| module | role |
|---|---|
| `PendingRequests` | abstract: a bounded map from request identifier to latest request |
| `ModbusTracker` | `modbus_tracker_add`, `_take` with every way each can end; refines `PendingRequests` |
| `FlowPool` | `flow_pool_lookup_or_alloc`, `_del` |
| `BoundedFifo` | abstract: a bounded buffer that loses what comes when it is full |
| `FeatureQueue` | `feature_queue_push`, `_pop`; refines `BoundedFifo` |
| `SensorWindows` | abstract: each sensor's readings cut into consecutive windows |
| `IcsProfile` | ICS profile composed of `ModbusTracker`, `FlowPool`, `FeatureQueue`, the contract, the worker's drain, and the Modbus clients and servers |
| `FlowKey`, `Rss` | `flow_key5_canonicalize` and the connections; which queue a packet goes to |
| `RecordWindow`, `PacketWindow` | what one window accumulates: TLS records (DoH, `bench_tls_appdata`), TCP packets (IoT, `bench_tcp_flow`, `iot_multicore`), their vectors and contracts |
| `FlowProfiles` | the five programs that keep windows of flows, composed of the above with `FlowPool` and `FeatureQueue` |
| `BenchModbus` | the offline Modbus benchmark: ring of pending requests, sensors with a state across windows |
| `Worker` | burst loops: classifier, benchmarks, prototype |
| `AsyncLog` | workers submitting, the logger lcore, the stop signal |
| `Kernels` | MLP (scalar, NEON, AVX2, XNNPACK, hard-coded), BNN and forest, with the layouts the exporters write |
| `FlowTrack` | the DPA's flow table and its forest |
| `DpaProcessor` | the DPA event handler against the card: completion queues, receive and send rings |
| `CcForest`, `MlCc` | the congestion control's forest and fixed-point product; the control of one flow |
| `HostSteps` | what set-up and clean-up functions are made of |
| `FlexioHost`, `DocaHost`, `DpdkHost`, `DpdkBench`, `OfflineHost` | one definition per C function of the host programs |
| `HostLifecycle` | runs those programs, with a failure at any step |
| `StoreProofs`, `ModbusTrackerProofs`, `IcsProfileProofs`, `FlowProfilesProofs`, `AsyncLogProofs` | theorems and proofs of the module they extend (`StoreProofs`: pool and queue) |
| `DataPathProofs` | those of `Worker`, `BenchModbus` and `Kernels`: the loops over bursts, and the kernels |
| `DeviceProofs` | those of `DpaProcessor` and `MlCc`, the two programs on the card |
| `DataLemmas` | lemmas about sequences, sets, sums and division that they share |
| `MC*` | instances for TLC |

How they correspond to the code:

* **Pieces are instantiated, not copied.** The profiles hold the variables of
  the tracker, pool and queue and call `Tracker!Add(k, a)`, `Pool!Alloc(k)`,
  `Queue!Push(x)`: an action of the profile is the whole handler, including the
  calls it makes. `FlowProfiles` has a variable `program` that says whose code
  runs; what the five do differently (key, table, direction, when a window is
  full, what a refused connection does) is in definitions by program.
* **`pc` is the position of a worker.** A worker is one thread and its state is
  its own, so a packet is handled in steps with nothing in between: a request or
  record is one step, a response one step per register, a drained vector one
  step; in `Worker`, where that is abstracted to a verdict, a packet is one
  step. In `AsyncLog` each access to shared state is a step: taking a slot,
  filling it and enqueueing, putting it back, loading and storing a counter. In
  `DpaProcessor` each part of the handler that the card can see, or that sees
  the card, is a step: polling, answering, arming.
* **A failed hash insertion is possible at any time.** `rte_hash` may refuse a
  key before it holds its nominal number, so `AddRejected` and `NoEntry` are
  always possible for a new key.
* **Host programs are sequences of steps.** A C function is the sequence of its
  calls, each with what it creates, what that is made of, and what is left to
  run when it fails; `HostLifecycle` executes a program step by step and lets any
  step fail. The functions keep their names and their nesting.
* **Numbers.** Sums, counts, weights and delays are exact integers and ratios
  are kept as their two terms. The code's comparisons of minimum, mean and
  maximum survive its rounding to float, which is monotone; its tolerance for
  the range is modelled as it stands, and a mean is finite unless it is divided by
  0. A register is 16 bits and read as signed or as the low half of a pair; the
  range of a window is an `int32_t` and wraps. Completion and ring indices, `abort_cnt`, timestamps and
  delays wrap at a named width.
* **Packets a parser refuses** change nothing and are the stutter `Idle`.
* **History variables** (`asked`, `confused`, `completed`, `seen`, `due`,
  `accepted`, `refused`, `vote`, `answers`, `known`, `received`, `tracked` and
  the like) record what happened for the properties; apart from the bounds, no
  guard of the program reads them. `asked` also is the network: an answer exists
  only for a request that was sent on.
* **External parts.** `rte_ring` and `rte_mempool` operations are atomic. A ring
  created with `n` entries, a power of two, holds `n - 1`; the mempool is first
  in first out. RSS is a hash of the key the port was configured with, modulo
  two queues. The card writes completions with the owner bit of their turn, fires
  an armed queue when there is something past the index it was armed with, and
  sends in order.

## 3. What each run checks

| run | instance | what it shows |
|---|---|---|
| `tracker` | 4 keys, 3 slots, 2 contents | `SlotsPartitioned`; refinement of the bounded map |
| `flow_pool` | 5 keys, 4 entries | `OneKeyPerEntry` with refused insertions and deletions (no profile deletes yet) |
| `ics` | 2 transaction ids, addresses 0 and 2 of 3, registers 0 and 40000, up to 2 of them, 1 tracker slot, queue of 1, 2 sensors, a configured window longer than the array, a model of 16 inputs, a clock that stands still, goes on and goes back, 6 packets | `AttributionRight`, `KeepsSensorWindows`, `QueueIsFifo`, `DropsOnlyInLongResponse`, `ContractNeverRejects`, `HandlerReturns` |
| `flows` | 5 programs, connections among 3 endpoints, one inside a host, one with port 443 on both sides, some steered to the other queue; lengths 0 and 7, or 40 and 60; gaps 0 and 3; windows of 2; 2 entries; 5 packets | `VectorsExact`, `ContractNeverRejects` |
| `doh_default_window` | `--window 0`, one connection, 16 packets | finding: the contract rejects the profile's own vectors |
| `worker` | 4 loops, 3 buffers, bursts of 2, TX room 2, 5 packets, drops allowed | `MbufsConserved`, `ForwardedInOrder`, `BurstReturns` |
| `async_log` | 2 workers, 4 slots, ring of 3, batch of 2, 5 events | `SlotsConserved`, `FileFollowsSubmissions`, `CountersNeverExceed`, `LeavesAtMostOneBurst`, `StopEndsAll` |
| `dpa` | rings of 2, indices that wrap after 4, 2 flow indices, two flows that share one, a counter limit of 3, 5 frames | `AnswersInOrder`, `EveryFrameAnswered`, `FlowsNeverMix`, `FlagsLargeStarts` |
| `ml_cc` | a clock of 22 bits, counts that wrap after 8, 2 settings, 4 forests (the code's, two constant ones out of range, one that loops), 2 answers | `RateFollowsVote`, `SafetyNetHolds`, `ProbesGoOn`, rate never 0 (`CcTypeOK`) |
| `hosts` | 21 programs, 2 workers, 2 failing destructions | `NothingUsedAfterItsEnd`, `MadeOfLiveParts`, `NothingLeftBehind` |
| `kernels` | words of 2 bits, vectors of 2 lanes, layers of 1 to 17 neurons, every kernel, vectors of 1 to 3 numbers in a row on one scratch memory | `VerdictIsTrained`, `StaysInScratch` |
| `bench_modbus` | 1 identifier asked for 2 start addresses, in any order and number, a ring of 2, windows of 2, 2 entries, registers 0 and 65535, 5 readings | `AttributionRight`, `StateCoversHistory` |

The properties, and what they mean for the code:

* `SlotsPartitioned`: no sequence of adds, refused adds and takes shares a slot,
  frees it twice or loses it. `RefinesPendingRequests`: a take returns the last
  request stored under the identifier, once; only new identifiers are refused.
* `AttributionRight` (ICS): however late, repeated or malformed responses are,
  the registers are read at the start address of the request they answer, unless
  an identifier was reused for another address while its first answer could
  still come. The exception is real: the key leaves the connection out
  (`modbus_tracker.h`), so the property names it instead of hiding it.
* `AttributionRight` (benchmark) has a wider exception. `modbus_tracker_add`
  replaces the pending request of an identifier, so that in the classifier an
  unanswered request does no harm once a newer one is there. `add_pending` looks
  for none: a request that was lost or answered by an exception keeps its place
  in the ring, `find_pending` takes the first match, not the newest, and a later
  response is read under the old address. The property therefore excludes that
  an identifier is reused for another address while an earlier request with it
  can still be answered, or is unanswered and one of the last `MB_PENDING_CAP`.
  What is left is everything else: several places with one identifier and one
  address, taken in the order of places and not of age, a ring that wraps, and
  responses that are late, repeated, malformed or without a request. Clients
  number their requests as they like.
* `KeepsSensorWindows`: a refinement; a sensor's windows are consecutive,
  complete and its own, although entries and buffers are reused in place.
  `StateCoversHistory`: the benchmark's EWMA and mean describe all readings of
  the sensor, across windows: what a vector is compared with is the state the
  window before it left, which the run reaches.
* `DropsOnlyInLongResponse`: with the drain after each packet, a vector is lost
  only inside a response with more registers than the queue has places. (A
  Modbus response has at most 127 registers and the queue 64 places, and with a
  window of 2 or with 65 sensors completing together the code does lose some.)
* `VectorsExact`: each vector equals a reference computed from the list of
  packets since the last vector of the same connection, by the definition of the
  program whose vector it is. Gaps count only between packets of one window.
* `ContractNeverRejects`: contract and profile agree. For the ICS profile that is
  every condition of `validate_ics`: sixteen features, minimum, mean and
  maximum finite and in order for the readings and for the times between them, none of
  those below zero although the clock may go back, the range within its
  tolerance although it is an `int32_t`, and an alert of 0 or 1. A vector that
  `model_prepare_input` refuses is counted as well; it takes each one if the model
  has 16 inputs, or more and padding is on. (With fewer inputs and padding on the
  start-up check, `main.c:96`, lets the program start, and every vector is then
  refused.) For the other profiles it includes the switches of direction.
* `MbufsConserved`: a buffer is in the pool, a NIC queue or the worker's hands,
  once, with drops between kept packets and any partial transmit.
  `ForwardedInOrder`: what is sent keeps its order. `BurstReturns`: every buffer
  of a burst returns, also when the stop signal comes inside the burst.
* `SlotsConserved`, `FileFollowsSubmissions`: with any interleaving of workers
  and logger a slot has one holder, and the file gets each accepted event once
  and in order.
* `LeavesAtMostOneBurst`: the logger may end before a worker's last burst is
  over; this bounds what is not written. `CountersNeverExceed`: the two counters
  are incremented without synchronisation and lose updates, but never exceed.
* `AnswersInOrder`: what the DPA has posted and not sent, with what it has
  received and not answered, is a first-in first-out buffer of the answers that
  are due: a stale completion, a completion taken twice or a buffer reused early
  would break it. `EveryFrameAnswered`: a frame that comes between the last poll
  and the arming, or before the handler is started, does not wait for the next
  one.
* `FlowsNeverMix`: an entry of the flow table describes exactly the frames of
  one flow since it took the entry. `FlagsLargeStarts`: the forest's verdict on
  such a flow's first frame.
* `RateFollowsVote`, `SafetyNetHolds`: whatever forest is built in, votes out of
  range and loops included, the rate moves in the direction of the vote, at most
  doubles, and is not raised through a delay above `MAX_DELAY`. `ProbesGoOn`:
  lost requests and answers never stop the RTT samples.
* `NothingUsedAfterItsEnd`, `MadeOfLiveParts`, `NothingLeftBehind`: over every
  error path nothing is used or destroyed after its end, nothing is taken down
  under what was made of it, and what a program leaves behind is what it could
  not take down or had lost the handle of. The comments of the properties name
  the lines that lose one.
* `VerdictIsTrained`: each kernel gives the class of the network the exporter
  was given, whatever the previous prediction left in the scratch memory, with
  padded vectors too; `StaysInScratch`: no layer writes past the memory.
* `StopEndsAll`, `HandlerReturns`: shutdown completes; a packet's handling ends.

**Bounds.** `MaxPackets`, `MaxFrames`, `MaxEvents`, `MaxAnswers` and `MaxStuck`
bound the runs; they are named in the guards and chosen so that every pool,
ring and window overflows, empties and is reused: 6 packets in `ics` are three
pairs of request and response, which complete a sensor's first window, begin its
second and drop part of a response; 5 in `flows` complete two windows of a flow,
so that what a reset forgets shows in the second, with another flow's packet
between them; 5 readings in `bench_modbus` complete two windows of a sensor while
another has a reading, and its two places and one identifier let the ring hold
two matches of one response, for the same address or for two; 5 in `worker` reuse every buffer; 5 events of two workers fill a
ring of 3 and empty a pool of 4 slots with two in flight; 5 frames wrap the rings
of `dpa` twice and its indices once; two answers in `ml_cc` make the second see
everything the first left, between any number of other events. In `hosts` a
program runs from start to end, so only the number of failing destructions is
bounded: two are enough for one to fail while another is already lost.
`AddrSpace` 3 makes addresses wrap inside one response.

**Fairness.** `IcsProfile` assumes weak fairness of the handler: the worker owns
its lcore and runs to the end of a packet. `AsyncLog` assumes weak fairness of
each worker and of the logger, each on its own lcore. `Worker` assumes it of the
worker and of the NIC sending what was queued; `DpaProcessor` of the handler, of
the card's sending and firing, and of the host starting the handler; `MlCc` of a
flow that goes on sending, at every point of the clock's turn and not only at
some. Nothing is assumed of packets, of servers, of RTT answers or of the
signal: they may never come.

**Assumptions about the surroundings.** `SenderKeepsUp` (`DpaProcessor`): the
card has sent a frame before its buffer's turn comes again; the code never looks
at send completions, and without the assumption a slow sender has frames
overwritten. Times between events of a flow below the clock's turn. Delays below
2^31 in `SafetyNetHolds`, and `MAX_DELAY` below 2^31 in `RateFollowsVote`.
Lcore numbers from 0 without gaps in the prototype and benchmarks, as their
arrays need.

**Deadlock** is checked in every run; the ends of the models (`Idle`, `End`,
`Finished`) are explicit stuttering steps, where the program really polls or has
ended.

**Mutants.** Operators whose comment starts with "Wrong:" are plausible bugs of
the operator they precede (a slot not put back, a missing reset, an unlimited
window, a teardown in another order). `PROJECT.json` lists which property
refutes each; the specifications do not use them.

### Finding

With `--window 0` the DoH profile uses windows of 16 (`features_doh.c:54`), but
`classify_feature` (`worker.c:50-52`) validates against the configured 0, and
`validate_doh` requires the record count to equal it
(`feature_contract.c:33`). Run `doh_default_window` ends with the first vector
rejected; in such a run no vector ever reaches the model.

### Seen while modelling

Differences and weak spots that no run is about; the models do what the code
does.

* `flexio/dpa_inference`'s README says the payload text is changed; the code only
  swaps the MAC addresses. `flexio/packet_processor` does change the text, of
  65-byte packets.
* `ml_cc_model.h:53` describes the first feature as `rtt - min_rtt`; the code
  uses the whole `rtt` when it is below `min_rtt`. `cnp_streak` is reset by a
  NACK only. The safety net compares signed numbers: a delay of 2^31 ns or more
  escapes it, and a `MAX_DELAY` of 2^31 or more, which registration allows,
  fires it on every answer.
* `flow_ml_model.h:63-81`: the comments on the leaves of the second and fourth
  tree do not describe the branches that lead to them ("large delta" is reached
  with one below 800, "established flow" with fewer than three packets). The first
  tree calls a frame large from 1200 bytes on, but the forest flags it from 1500
  on (`FlagsLargeStarts`).
* `export_forest.py:64` rounds thresholds of a forest that goes left on `<=`,
  while the device goes left on `<`: a deployed forest can differ from the
  trained one.
* `train_export_hardcoded.py:246`: with more than 128 inputs and an odd number of
  vectors the generated loop reads past the input (`LoopFits` excludes it).
  `mlp_generated.h` holds unresolved merge-conflict markers.
* The prototype's `fast_sigmoid` is not monotone, so the class it picks can
  differ from the class of highest score; `Kernels` models what it picks. The
  hard-coded forest in C takes a majority where the training library averages.
* `iot_multicore.c` builds its vector one packet before its comment says
  (`:531`), takes lengths without swapping bytes, sees time only with hardware
  timestamps, keeps the directions of a connection apart under the default RSS
  key, and its signal handler closes the ports under the running workers.
* Hosts: `flexio_packet_processor_host.c:1122-1128` destroys the stream and the
  process also when they were never made; `flow_steering_utils.c:134`, `:182`
  lose the parts of a matcher; `flow_match_comparison_main.c:95` leaves the EAL
  when a device does not come up; `pcc.c:161` clears the stop flag after the
  handler is installed, so that an early SIGINT is lost; `main.c:148` exits
  while the logger runs; `main.c:75` (`--help`) and `infer_arm64.c:181` return
  without releasing what they hold.
* `main.c`: with no lcore to spare the log ring exists but nothing is logged;
  `dpdk_port.c:28` sets up fewer queues than workers without telling them.

## 4. What is proved

TLAPS checks the following for all values of the constants.

* `ModbusTrackerProofs`: `TypeCorrect`, `SlotsArePartitioned`,
  `ImplementsPendingRequests`. `SlotsPartitioned` is not inductive alone: take
  pushes the slot only if the stack is below the capacity, and nothing in the
  partition excludes a full stack beside a live key without counting. The
  invariant `PartitionInv` adds `SlotsCounted`: live keys and free slots add up
  to the capacity. The refinement needs one thing more, `LiveWritten`: a live
  key's slot holds a request, so that the abstract map's open keys are the live
  ones. Each operation is then shown to be one operation of the map
  (`AddAgainStores`, `AddNewStores`, `TakeFoundTakes`, `RefusalsRefuse`).
  Assumption: the capacity is positive, and no request equals "no request".
* `StoreProofs`, the two stores of a profile. The pool: `PoolTypeCorrect`,
  `EntriesNotShared`; all numbers in use are below the bump index, which is part
  of `TypeOK` and makes the second inductive. The ring of vectors:
  `RingTypeCorrect`, `RingImplementsFifo`, `RingHolds`, for every size above zero.
  `RingInv` adds that tail and head are `count` places apart; the lemmas on
  positions modulo the size (`WrapOnce`, `RingPlacesDistinct`) carry the two
  simulations `StorePuts` and `PopGets`.
* `AsyncLogProofs`: `TypeInvariant`, `EverySlotInOnePlace`, `CountersClaimNoMore`,
  `FileKeepsOrder`, `OneBurstLeft`, for any finite set of workers, ring, burst and
  batch: every safety property the run checks.
  `Placed` says that mempool, ring and batch repeat nothing, share nothing with
  each other or with a worker, and cover all slots; `SlotsConserved` counts, and
  `Placed` gives it its counts of one. `Counted` makes the counters inductive: a
  counter, and also every copy a worker has loaded, stays below the number of
  events by at least the number of workers that still have to store. `Faithful`
  says place by place that what is due is what the queued slots hold; it needs
  `Placed`, by which a worker writes only to slots that are not queued. `OneBurst`
  bounds together what a worker has in the ring once the logger has ended, the
  event in its hands, and what its burst may still give.
* `DataPathProofs`, the loop: `TypeInvariant`, `EveryBufferHeldOnce`, `OrderIsKept`,
  for all buffers, burst sizes and TX rooms. `Placed` is as above, with the part of the
  burst not yet decided as one holder. `InLine` says that TX queue, kept
  packets, undecided packets and RX queue are one line in order of arrival, and
  that what arrives comes last.
  The benchmark: `BenchAttribution`, for every size of the ring, any clients and
  any numbering of their requests. `StandsFor` assigns to each valid place of
  the ring one of the last `PendingCap` requests that is unanswered, has its
  identifier and start address, and is no older than the place; no request is
  assigned to two places. Which request that is may change: a response takes the
  first match and the reference takes the oldest unanswered request, so the
  assignment exchanges the two (`ResponseKeepsRing`). `OneStart` says that while
  no identifier was reused too early, the unanswered requests of an identifier
  and those that can still be answered have one start address; so whichever place
  is found, its address is right. `BenchStateCovers`, for every
  window, pool, register content and number of readings: `Describes` says of an
  entry in the middle of a window what the property says of a vector, so that it
  is inductive; `FilledDescribes` is the step that ends a window, with the mean
  as a fraction (`MeanOfAll`) and the sum of a sequence as a sum over its places
  (`SumOfSeq`, `SumJoined`). That two sensors share no entry (`OwnEntry`) keeps
  the others' entries as they are.
  The kernels: `WritesStayInScratch`, `LayersStayApart`, `VerdictAsTrained`, for
  any number and sizes of layers, any weights, trees, words, vectors and previous
  content of the memory, and for all kernels. `KernelInv` says of the middle of a
  prediction what the verdict says at its end: the cells of the one buffer hold
  what this layer reads, those of the other its outputs so far
  (`MlpInv`, `BnnInv`), and the two share no cell (`Apart`). An output is the
  trained network's by three arguments: the layouts give each weight the place
  the kernel looks at (`WeightsInRows`, `WeightsInTiles`, with `TilesApart`), the
  scaling in the weights of the first layer and the one in its bias make up for
  each other (`OutputIsTrained`), and a word of a BNN counts each place once, tail
  bits left out (`WordsCount`, `WordAgreeing`, `ScoreIsTrained`). What the
  recursive functions compute - the layers, the loop over scores, the walk through
  a tree - is an induction of its own each (`ActExists`, `BestExists`,
  `WalkExists`, `ReachedExists`). A tree's walk ends at the leaf the trained tree
  gives because each node it visits is reached, and no other leaf is
  (`WalkEndsAtLeaf`). Assumption (`KernelAssumption`): the models are well formed
  - weights and biases have the sizes of their layers, a tree's children stand
  behind their parents and no deeper than `RF_MAX_DEPTH` - and the generated loop
  over wide inputs ends inside them (`LoopFits`, section 3).
* `IcsProfileProofs`: `TypeCorrect`, `AttributionIsRight`,
  `ImplementsSensorWindows`, `QueueImplementsFifo`, `DropsAreInLongResponses`,
  `ContractRejectsNone`: every safety property of the ICS run, for any window,
  capacities, contents of registers and lengths of responses. The proof is put
  together from its parts: the tracker's, pool's and queue's modules of proofs
  are instantiated with the profile's variables, and every step of the profile is
  shown to be a step of each part or to leave it alone (`TrackerSteps`,
  `PoolSteps`, `EntriesSteps`), so that their invariants hold inside the profile.
  Four things are added. `EntriesOK`: write index and count of a sensor are one
  number, so the index stays inside `readings[]` and the open window is the first
  `sample_count` readings. `RightSoFar`: unless an identifier was reused, what
  the tracker has stored for a key is the start address of every request of that
  key that can still be answered. `QueueRoom`: while a response is read the queue
  holds no more vectors than registers were read, for it was empty before. The
  contract needs that the least and the greatest reading, and interval, exist and
  bound the mean (`OrderStatistics`, `WindowStatistics`), that the times of a run
  are bounded (`BoundedTimes`), and that two readings of 16 bits are so close that
  the range does not wrap (`FeaturesValid`). `ContractRejectsNone` holds for every
  sequence of clock values and for either alert.
  Assumptions: capacities are positive, `readings[]` has two places or more,
  registers are below 2^16, and "none" is not an address.
* `FlowProfilesProofs`: `WindowsExact`, `ContractAccepts`, `BothDirectionsMeet`,
  for any set of connections, sizes of table and queue, windows, lengths and
  number of packets, and for all five programs. The invariant says what an entry
  holds: for every flow with an entry, the fields are the count, sums, extremes
  and switches of the packets the flow had since its last vector (`RecordsFit`,
  `PacketsFit`), which are fewer than a window, or the entry is a prototype's that
  has given its vector (`EntriesOK`). Updating an entry and appending its packet
  to that list keep this so (`RecordsMore`, `PacketsMore`); the references of
  `VectorsExact` are sums over sets of places in the list, which is what the
  lemmas on sums are for. Entry and list belong together because a flow has one
  entry (`OneEach`: an entry handed out is a new one, by the bump index or, in
  `bench_tls_appdata`, by the order of its free list, `FreeListOK`) and one queue:
  the prototype keeps
  directions apart, and for the others `StreamTogether` needs that both
  directions of a connection reach one worker. That is `BothDirectionsMeet`, a
  theorem about `Rss`: the key repeats every 16 bits, so that exchanging addresses
  and ports permutes the input bits that meet a set key bit, and the number of
  those decides the queue. The ring between profile and worker is taken from
  `StoreProofs`. The contract needs three bounds: a sum between as many times its
  extremes (`BytesBetween`, `WaitsBetween`), the bytes of one direction below those
  of both, and fewer switches than packets, counted by the last direction
  (`SwitchesFit`). `ContractAccepts` has one hypothesis, that the window of the
  DoH profile is not configured as 0; run `doh_default_window` shows that without
  it the statement is false. Assumptions: lengths are 16 bits, and a run is not so
  long that a gap reaches the mark for "no gap yet".
* `DeviceProofs`, the programs on the card, one after the other.
  The packet processor: `TypeCorrect`, `RepliesInOrder`, for every depth of the
  rings, every width of the counters that is a multiple of two rounds (the code
  has powers of two), any frames and any number of them. The program keeps only
  counters that wrap; the invariant says that there are three numbers without end,
  r received, c reached by the handler and t sent, of which the counters are the
  remainders (`Counted`), and it bounds their distances, so that the remainders
  tell them apart (`CounterGap`, `SlotsApart`). `Owned` says why no completion is
  read twice: each slot still to be written carries the owner of the round before.
  `Held` says that a buffer is not written again before it was copied, nor a copy
  before it was sent. The replies under way are then those to the frames t to
  r - 1 (`LineIs`), and every step appends one, takes the first or changes none.
  The theorem stands under `SenderKeepsUp`, as the model does (section 3).
  Its flow table: `FlowsApart` (`FlowsNeverMix`), `LargeStartsFlagged`
  (`FlagsLargeStarts`), `AverageInWord`. `FlowInv` says of each entry what it is
  given the places of its frames (`EntryIs`): one of nothing, or the flow of the
  last of them, with number, last size and average of the last run of frames of
  that flow. A frame of the same flow lengthens that run (`EntryContinues`), any
  other starts one (`EntryRestarts`), and frames elsewhere leave it alone
  (`EntryStays`); that both directions have one canonical form, and only they, is
  `OneForm`. The average is a fold over a set of places, so that its value is an
  induction over their number (`EwmaAgrees`, `EwmaAdds`). The verdict is proved
  for every feature vector, not by trying sizes: `NodeVotes` unrolls the walk of
  a tree, `FirstTree` to `FourthTree` say what each votes, and `Verdict` adds them.
  `AverageInWord` is why the model may leave out a cut to 32 bits
  (`flow_track.h:167`): frames have at most the 2048 bytes of a receive buffer.
  The congestion control: `TypeInvariant` (`CcTypeOK`: the rate is never 0 again),
  `VoteIsFollowed`, `NetHolds`. Hypothesis `VotesAreNumbers`: every forest
  gives an integer for integer features; nothing else is assumed of it. `VoteIsFollowed` adds that
  each `MAX_DELAY` is below 2^31 and `NetHolds` that delays are, as said in
  section 3. `CcInv` adds to `CcTypeOK` that parameters and forest are fixed. The
  argument is one lemma about the rate a vote gives: limiting the vote first,
  then the product, keeps the rate between floor and twice its value.
* `DataLemmas`: what appending, taking, cutting and joining do to the elements
  of a queue, to its having no repetition, and to its order; that a bounded set
  of integers has the least and the greatest element `Min` and `Max` name; and
  that a sum over a finite set does not depend on the order (`SumAnyOrder`), gains
  the summand that is added (`SumAdd`) and lies between as many times its bounds; that
  quotient and remainder are unique (`DivModIs`).
  These are inductions on the size of the set; they are made from the least
  element of a set of counterexamples (`Smallest`, from the well-foundedness of
  `<`), since the library's induction theorems take an operator, which the installed provers
  cannot instantiate.

Only model-checked: the hosts, and all liveness (out of the prover's reach), with
its fairness. The hosts' properties quantify over the programs' lists of steps,
which the runs go through one by one.

## 5. Not modelled, and why

* Option values and their parsing (an option is a step that can be refused),
  printed text, file format, cycle counters and latency statistics: input and
  output without control.
* The floating-point statistics of the ICS profile that are kept across windows
  or fitted (EWMA, CUSUM, slope, trend). The contract reads one
  thing of them, the alert flag, which is left open: it may be 0 or 1 in any
  vector.
* Rounding, NaN and the order of additions in the kernels; the x86 XNNPACK kernel
  is a placeholder that returns 0. The headers of exported weights
  (`mlp_hardcoded.h`, `mlp_flow_model.h`, `mlp_generated.h`, 6,343 lines) are
  data: the kernels are modelled for any weights.
* `flexio/packet_processor`'s device handler and `flexio/ml_dpa`'s device code,
  which repeat `dpa_inference` (without the flow table) and `pcc`.
* `TCPF_WINDOW_MODE` 0 of `bench_tcp_flow.c`, which is not the default.
* Wrap of 16 and 32 bit packet counts over the life of a flow
  (`iot_multicore.c`, `total_samples` of `bench_modbus.c`).
* Training, notebooks, plots, shell and build scripts.

## 6. What could follow

A run for the exporter's rounding of thresholds against the device's comparison;
one of `ics` long enough for a sensor's second vector, which is now a matter of
the theorems alone.
