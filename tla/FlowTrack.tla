----------------------------- MODULE FlowTrack -----------------------------
(***************************************************************************)
(* The flow table of the DPA packet processor and its anomaly score        *)
(* (flow_track.h and flow_ml_model.h in src/flexio/dpa_inference/dev): a   *)
(* direct-mapped table, one entry per index, where a flow that meets       *)
(* another one's entry restarts it.                                        *)
(*                                                                         *)
(* An endpoint (address, port) is a number: both are compared, address     *)
(* first, as one.                                                          *)
(***************************************************************************)
EXTENDS Integers, Sequences

CONSTANT MaxCount        \* UINT16_MAX, where pkt_count saturates

Fxp(n) == n * 65536       \* << 16

\* Headers flow_track_parse_5tuple accepts: IPv4, TCP or UDP, and behind an IP
\* header of ihl bytes, options included, both ports captured.  proto is 0 for
\* what is not IPv4.
Parses(frame) == /\ frame.proto \in {6, 17}
                 /\ frame.ihl >= 20 /\ frame.size >= 14 + frame.ihl + 4

\* The canonical form in which both directions are one flow.
Canonical(frame) == IF frame.src > frame.dst
                    THEN <<frame.dst, frame.src, frame.proto>>
                    ELSE <<frame.src, frame.dst, frame.proto>>

NoEntry == [flow |-> <<>>, pkt_count |-> 0, last_size |-> 0, ewma_size |-> 0]

Fresh(flow, size) == [flow |-> flow, pkt_count |-> 0, last_size |-> size,
                      ewma_size |-> Fxp(size)]

\* Wrong: a colliding flow takes over the entry with its history.
Inherited(entry, flow, size) ==
    IF entry.flow = <<>> THEN Fresh(flow, size) ELSE [entry EXCEPT !.flow = flow]

\* The entry a packet of flow finds: its own, or a restarted one.
Looked(entry, flow, size) ==
    IF entry.flow # flow THEN Fresh(flow, size) ELSE entry

Abs(n) == IF n < 0 THEN -n ELSE n

Features(entry, size) ==
    [PKT_SIZE   |-> size,
     PKT_COUNT  |-> IF entry.pkt_count > 255 THEN 255 ELSE entry.pkt_count,
     EWMA_SIZE  |-> entry.ewma_size,
     SIZE_DELTA |-> Abs(size - entry.last_size)]

\* The entry after a packet of its flow; alpha is 1/4.  The sum is cut to 32
\* bits before the division, without effect on frames of the sizes that arrive.
After(entry, size) ==
    [entry EXCEPT !.ewma_size = (Fxp(size) + 3 * entry.ewma_size) \div 4,
                  !.last_size = size,
                  !.pkt_count = IF @ < MaxCount THEN @ + 1 ELSE @]

-----------------------------------------------------------------------------
(* The forest.  A leaf has the feature "LEAF".                              *)

Node(f, l, r, v) == [feature |-> f, left |-> l, right |-> r, value |-> v]
Leaf(v) == Node("LEAF", 0, 0, v)

\* Wrong: the thresholds of the first tree's count and size are swapped.
ForestSwapped == <<
    <<Node("PKT_SIZE", 1, 2, 1200), Node("PKT_COUNT", 3, 4, 1), Leaf(3277),
      Leaf(6554), Leaf(60000)>>,
    <<Node("SIZE_DELTA", 1, 2, 800), Node("EWMA_SIZE", 3, 4, Fxp(200)),
      Leaf(6554), Leaf(13107), Leaf(39321)>>,
    <<Node("PKT_SIZE", 1, 2, 1500), Leaf(9830), Leaf(32768)>>,
    <<Node("PKT_COUNT", 1, 2, 3), Node("SIZE_DELTA", 3, 4, 400),
      Leaf(13107), Leaf(6554), Leaf(26214)>> >>

flow_ml_forest == <<
    <<Node("PKT_COUNT", 1, 2, 1), Node("PKT_SIZE", 3, 4, 1200), Leaf(3277),
      Leaf(6554), Leaf(60000)>>,
    <<Node("SIZE_DELTA", 1, 2, 800), Node("EWMA_SIZE", 3, 4, Fxp(200)),
      Leaf(6554), Leaf(13107), Leaf(39321)>>,
    <<Node("PKT_SIZE", 1, 2, 1500), Leaf(9830), Leaf(32768)>>,
    <<Node("PKT_COUNT", 1, 2, 3), Node("SIZE_DELTA", 3, 4, 400),
      Leaf(13107), Leaf(6554), Leaf(26214)>> >>

NodesPerTree == 7

\* The vote from each node with so many steps left; a walk that finds no leaf
\* in NodesPerTree steps votes 0.
TreeInfer(tree, feat) ==
    LET walk[left \in 0 .. NodesPerTree] ==
            [idx \in 0 .. NodesPerTree - 1 |->
                LET node == tree[idx + 1]
                IN  IF left = 0 THEN 0
                    ELSE IF node.feature = "LEAF" THEN node.value
                    ELSE walk[left - 1][IF feat[node.feature] < node.value
                                        THEN node.left ELSE node.right]]
    IN  walk[NodesPerTree][0]

ForestInfer(feat) ==
    (TreeInfer(flow_ml_forest[1], feat) + TreeInfer(flow_ml_forest[2], feat)
     + TreeInfer(flow_ml_forest[3], feat) + TreeInfer(flow_ml_forest[4], feat))
    \div 4

Anomalous(feat) == ForestInfer(feat) > 32768
=============================================================================
