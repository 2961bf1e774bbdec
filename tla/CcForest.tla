------------------------------ MODULE CcForest ------------------------------
(***************************************************************************)
(* The rate model of the ML congestion control (ml_cc_model.h in           *)
(* src/flexio/pcc/device/rp/ml_cc/algo) and the fixed-point product its    *)
(* user applies the result with.                                           *)
(***************************************************************************)
EXTENDS Integers, Sequences

One == 65536    \* 1 << 16

\* doca_pcc_dev_fxp_mult: a * b >> 16, in 64 bits.  The product is taken apart
\* so that no part exceeds 31 bits for b up to 2^20 and a up to 2^26.
FxpMult(a, b) == (a \div One) * b
                 + (((a % One) \div 256) * b + ((a % 256) * b) \div 256) \div 256

\* C division truncates.
Quotient(n, d) == IF n < 0 THEN -((-n) \div d) ELSE n \div d

Split(f, v, l, r) == [feature |-> f, value |-> v, left |-> l, right |-> r]
CcLeaf(v) == Split("LEAF", v, 0, 0)

\* A tree of one split whose halves are split again, or are leaves.
Full(f, v, lf, lv, rf, rv, a, b, c, d) ==
    << Split(f, v, 1, 2), Split(lf, lv, 3, 4), Split(rf, rv, 5, 6),
       CcLeaf(a), CcLeaf(b), CcLeaf(c), CcLeaf(d) >>
Left(f, v, lf, lv, a, b, right) ==
    << Split(f, v, 1, 2), Split(lf, lv, 3, 4), CcLeaf(right),
       CcLeaf(a), CcLeaf(b) >>

ml_cc_forest ==
    LET RTT == "RELATIVE_RTT"  EWMA == "EWMA_RTT"  RATE == "CUR_RATE"
        CNP == "WAS_CNP"  NACK == "WAS_NACK"  STREAK == "CNP_STREAK"
    IN  << Full(RTT, 13000, NACK, 1, CNP, 1, 3277, -19661, -13107, -6554),
           Full(EWMA, 20000, STREAK, 1, NACK, 1, 3277, -9830, -6554, -19661),
           Full(RTT, 8000, RATE, 131072, CNP, 1, 6554, 3277, -13107, -6554),
           Left(RTT, 30000, NACK, 1, 1638, -19661, -26214),
           Full(RTT, 12000, NACK, 1, CNP, 1, 2949, -18000, -12000, -5500),
           Full(EWMA, 18000, STREAK, 1, NACK, 1, 3000, -9000, -6000, -18000),
           Full(RTT, 9000, RATE, 131072, CNP, 1, 6000, 3000, -12000, -6000),
           Left(RTT, 28000, NACK, 1, 1500, -18000, -24000) >>

ML_CC_NODES_PER_TREE == 15

\* At most ML_CC_NODES_PER_TREE steps; a walk that finds no leaf votes 0.
ml_cc_tree_infer(tree, feat) ==
    LET walk[step \in 0 .. ML_CC_NODES_PER_TREE,
             idx \in 0 .. ML_CC_NODES_PER_TREE - 1] ==
            LET node == tree[idx + 1]
            IN  IF step = ML_CC_NODES_PER_TREE THEN 0
                ELSE IF node.feature = "LEAF" THEN node.value
                ELSE walk[step + 1, IF feat[node.feature] < node.value
                                    THEN node.left ELSE node.right]
    IN  walk[0, 0]

\* The mean of the trees' votes.
ml_cc_forest_infer(forest, feat) ==
    LET sum[t \in 0 .. Len(forest)] ==
            IF t = 0 THEN 0 ELSE sum[t - 1] + ml_cc_tree_infer(forest[t], feat)
    IN  Quotient(sum[Len(forest)], Len(forest))
=============================================================================
