-------------------------------- MODULE Kernels --------------------------------
(***************************************************************************)
(* The inference kernels with the layout the exporters give the weights,   *)
(* against the network that was trained: the classifier's (src/inference.c,*)
(* src/infer_*.c, tools/export_*.py), the benchmark's (mlp_bench.c and     *)
(* train_export_hardcoded.py in src/offline_bench_inference/bf3) and the   *)
(* prototype's (src/onnx/iot_multicore.c).  A kernel is called again and   *)
(* again with the same memory, which nothing clears in between.            *)
(*                                                                         *)
(* Numbers are exact.  A word is the set of its bits that are set.         *)
(***************************************************************************)
EXTENDS Integers, SequencesExt

CONSTANTS Models,    \* trained models, see below
          Vectors,   \* feature vectors, of any length
          AllowPad,  \* --allow-feature-pad
          WordBits,  \* 64
          Lanes,     \* 4, floats in a vector
          FULL_UNROLL_K

(* [kind |-> "mlp" or "bnn", kernel, sizes, weight, bias, mean, inv]:       *)
(* neuron j of layer n has weight[n][j][k] for input k, and inv is one over *)
(* the standard deviations;                                                *)
(* [kind |-> "rf", kernel, trees, depth, classes, mean, inv]: a tree is a  *)
(* sequence of [left, right, feature, threshold, value], node 0 at index 1. *)

Kernels == {"scalar", "neon", "bench_scalar", "bench_neon", "bench_avx",
            "hardcoded", "hardcoded_raw", "xnnpack", "prototype"}
IsNetwork(m) ==
    LET L == Len(m.weight)
    IN  /\ m.kernel \in IF m.kind = "mlp" THEN Kernels ELSE {"scalar"}
        /\ m.weight \in Seq(Range(m.weight)) /\ L > 0
        /\ m.sizes \in [1 .. L + 1 -> Nat \ {0}]
        /\ m.mean \in [1 .. m.sizes[1] -> Int] /\ m.inv \in [1 .. m.sizes[1] -> Int]
        /\ \A n \in 1 .. L :
              /\ m.weight[n] \in [1 .. m.sizes[n + 1] -> [1 .. m.sizes[n] -> Int]]
              /\ m.bias[n] \in [1 .. m.sizes[n + 1] -> Int]

\* A tree's nodes stand behind their parents, none deeper than RF_MAX_DEPTH.
IsTree(m, t) ==
    /\ t \in Seq(Range(t)) /\ t # << >>
    /\ \A n \in DOMAIN t : t[n].value \in Int /\ t[n].value < m.classes
    /\ \E deep \in [DOMAIN t -> 0 .. m.depth] :
          \A n \in DOMAIN t : t[n].value < 0 =>
             /\ t[n].feature + 1 \in DOMAIN m.mean
             /\ \A c \in {t[n].left + 1, t[n].right + 1} :
                   c \in n + 1 .. Len(t) /\ deep[c] = deep[n] + 1
IsForest(m) ==
    /\ m.kernel = "scalar" /\ m.classes \in Nat \ {0} /\ m.depth \in Nat
    /\ m.trees \in Seq(Range(m.trees))
    /\ m.mean \in Seq(Int) /\ m.inv \in [DOMAIN m.mean -> Int]
    /\ \A i \in DOMAIN m.trees : IsTree(m, m.trees[i])

\* A layer with more inputs than FULL_UNROLL_K is generated as a loop over two
\* vectors of inputs at a time, up to the last full vector: it runs past the
\* inputs if these are an odd number of vectors (train_export_hardcoded.py:246).
LoopFits(inputs) == inputs <= FULL_UNROLL_K \/ inputs % (2 * Lanes) < Lanes

ASSUME KernelAssumption ==
    /\ WordBits \in Nat \ {0} /\ Lanes \in Nat \ {0}
    /\ \A m \in Models : \/ m.kind \in {"mlp", "bnn"} /\ IsNetwork(m)
                         \/ m.kind = "rf" /\ IsForest(m)
    /\ Vectors \subseteq Seq(Int)
    /\ \A m \in Models : m.kernel \in {"hardcoded", "hardcoded_raw"} =>
           \A n \in DOMAIN m.weight : LoopFits(m.sizes[n])

VARIABLES
    model,
    raw,        \* the feature vector of this prediction
    phase,      \* "ready", "layer", "argmax"
    l, o,       \* layer, next output of it
    in, out,    \* offsets of the two activation buffers
    scratch,    \* cell -> word or float
    verdict

kernel_vars == <<model, raw, phase, l, o, in, out, scratch, verdict>>

\* ---- what was trained ---------------------------------------------------

Dim(m) == Len(m.mean)
Scaled(m, v) == [i \in 1 .. Dim(m) |->
                    IF i <= Len(v) THEN (v[i] - m.mean[i]) * m.inv[i] ELSE 0]
SumOf(f) == MapThenSumSet(LAMBDA i : f[i], DOMAIN f)
Sign(a) == IF a >= 0 THEN 1 ELSE -1
Relu(a) == IF a >= 0 THEN a ELSE 0

Linear(w, b, v) == [j \in DOMAIN b |->
                       SumOf([k \in DOMAIN v |-> w[j][k] * v[k]]) + b[j]]
Signs(v) == [k \in DOMAIN v |-> Sign(v[k])]
Relus(v) == [k \in DOMAIN v |-> Relu(v[k])]

\* MLP.forward and BNN.forward.
MlpLayer(m, n, v) == LET y == Linear(m.weight[n], m.bias[n], v)
                     IN  IF n = Len(m.weight) THEN y ELSE Relus(y)
BnnLayer(m, n, v) ==
    LET w == [j \in DOMAIN m.bias[n] |-> Signs(m.weight[n][j])]
        y == Linear(w, m.bias[n], Signs(v))
    IN  IF n = Len(m.weight) THEN y ELSE Signs(y)
Activations(m, v) ==
    LET act[n \in 0 .. Len(m.weight)] ==
            IF n = 0 THEN v
            ELSE IF m.kind = "mlp" THEN MlpLayer(m, n, act[n - 1])
            ELSE BnnLayer(m, n, act[n - 1])
    IN  act
Logits(m, v) == Activations(m, v)[Len(m.weight)]

\* The class of highest score, the first of several; of a single logit, its
\* sign.
Best(scores) ==
    Min({c \in DOMAIN scores : \A d \in DOMAIN scores : scores[d] <= scores[c]})
ClassOf(logits) == IF Len(logits) = 1 THEN IF logits[1] >= 0 THEN 1 ELSE 0
                   ELSE Best(logits) - 1

\* A node is reached when its parent is and the feature goes its way.
Goes(t, v, p, n) == n = IF v[t[p].feature + 1] <= t[p].threshold
                       THEN t[p].left + 1 ELSE t[p].right + 1
Reached(t, v) ==
    LET reached[n \in DOMAIN t] ==
            \/ n = 1
            \/ \E p \in 1 .. n - 1 :
                  t[p].value < 0 /\ reached[p] /\ Goes(t, v, p, n)
    IN  reached
LeafClass(t, v) ==
    t[CHOOSE n \in DOMAIN t : Reached(t, v)[n] /\ t[n].value >= 0].value
Majority(m, v) ==
    Best([c \in 1 .. m.classes |->
            Cardinality({i \in DOMAIN m.trees :
                            LeafClass(m.trees[i], v) = c - 1})]) - 1

\* The prototype's approximation of the sigmoid, in sixteenths.  It is not
\* monotonic: the prototype's verdict is not always the class of highest score.
fast_sigmoid(x) == CASE x <= -4 -> 0
                     [] x \in -3 .. -2 -> x + 4
                     [] x \in -1 .. 0 -> 2 * x + 8
                     [] x \in 1 .. 2 -> 8 - 2 * x
                     [] x \in 3 .. 4 -> 12 - x
                     [] OTHER -> 16
Sigmoids(v) == [k \in DOMAIN v |-> fast_sigmoid(v[k])]

\* The benchmark and the prototype do not look at the sign of a single score.
MlpClass(m, scores) ==
    CASE m.kernel \in {"scalar", "neon"} -> ClassOf(scores)
      [] m.kernel = "prototype" -> Best(Sigmoids(scores)) - 1
      [] OTHER -> Best(scores) - 1

Trained(m, v) == CASE m.kind = "mlp" -> MlpClass(m, Logits(m, v))
                   [] m.kind = "bnn" -> ClassOf(Logits(m, v))
                   [] m.kind = "rf" -> Majority(m, v)

\* ---- what was exported --------------------------------------------------

size(n) == model.sizes[n]
Layers == Len(model.weight)
MaxSize == Max(Range(model.sizes))
WordsFor(n) == (n + WordBits - 1) \div WordBits

\* MLP: [in][out]; for XNNPACK, [out][in]; BNN: for each output, the signs of
\* its weights, in words.
W(n) == [i \in 0 .. size(n) * size(n + 1) - 1 |->
            model.weight[n][(i % size(n + 1)) + 1][(i \div size(n + 1)) + 1]]
W_XNN(n) == [i \in 0 .. size(n) * size(n + 1) - 1 |->
                model.weight[n][(i \div size(n)) + 1][(i % size(n)) + 1]]

\* Hardcoded: tiles of four, two and one vectors of outputs, one after the
\* other, each [in][outputs of the tile]; what is left over is as in W.
Hardcoded == model.kernel \in {"hardcoded", "hardcoded_raw"}
block_plan(outputs) ==
    LET r16 == outputs % (4 * Lanes)
        r8 == outputs % (2 * Lanes)
        At(left) == outputs - left
    IN  {<<j, 4 * Lanes>> : j \in {i \in 0 .. At(r16) - 1 : i % (4 * Lanes) = 0}}
          \cup (IF r16 >= 2 * Lanes THEN {<<At(r16), 2 * Lanes>>} ELSE {})
          \cup (IF r8 >= Lanes THEN {<<At(r8), Lanes>>} ELSE {})
Covered(n) == size(n + 1) - (size(n + 1) % Lanes)
Tile(n, p) == CHOOSE b \in block_plan(size(n + 1)) :
                  p \in size(n) * b[1] .. size(n) * (b[1] + b[2]) - 1
PackedBy(n, w) ==
    [p \in 0 .. size(n) * Covered(n) - 1 |->
        LET b == Tile(n, p)
            q == p - size(n) * b[1]
        IN  w[(q \div b[2]) * size(n + 1) + b[1] + (q % b[2])]]

\* Layer 0 of the kernel that takes raw features has the scaling in it.
Folded(n) == n = 1 /\ model.kernel = "hardcoded_raw"
W_REF(n) == IF Folded(n) THEN [i \in DOMAIN W(n) |->
                                  W(n)[i] * model.inv[(i \div size(n + 1)) + 1]]
            ELSE W(n)
B(n, j) == model.bias[n][j + 1] -
           IF Folded(n)
           THEN SumOf([k \in 1 .. size(n) |->
                       model.weight[n][j + 1][k] * model.mean[k] * model.inv[k]])
           ELSE 0
pack_weights(n, j) ==
    [w \in 0 .. WordsFor(size(n)) - 1 |->
        {b \in 0 .. WordBits - 1 :
            /\ w * WordBits + b < size(n)
            /\ model.weight[n][j + 1][w * WordBits + b + 1] >= 0}]

\* ---- inference.c: scratch memory and input ------------------------------

\* Wrong: the last word of a layer is forgotten.
ScratchCellsShort ==
    CASE model.kind = "mlp" /\ Hardcoded -> 2 * MaxSize + size(1)
      [] model.kind = "mlp" /\ ~Hardcoded -> 2 * MaxSize
      [] model.kind = "bnn" -> 2 * (MaxSize \div WordBits) + MaxSize
      [] model.kind = "rf" -> 0
ScratchCells == CASE model.kind = "mlp" /\ Hardcoded -> 2 * MaxSize + size(1)
                  [] model.kind = "mlp" /\ ~Hardcoded -> 2 * MaxSize
                  [] model.kind = "bnn" -> 2 * WordsFor(MaxSize) + MaxSize
                  [] model.kind = "rf" -> 0
Cleared == [c \in 0 .. ScratchCells - 1 |->
               IF model.kind = "bnn" /\ c < 2 * WordsFor(MaxSize) THEN {} ELSE 0]
Classifier == model.kernel \in {"scalar", "neon"}
Accepted(v) == \/ Len(v) = Dim(model)
               \/ Classifier /\ AllowPad /\ Len(v) <= Dim(model)

\* Wrong: the second buffer follows the input.
BufBAfterInput ==
    IF model.kind = "mlp" THEN size(1) ELSE WordsFor(MaxSize)
BufB == IF model.kind = "mlp" THEN MaxSize ELSE WordsFor(MaxSize)
Scores == 2 * WordsFor(MaxSize)
memcpy(v) == [c \in 0 .. Dim(model) - 1 |-> v[c + 1]]
pack_input_bits(v) ==
    [w \in 0 .. WordsFor(Dim(model)) - 1 |->
        {b \in 0 .. WordBits - 1 :
            w * WordBits + b < Dim(model) /\ v[w * WordBits + b + 1] >= 0}]

\* The memory after these cells were written.
Stored(cells, mem) == [c \in DOMAIN cells \cup DOMAIN mem |->
                          IF c \in DOMAIN cells THEN cells[c] ELSE mem[c]]

\* model_predict of a vector that model_prepare_input accepts: the entry of the
\* kernel fills the first buffer.
\* The hardcoded kernel reads the caller's array and has both buffers free.
Input == 2 * MaxSize
Entry(v) ==
    /\ scratch' = Stored(IF model.kind # "mlp" THEN pack_input_bits(v)
                         ELSE IF Hardcoded
                         THEN [c \in Input .. Input + Dim(model) - 1 |->
                                  v[c - Input + 1]]
                         ELSE memcpy(v), scratch)
    /\ IF Hardcoded THEN in' = Input /\ out' = 0 ELSE in' = 0 /\ out' = BufB
    /\ l' = 1 /\ o' = 0
    /\ phase' = "layer"
    /\ verdict' = -1
    /\ UNCHANGED model
Predict(v) ==
    /\ phase = "ready" /\ model.kind # "rf" /\ model.kernel # "xnnpack" /\ Accepted(v)
    /\ raw' = v
    /\ Entry(IF model.kernel = "hardcoded_raw" THEN v ELSE Scaled(model, v))

\* The layer is done: the buffers change places.
Advance(n) ==
    IF o + n < size(l + 1) THEN o' = o + n /\ UNCHANGED <<l, in, out, phase>>
    ELSE /\ o' = 0 /\ in' = out
         /\ out' = IF Hardcoded /\ in = Input THEN MaxSize ELSE in
         /\ IF l = Layers THEN phase' = "argmax" /\ UNCHANGED l
            ELSE l' = l + 1 /\ UNCHANGED phase
Final == l = Layers

\* ---- infer_mlp.c, mlp_bench.c, iot_multicore.c --------------------------

Activated(a) == IF ~Final THEN Relu(a)
                ELSE IF model.kernel = "prototype" THEN fast_sigmoid(a) ELSE a
Dot(j, w) == B(l, j) + SumOf([k \in 0 .. size(l) - 1 |->
                               w[k * size(l + 1) + j] * scratch[in + k]])
Write(n, acc) ==
    /\ scratch' = Stored([c \in out + o .. out + o + n - 1 |->
                             Activated(acc[c - out])], scratch)
    /\ Advance(n)
    /\ UNCHANGED <<model, raw, verdict>>
Outputs(n) == Write(n, [j \in o .. o + n - 1 |-> Dot(j, W(l))])

\* One turn of a kernel's loop over the outputs of a layer: as many at a time
\* as are left, down to one.
Turn(kernels) == phase = "layer" /\ model.kind = "mlp" /\ model.kernel \in kernels
Room(n) == o + n <= size(l + 1)
mlp_layer_scalar == Turn({"scalar", "bench_scalar"}) /\ Outputs(1)
mlp_layer_neon == /\ Turn({"neon", "bench_neon", "prototype"})
                  /\ IF Room(Lanes) THEN Outputs(Lanes) ELSE Outputs(1)
layer_forward_avx2 == /\ Turn({"bench_avx"})
                      /\ CASE Room(2 * Lanes) -> Outputs(2 * Lanes)
                           [] ~Room(2 * Lanes) /\ Room(Lanes) -> Outputs(Lanes)
                           [] ~Room(Lanes) -> Outputs(1)

\* XNNPACK is given the layers as a graph, with its own buffers; a hidden
\* layer's output is clamped from below.
Subgraph(v) ==
    LET act[n \in 1 .. Layers + 1] ==
            IF n = 1 THEN v
            ELSE LET m == n - 1
                     y == [j \in 1 .. size(n) |->
                             model.bias[m][j] +
                             SumOf([k \in 1 .. size(m) |->
                                    W_XNN(m)[(j - 1) * size(m) + k - 1] * act[m][k]])]
                 IN  IF m = Layers THEN y ELSE Relus(y)
    IN  act[Layers + 1]
predict_mlp_xnnpack(v) ==
    /\ phase = "ready" /\ model.kernel = "xnnpack" /\ Accepted(v)
    /\ raw' = v
    /\ verdict' = Best(Subgraph(Scaled(model, v))) - 1
    /\ UNCHANGED <<model, phase, l, o, in, out, scratch>>

\* ---- mlp_hardcoded.h as it is generated ---------------------------------

\* off: the tiles before this one.
Tiled(nr, i, w) ==
    LET off == size(l) * o
    IN  B(l, o + i) + SumOf([k \in 0 .. size(l) - 1 |->
                             w[off + k * nr + i] * scratch[in + k]])
emit_wide_block ==
    /\ Turn({"hardcoded", "hardcoded_raw"})
    /\ \E b \in block_plan(size(l + 1)) :
          LET w == PackedBy(l, W_REF(l))
          IN  /\ b[1] = o
              /\ Write(b[2], [j \in o .. o + b[2] - 1 |-> Tiled(b[2], j - o, w)])
emit_dot_outputs ==
    /\ Turn({"hardcoded", "hardcoded_raw"})
    /\ o >= Covered(l)
    /\ Write(1, [j \in {o} |-> Dot(j, W_REF(l))])

\* ---- infer_bnn.c --------------------------------------------------------

tail_mask(bits) == IF bits % WordBits = 0 THEN 0 .. WordBits - 1
                   ELSE 0 .. (bits % WordBits) - 1
Xnor(a, b) == {i \in 0 .. WordBits - 1 : i \in a <=> i \in b}
words_per_out == WordsFor(size(l))
Popcount(j) ==
    SumOf([w \in 0 .. words_per_out - 1 |->
            LET xnor == Xnor(scratch[in + w], pack_weights(l, j)[w])
            IN  Cardinality(IF w = words_per_out - 1
                            THEN xnor \cap tail_mask(size(l)) ELSE xnor)])
Score(j) == 2 * Popcount(j) - size(l) + model.bias[l][j + 1]

\* One turn of the loop over the outputs; the words are cleared before it.
bnn_layer ==
    /\ phase = "layer" /\ model.kind = "bnn"
    /\ LET mem == IF o > 0 THEN scratch
                  ELSE Stored([c \in out .. out + WordsFor(size(l + 1)) - 1 |-> {}],
                              scratch)
           word == out + (o \div WordBits)
       IN  scratch' =
              IF Final THEN Stored([c \in {Scores + o} |-> Score(o)], mem)
              ELSE IF Score(o) >= 0
              THEN Stored([c \in {word} |-> mem[word] \cup {o % WordBits}], mem)
              ELSE mem
    /\ Advance(1)
    /\ UNCHANGED <<model, raw, verdict>>

\* The highest score wins; the sign of a single one decides, in the classifier.
Leader(s, first, last) ==
    LET best[n \in first .. last] ==
            IF n = first THEN first
            ELSE IF s[n] > s[best[n - 1]] THEN n ELSE best[n - 1]
    IN  best[last]
Outcome(scores) == [j \in 1 .. size(Layers + 1) |-> scratch[scores + j - 1]]
Argmax ==
    /\ phase = "argmax"
    /\ LET s == Outcome(IF model.kind = "mlp" THEN in ELSE Scores)
       IN  verdict' = IF Len(s) = 1 /\ Classifier THEN IF s[1] >= 0 THEN 1 ELSE 0
                      ELSE Leader(s, 1, Len(s)) - 1
    /\ phase' = "ready"
    /\ UNCHANGED <<model, raw, l, o, in, out, scratch>>

\* ---- infer_rf.c ---------------------------------------------------------

\* The walk ends at a leaf, or after RF_MAX_DEPTH + 2 nodes with class 0.
Walk(t, v) ==
    LET walk[turns \in 0 .. model.depth + 2] ==   \* turns left, at node n
            [n \in DOMAIN t |->
                IF turns = 0 THEN 0
                ELSE IF t[n].value >= 0 THEN t[n].value
                ELSE walk[turns - 1][IF v[t[n].feature + 1] <= t[n].threshold
                                     THEN t[n].left + 1 ELSE t[n].right + 1]]
    IN  walk[model.depth + 2][1]
Votes(v) == [c \in 0 .. model.classes - 1 |->
                Cardinality({i \in DOMAIN model.trees :
                                Walk(model.trees[i], v) = c})]
rf_predict_entry(v) ==
    /\ phase = "ready" /\ model.kind = "rf" /\ Accepted(v)
    /\ raw' = v
    /\ verdict' = Leader(Votes(Scaled(model, v)), 0, model.classes - 1)
    /\ UNCHANGED <<model, phase, l, o, in, out, scratch>>

--------------------------------------------------------------------------------
\* main.c:171: the scratch memory of the worker is allocated and cleared.
KernelInit ==
    /\ model \in Models
    /\ raw = << >> /\ verdict = -1
    /\ phase = "ready" /\ l = 1 /\ o = 0 /\ in = 0 /\ out = 0
    /\ scratch = Cleared

KernelNext ==
        \/ \E v \in Vectors : \/ Predict(v) \/ rf_predict_entry(v)
                             \/ predict_mlp_xnnpack(v)
        \/ mlp_layer_neon \/ mlp_layer_scalar \/ layer_forward_avx2
        \/ emit_wide_block \/ emit_dot_outputs \/ bnn_layer \/ Argmax

KernelSpec == KernelInit /\ [][KernelNext]_kernel_vars

\* Whatever an earlier prediction left in the scratch memory, whatever the
\* layer sizes are to the word and to the vector width, the verdict is the
\* class the trained network gives the vector (the prototype's: the class of
\* highest fast_sigmoid), for every kernel and every layout of the weights.
VerdictIsTrained ==
    phase = "ready" /\ verdict # -1 => verdict = Trained(model, Scaled(model, raw))

\* What the kernels write lies in the scratch memory model_runtime_init asked
\* for; the two compute their layouts separately.
StaysInScratch == DOMAIN scratch = 0 .. ScratchCells - 1
================================================================================
