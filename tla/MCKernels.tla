------------------------------- MODULE MCKernels -------------------------------
(* Words of two bits and vectors of two lanes, so that layers of one to     *)
(* seventeen neurons are below, at and past the width of a word, a vector   *)
(* and each kind of tile.                                                   *)
EXTENDS Kernels

Net(kind, kernel, sizes, weight, bias) ==
    [kind |-> kind, kernel |-> kernel, sizes |-> sizes,
     weight |-> weight, bias |-> bias, mean |-> [i \in 1 .. sizes[1] |-> i - 1],
     inv |-> [i \in 1 .. sizes[1] |-> 1 + (i % 2)]]

W23 == <<<<1, -2>>, <<-1, 1>>, <<2, 1>>>>
W31 == <<<<1, -1, 1>>>>
W32 == <<<<1, -1, 1>>, <<-1, 2, 1>>>>
W35 == <<<<1, 1, 1>>, <<-1, 1, -1>>, <<1, -1, 1>>, <<-1, -1, -1>>, <<1, 1, -1>>>>
W53 == <<<<1, -1, 1, -1, 1>>, <<1, 1, -1, -1, 1>>, <<-1, 1, 1, -1, -1>>>>
W14 == <<<<1>>, <<-1>>, <<2>>, <<-2>>>>
W43 == <<<<1, -1, 1, -1>>, <<1, 1, -1, -1>>, <<4, 0, 0, 0>>>>
Zero(n) == [i \in 1 .. n |-> 0]

Nets == {<< <<2, 3, 1>>, <<W23, W31>>, <<<<0, 1, -1>>, <<0>>>> >>,
         << <<2, 3, 2>>, <<W23, W32>>, <<Zero(3), Zero(2)>> >>,
         << <<3, 5, 3>>, <<W35, W53>>, <<<<0, 1, 0, -1, 0>>, <<0, 1, 0>>>> >>,
         << <<3, 5, 3, 1>>, <<W35, W53, W31>>, <<Zero(5), Zero(3), <<-1>>>> >>,
         << <<1, 4, 3>>, <<W14, W43>>, <<Zero(4), <<0, 1, 0>>>> >>}

Leaf(c) == [left |-> -1, right |-> -1, feature |-> -1, threshold |-> 0, value |-> c]
Node(a, b, f, t) == [left |-> a, right |-> b, feature |-> f, threshold |-> t,
                     value |-> -1]
Tree1 == <<Node(1, 2, 0, 0), Leaf(2), Node(3, 4, 1, -1), Leaf(0), Leaf(1)>>
Tree2 == <<Node(1, 4, 1, 0), Node(2, 3, 0, -1), Leaf(1), Leaf(2), Leaf(0)>>
Tree3 == <<Leaf(1)>>
Forest == [kind |-> "rf", trees |-> <<Tree1, Tree2, Tree3>>, depth |-> 2,
           classes |-> 3, kernel |-> "scalar", mean |-> <<0, 1>>, inv |-> <<1, 1>>]

Mixed(n, m) == [j \in 1 .. n |-> [k \in 1 .. m |-> ((7 * j + 3 * k) % 5) - 2]]
Wide == {<< <<2, 13, 2>>, <<Mixed(13, 2), Mixed(2, 13)>>, <<Zero(13), <<1, 0>>>> >>,
         << <<1, 17, 2>>, <<Mixed(17, 1), Mixed(2, 17)>>, <<Zero(17), <<0, -3>>>> >>}

AllModels == {Net("mlp", kernel, n[1], n[2], n[3]) :
                 kernel \in {"scalar", "neon", "bench_scalar", "bench_neon", "prototype"},
                 n \in Nets}
             \cup {Net("mlp", kernel, n[1], n[2], n[3]) :
                      kernel \in {"bench_avx", "xnnpack", "hardcoded", "hardcoded_raw"},
                      n \in Nets \cup Wide}
             \cup {Net("bnn", "scalar", n[1], n[2], n[3]) : n \in Nets}
             \cup {Forest}
Numbers == {-2, 0, 1}
AllVectors == UNION {[1 .. n -> Numbers] : n \in 1 .. 3}
================================================================================
