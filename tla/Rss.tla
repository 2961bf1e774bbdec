-------------------------------- MODULE Rss --------------------------------
(***************************************************************************)
(* Which queue, and so which worker, a packet reaches: receive side        *)
(* scaling with the key in src/src/dpdk_port.c (the same in                *)
(* src/offline_bench_pkt_process/bench_common.h).  The hash is linear over *)
(* the bits of (source address, destination address, source port,          *)
(* destination port); only its lowest bit is needed for two queues.        *)
(***************************************************************************)
EXTENDS Integers, FiniteSets

KeyPattern == {1, 2, 4, 5, 7, 9, 11, 12, 14}   \* the bits of 0x6d5a, from the top

\* The positions of the ones in the 40 bytes.
rss_key == {b \in 0 .. 40 * 8 - 1 : b % 16 \in KeyPattern}

\* The ones of an n-bit number, from the top, as positions from at.
Ones(x, n, at) == {at + n - 1 - i : i \in {j \in 0 .. n - 1 : (x \div 2 ^ j) % 2 = 1}}

Input(src, dst) == Ones(src[1], 16, 16) \cup Ones(dst[1], 16, 48)
                     \cup Ones(src[2], 16, 64) \cup Ones(dst[2], 16, 80)

\* Bit b of the input adds the 32 key bits from b on.
Queue(src, dst) == Cardinality({b \in Input(src, dst) : b + 31 \in rss_key}) % 2
=============================================================================
