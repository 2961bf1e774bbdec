-------------------------- MODULE FlowProfilesProofs --------------------------
(***************************************************************************)
(* Proofs about the flow profiles: every vector describes one full window  *)
(* of one flow, the contract accepts it, and both directions of a          *)
(* connection meet in one queue; for every set of ends, size of the table  *)
(* and the queue, window, span of the clock and number of packets.  The    *)
(* inductive invariant says of every entry what the packets its flow has   *)
(* had since its last window make of it.                                   *)
(***************************************************************************)
EXTENDS FlowProfiles, DataLemmas

-----------------------------------------------------------------------------
(* The two directions of a connection *)

\* The input bits of a packet the other way, where each bit of this one goes.
SwapBit(b) == IF b < 32 THEN b + 32 ELSE IF b < 64 THEN b - 32
              ELSE IF b < 80 THEN b + 16 ELSE b - 16

Places == 16 .. 31 \cup 48 .. 95
BitOnes(x) == {j \in 0 .. 15 : (x \div 2 ^ j) % 2 = 1}
Counted(src, dst) == {b \in Input(src, dst) : b + 31 \in rss_key}

\* The bits of a field lie in its own places, those set in the number.
LEMMA OnesAre ==
  ASSUME NEW x, NEW at \in {16, 48, 64, 80}
  PROVE  /\ \A b \in Int : b \in Ones(x, 16, at) <=> at + 15 - b \in BitOnes(x)
         /\ Ones(x, 16, at) \subseteq at .. at + 15
<1>1. Ones(x, 16, at) = {at + 16 - 1 - i : i \in BitOnes(x)}
  BY DEF Ones, BitOnes
<1>2. BitOnes(x) \subseteq 0 .. 15
  BY DEF BitOnes
<1>3. at \in Int /\ at >= 16
  OBVIOUS
<1>4. ASSUME NEW b \in Int, at + 15 - b \in BitOnes(x) PROVE b \in Ones(x, 16, at)
  <2>1. b = at + 16 - 1 - (at + 15 - b)
    BY <1>3
  <2> QED BY <1>1, <1>4, <2>1
<1>5. ASSUME NEW b \in Int, b \in Ones(x, 16, at) PROVE at + 15 - b \in BitOnes(x)
  <2>1. PICK i \in BitOnes(x) : b = at + 16 - 1 - i
    BY <1>1, <1>5
  <2>2. i \in Int
    BY <1>2
  <2>3. at + 15 - b = i
    BY <1>3, <2>1, <2>2
  <2> QED BY <2>3
<1>6. Ones(x, 16, at) \subseteq at .. at + 15
  BY <1>1, <1>2, <1>3
<1> QED BY <1>4, <1>5, <1>6

\* The key repeats every 16 bits, so a moved bit meets the same key bits.
LEMMA KeyRepeats ==
  ASSUME NEW b \in Places
  PROVE  /\ SwapBit(b) \in Places /\ SwapBit(SwapBit(b)) = b
         /\ b + 31 \in rss_key <=> SwapBit(b) + 31 \in rss_key
<1>1. b \in Int /\ (b \in 16 .. 31 \/ b \in 48 .. 63 \/ b \in 64 .. 79 \/ b \in 80 .. 95)
  BY DEF Places
<1>2. SwapBit(b) \in Places /\ SwapBit(SwapBit(b)) = b
  BY <1>1 DEF Places, SwapBit
<1>3. /\ b + 31 \in 0 .. 40 * 8 - 1 /\ SwapBit(b) + 31 \in 0 .. 40 * 8 - 1
      /\ (SwapBit(b) + 31) % 16 = (b + 31) % 16
  BY <1>1 DEF SwapBit
<1> QED BY <1>2, <1>3 DEF rss_key

\* A bit of one direction's input has its place in the other's.
LEMMA InputSwaps ==
  ASSUME NEW src, NEW dst, NEW b \in Input(src, dst)
  PROVE  b \in Places /\ SwapBit(b) \in Input(dst, src)
<1>0. /\ \A x : \A at \in {16, 48, 64, 80} : Ones(x, 16, at) \subseteq at .. at + 15
      /\ \A x : \A at \in {16, 48, 64, 80} : \A c \in Int :
            c \in Ones(x, 16, at) <=> at + 15 - c \in BitOnes(x)
  BY OnesAre
<1>1. CASE b \in Ones(src[1], 16, 16)
  <2>1. b \in 16 .. 31
    BY <1>0, <1>1
  <2>2. b + 32 \in Ones(src[1], 16, 48)
    <3>1. 16 + 15 - b \in BitOnes(src[1]) /\ 48 + 15 - (b + 32) = 16 + 15 - b /\ b + 32 \in Int
      BY <1>0, <1>1, <2>1
    <3> QED BY <1>0, <3>1
  <2>3. SwapBit(b) = b + 32 /\ b \in Places
    BY <2>1 DEF SwapBit, Places
  <2> QED BY <2>2, <2>3 DEF Input
<1>2. CASE b \in Ones(dst[1], 16, 48)
  <2>1. b \in 48 .. 63
    BY <1>0, <1>2
  <2>2. b - 32 \in Ones(dst[1], 16, 16)
    <3>1. 48 + 15 - b \in BitOnes(dst[1]) /\ 16 + 15 - (b - 32) = 48 + 15 - b /\ b - 32 \in Int
      BY <1>0, <1>2, <2>1
    <3> QED BY <1>0, <3>1
  <2>3. SwapBit(b) = b - 32 /\ b \in Places
    BY <2>1 DEF SwapBit, Places
  <2> QED BY <2>2, <2>3 DEF Input
<1>3. CASE b \in Ones(src[2], 16, 64)
  <2>1. b \in 64 .. 79
    BY <1>0, <1>3
  <2>2. b + 16 \in Ones(src[2], 16, 80)
    <3>1. 64 + 15 - b \in BitOnes(src[2]) /\ 80 + 15 - (b + 16) = 64 + 15 - b /\ b + 16 \in Int
      BY <1>0, <1>3, <2>1
    <3> QED BY <1>0, <3>1
  <2>3. SwapBit(b) = b + 16 /\ b \in Places
    BY <2>1 DEF SwapBit, Places
  <2> QED BY <2>2, <2>3 DEF Input
<1>4. CASE b \in Ones(dst[2], 16, 80)
  <2>1. b \in 80 .. 95
    BY <1>0, <1>4
  <2>2. b - 16 \in Ones(dst[2], 16, 64)
    <3>1. 80 + 15 - b \in BitOnes(dst[2]) /\ 64 + 15 - (b - 16) = 80 + 15 - b /\ b - 16 \in Int
      BY <1>0, <1>4, <2>1
    <3> QED BY <1>0, <3>1
  <2>3. SwapBit(b) = b - 16 /\ b \in Places
    BY <2>1 DEF SwapBit, Places
  <2> QED BY <2>2, <2>3 DEF Input
<1> QED BY <1>1, <1>2, <1>3, <1>4 DEF Input

\* Both directions of a connection reach the same queue: the symmetric key of
\* port_init (dpdk_port.c) repeats every 16 bits, so exchanging addresses and
\* ports exchanges input bits that meet the same key bits.  Any two ends.
THEOREM BothDirectionsMeet ==
  ASSUME NEW src, NEW dst
  PROVE  Queue(src, dst) = Queue(dst, src)
<1> DEFINE S == Counted(src, dst)
           T == Counted(dst, src)
           f == [b \in S |-> SwapBit(b)]
<1>1. \A b \in S : b \in Places /\ SwapBit(b) \in T
  BY InputSwaps, KeyRepeats DEF Counted
<1>2. \A b \in T : b \in Places /\ SwapBit(b) \in S
  BY InputSwaps, KeyRepeats DEF Counted
<1>3. \A b \in Places : SwapBit(SwapBit(b)) = b
  BY KeyRepeats
<1>4. IsFiniteSet(S)
  <2> DEFINE top == 95
  <2>1. top \in Int /\ Places \subseteq 0 .. top
    BY DEF Places
  <2> HIDE DEF top
  <2>2. IsFiniteSet(0 .. top)
    BY <2>1, FS_Interval
  <2>3. S \subseteq 0 .. top
    BY <1>1, <2>1
  <2> QED BY <2>2, <2>3, FS_Subset
<1> HIDE DEF S, T
<1>5. f \in Bijection(S, T)
  <2>1. f \in [S -> T]
    BY <1>1
  <2>2. \A a, b \in S : f[a] = f[b] => a = b
    BY <1>1, <1>3
  <2>3. \A c \in T : \E b \in S : f[b] = c
    BY <1>2, <1>3
  <2> HIDE DEF f
  <2>4. \A a, b \in DOMAIN f : f[a] = f[b] => a = b
    BY <2>1, <2>2
  <2> QED BY <2>1, <2>3, <2>4 DEF Bijection, Injection, Surjection, IsInjective
<1>6. Cardinality(T) = Cardinality(S)
  BY <1>4, <1>5, FS_Bijection DEF ExistsBijection
<1> QED BY <1>6 DEF Queue, Counted, S, T

-----------------------------------------------------------------------------
(* Records of a history and their sums *)

Of(h, dir) == {j \in DOMAIN h : h[j].client = dir}
LensIn(h, S) == {h[j].len : j \in S}
LenOf(h) == [j \in DOMAIN h |-> h[j].len]
Turns(h) == {j \in DOMAIN h \ {1} : h[j].client # h[j - 1].client}
Bytes(h, S) == MapThenSumSet(LAMBDA j : h[j].len, S)

\* RecordReference in the terms below.
LEMMA ReferenceIs ==
  ASSUME NEW h
  PROVE RecordReference(h) = 
         [n_client |-> Cardinality(Of(h, TRUE)), n_server |-> Cardinality(Of(h, FALSE)),
         client_bytes |-> Bytes(h, Of(h, TRUE)), total_bytes |-> Bytes(h, DOMAIN h),
         size_min |-> Min(LensIn(h, DOMAIN h)), size_max |-> Max(LensIn(h, DOMAIN h)),
         size_sum |-> Bytes(h, DOMAIN h),
         dir_switches |-> Cardinality(Turns(h))]
BY DEF RecordReference, Of, LensIn, Bytes, Turns

ByteStep(g, h, s) == IF s = {} THEN 0 ELSE h[Pick(s)].len + g[s \ {Pick(s)}]
IsBytes(g, h, S) == g = [s \in SUBSET S |-> ByteStep(g, h, s)]

\* The bytes of some records are a sum over a finite set.
LEMMA BytesAre ==
  ASSUME NEW h, NEW S, S \subseteq DOMAIN h, IsFiniteSet(S)
  PROVE  Bytes(h, S) = SumOver(LenOf(h), S)
<1>1. Bytes(h, S) = (CHOOSE g : IsBytes(g, h, S))[S]
  BY DEF Bytes, MapThenSumSet, MapThenFoldSet, IsBytes, ByteStep, Pick
<1>2. ASSUME NEW g PROVE IsBytes(g, h, S) <=> IsSum(g, LenOf(h), S)
  <2> DEFINE a(s) == SumStep(g, LenOf(h), s)
             b(s) == ByteStep(g, h, s)
  <2>1. \A s \in SUBSET S : a(s) = b(s)
    BY SubsetSize DEF SumStep, ByteStep, LenOf
  <2> HIDE DEF a, b
  <2>2. [s \in SUBSET S |-> a(s)] = [s \in SUBSET S |-> b(s)]
    BY <2>1
  <2> QED BY <2>2 DEF IsSum, IsBytes, a, b
<1>3. (CHOOSE g : IsBytes(g, h, S)) = (CHOOSE g : IsSum(g, LenOf(h), S))
  BY <1>2
<1> QED BY <1>1, <1>3, SumIs
-----------------------------------------------------------------------------
(* A window with one packet more *)

Packets(t) == [client : BOOLEAN, len : Words, time : 0 .. t, flags : 0 .. 8]

Below(n) == 0 .. n - 1

\* Lengths are the numbers below the mark for none.
LEMMA LengthsAre ==
  /\ Longest \in Nat /\ Words = Below(Longest)
  /\ \A x \in Words : x \in 0 .. Longest - 1
<1>1. Longest \in Nat /\ Words = Below(Longest)
  BY SMT DEF Words, Longest, Below
<1> QED BY <1>1 DEF Below

\* The fields of a packet.
LEMMA PacketIs ==
  ASSUME NEW t \in Nat
  PROVE  \A p \in Packets(t) : /\ p.client \in BOOLEAN /\ p.len \in Words
                               /\ p.time \in 0 .. t /\ p.flags \in 0 .. 8
BY DEF Packets

\* A history with one packet more.
LEMMA Appended ==
  ASSUME NEW A, NEW h \in Seq(A), NEW p \in A
  PROVE  /\ Len(h) \in Nat /\ DOMAIN h = 1 .. Len(h) /\ IsFiniteSet(DOMAIN h)
         /\ Cardinality(DOMAIN h) = Len(h)
         /\ \A j \in DOMAIN h : h[j] \in A
         /\ Append(h, p) \in Seq(A) /\ Len(Append(h, p)) = Len(h) + 1
         /\ DOMAIN Append(h, p) = DOMAIN h \cup {Len(h) + 1}
         /\ Len(h) + 1 \notin DOMAIN h
         /\ \A j \in DOMAIN h : Append(h, p)[j] = h[j]
         /\ Append(h, p)[Len(h) + 1] = p
<1> DEFINE g == Append(h, p)
<1>1. /\ Len(h) \in Nat /\ DOMAIN h = 1 .. Len(h) /\ g \in Seq(A) /\ Len(g) = Len(h) + 1
      /\ \A i \in 1 .. Len(h) : g[i] = h[i]
      /\ g[Len(h) + 1] = p
  BY AppendProperties, LenProperties
<1>2. DOMAIN g = 1 .. Len(g)
  BY <1>1, LenProperties
<1>3. \A j \in DOMAIN h : h[j] \in A
  BY <1>1, ElementOfSeq
<1>4. IsFiniteSet(DOMAIN h) /\ Cardinality(DOMAIN h) = Len(h)
  BY <1>1, FS_Interval
<1> HIDE DEF g
<1>5. DOMAIN g = DOMAIN h \cup {Len(h) + 1} /\ Len(h) + 1 \notin DOMAIN h
  BY <1>1, <1>2
<1> QED BY <1>1, <1>3, <1>4, <1>5 DEF g

\* A part of a finite set.
LEMMA SubsetFinite ==
  ASSUME NEW S, IsFiniteSet(S), NEW T \in SUBSET S
  PROVE  IsFiniteSet(T) /\ Cardinality(T) \in Nat
BY FS_Subset, FS_CardinalityType

\* Its bytes: those of a set of older packets stay, the new one is added.
LEMMA BytesAppended ==
  ASSUME NEW t \in Nat, NEW h \in Seq(Packets(t)), NEW p \in Packets(t), NEW S \in SUBSET DOMAIN h
  PROVE  /\ Bytes(h, S) \in Nat
         /\ Bytes(Append(h, p), S) = Bytes(h, S)
         /\ Bytes(Append(h, p), S \cup {Len(h) + 1}) = Bytes(h, S) + p.len
<1> DEFINE g == Append(h, p)
           n == Len(h) + 1
<1>1. /\ n \in Nat /\ IsFiniteSet(DOMAIN h) /\ \A j \in DOMAIN h : h[j] \in Packets(t)
      /\ DOMAIN g = DOMAIN h \cup {n} /\ n \notin DOMAIN h
      /\ \A j \in DOMAIN h : g[j] = h[j]
      /\ g[n] = p
  BY Appended
<1> HIDE DEF g, n
<1>2. IsFiniteSet(S) /\ IsFiniteSet(S \cup {n}) /\ Cardinality(S) \in Nat
  BY <1>1, SubsetFinite, FS_AddElement
<1>3. /\ Bytes(h, S) = SumOver(LenOf(h), S)
      /\ Bytes(g, S) = SumOver(LenOf(g), S)
      /\ Bytes(g, S \cup {n}) = SumOver(LenOf(g), S \cup {n})
  BY <1>1, <1>2, BytesAre
<1>4. /\ \A j \in S : LenOf(h)[j] \in 0 .. Longest - 1 /\ LenOf(g)[j] = LenOf(h)[j]
      /\ LenOf(g)[n] = p.len /\ p.len \in 0 .. Longest - 1
  BY <1>1, PacketIs, LengthsAre DEF LenOf
<1>5. SumOver(LenOf(g), S) = SumOver(LenOf(h), S)
  BY <1>2, <1>4, SumSame
<1>6. SumOver(LenOf(g), S \cup {n}) = SumOver(LenOf(g), S) + p.len
  <2>1. \A j \in S \cup {n} : LenOf(g)[j] \in Int
    BY <1>4
  <2>2. n \notin S
    BY <1>1
  <2> DEFINE f == LenOf(g)
  <2> HIDE DEF f
  <2>3. SumOver(f, S \cup {n}) = SumOver(f, S) + f[n]
    BY <1>2, <2>1, <2>2, SumAdd DEF f
  <2> QED BY <1>4, <2>3 DEF f
<1>7. SumOver(LenOf(h), S) \in Int /\ 0 * Cardinality(S) <= SumOver(LenOf(h), S)
  <2> DEFINE f == LenOf(h)
             hi == Longest - 1
  <2>1. hi \in Int /\ 0 \in Int /\ \A j \in S : f[j] \in 0 .. hi
    BY <1>4, LengthsAre
  <2> HIDE DEF f, hi
  <2>2. SumOver(f, S) \in Int /\ 0 * Cardinality(S) <= SumOver(f, S)
    BY <1>2, <2>1, SumBounds
  <2> QED BY <2>2 DEF f
<1> QED BY <1>2, <1>3, <1>5, <1>6, <1>7 DEF g, n

\* The lengths in a history are lengths.
LEMMA LensBelow ==
  ASSUME NEW t \in Nat, NEW h \in Seq(Packets(t)), NEW S \in SUBSET DOMAIN h
  PROVE  LensIn(h, S) \in SUBSET Below(Longest)
<1>1. \A j \in DOMAIN h : h[j] \in Packets(t)
  BY ElementOfSeq, LenProperties
<1>2. \A j \in S : h[j].len \in Below(Longest)
  BY <1>1, PacketIs, LengthsAre
<1> QED BY <1>2 DEF LensIn

\* Older packets keep their lengths;
LEMMA LensSame ==
  ASSUME NEW t \in Nat, NEW h \in Seq(Packets(t)), NEW p \in Packets(t), NEW S \in SUBSET DOMAIN h
  PROVE  LensIn(Append(h, p), S) = LensIn(h, S)
<1>1. \A j \in S : Append(h, p)[j] = h[j]
  BY Appended
<1> QED BY <1>1 DEF LensIn

\* the new one adds its own.
LEMMA LensMore ==
  ASSUME NEW t \in Nat, NEW h \in Seq(Packets(t)), NEW p \in Packets(t), NEW S \in SUBSET DOMAIN h
  PROVE  LensIn(Append(h, p), S \cup {Len(h) + 1}) = LensIn(h, S) \cup {p.len}
<1>1. \A j \in S : Append(h, p)[j] = h[j]
  BY Appended
<1>2. Append(h, p)[Len(h) + 1] = p
  BY Appended
<1> QED BY <1>1, <1>2 DEF LensIn

\* It joins the packets of its direction.
LEMMA OfAppended ==
  ASSUME NEW t \in Nat, NEW h \in Seq(Packets(t)), NEW p \in Packets(t), NEW dir
  PROVE  /\ Of(h, dir) \subseteq DOMAIN h
         /\ Of(Append(h, p), dir)
              = IF p.client = dir THEN Of(h, dir) \cup {Len(h) + 1} ELSE Of(h, dir)
<1> DEFINE g == Append(h, p)
           n == Len(h) + 1
<1>1. /\ DOMAIN g = DOMAIN h \cup {n} /\ g[n] = p
      /\ \A j \in DOMAIN h : g[j] = h[j]
  BY Appended
<1> HIDE DEF g, n
<1>2. Of(g, dir) = IF p.client = dir THEN Of(h, dir) \cup {n} ELSE Of(h, dir)
  BY <1>1 DEF Of
<1> QED BY <1>2 DEF Of, g, n

\* It is a change of direction if the one before came from the other side.
LEMMA TurnsAppended ==
  ASSUME NEW t \in Nat, NEW h \in Seq(Packets(t)), NEW p \in Packets(t)
  PROVE  /\ Turns(h) \subseteq DOMAIN h
         /\ Turns(Append(h, p))
              = IF Len(h) # 0 /\ h[Len(h)].client # p.client
                  THEN Turns(h) \cup {Len(h) + 1} ELSE Turns(h)
<1> DEFINE g == Append(h, p)
           n == Len(h) + 1
<1>1. /\ Len(h) \in Nat /\ DOMAIN h = 1 .. Len(h)
      /\ DOMAIN g = DOMAIN h \cup {n} /\ g[n] = p
      /\ \A j \in DOMAIN h : g[j] = h[j]
  BY Appended
<1>2. n \in Nat /\ n - 1 = Len(h) /\ (n = 1 <=> Len(h) = 0) /\ n \notin DOMAIN h
  BY <1>1
<1>3. \A j \in DOMAIN h \ {1} : j - 1 \in DOMAIN h
  BY <1>1
<1>4. Len(h) # 0 => Len(h) \in DOMAIN h
  BY <1>1
<1> DEFINE turned == Len(h) # 0 /\ h[Len(h)].client # p.client
<1> HIDE DEF g, n
<1>5. \A j : j \in Turns(g) <=> j \in Turns(h) \/ (j = n /\ turned)
  <2> TAKE j
  <2>1. CASE j \in DOMAIN h
    <3>1. j \in DOMAIN g /\ g[j] = h[j] /\ j # n
      BY <1>1, <1>2, <2>1
    <3>2. j # 1 => g[j - 1] = h[j - 1]
      BY <1>1, <1>3, <2>1
    <3>3. j \in Turns(g) <=> j # 1 /\ g[j].client # g[j - 1].client
      BY <3>1 DEF Turns
    <3>4. j \in Turns(h) <=> j # 1 /\ h[j].client # h[j - 1].client
      BY <2>1 DEF Turns
    <3> QED BY <3>1, <3>2, <3>3, <3>4, Zenon
  <2>2. CASE j = n
    <3>1. CASE Len(h) = 0
      BY <1>1, <1>2, <2>2, <3>1 DEF Turns
    <3>2. CASE Len(h) # 0
      <4>1. g[n - 1] = h[Len(h)]
        BY <1>1, <1>2, <1>4, <3>2
      <4>2. n \in DOMAIN g \ {1}
        BY <1>1, <1>2, <3>2
      <4> QED BY <1>1, <1>2, <2>2, <3>2, <4>1, <4>2 DEF Turns
    <3> QED BY <3>1, <3>2
  <2>3. CASE j \notin DOMAIN h /\ j # n
    BY <1>1, <2>3 DEF Turns
  <2> QED BY <2>1, <2>2, <2>3
<1>6. Turns(g) = IF turned THEN Turns(h) \cup {n} ELSE Turns(h)
  <2> HIDE DEF turned
  <2> QED BY <1>5
<1> QED BY <1>6 DEF Turns, g, n

-----------------------------------------------------------------------------
\* lo and hi are the extremes of V, or above it and 0 when there is nothing.
Extremes(lo, hi, V, top) ==
  IF V = {} THEN lo = top /\ hi = 0
  ELSE lo \in V /\ hi \in V /\ \A v \in V : lo <= v /\ v <= hi

\* The extremes after one more value.
LEMMA ExtremesMore ==
  ASSUME NEW top \in Nat, NEW V \in SUBSET Below(top), NEW lo \in Nat, NEW hi \in Nat,
         Extremes(lo, hi, V, top), NEW x \in Below(top)
  PROVE  Extremes(IF x < lo THEN x ELSE lo, IF x > hi THEN x ELSE hi, V \cup {x}, top)
<1>1. CASE V = {}
  BY <1>1 DEF Extremes, Below
<1>2. CASE V # {}
  <2>1. /\ lo \in V /\ hi \in V /\ V \cup {x} # {}
        /\ \A v \in V : lo <= v /\ v <= hi
    BY <1>2 DEF Extremes
  <2>0. x \in Nat /\ \A v \in V : v \in Nat
    BY DEF Below
  <2> DEFINE l == IF x < lo THEN x ELSE lo
             m == IF x > hi THEN x ELSE hi
  <2>2. l \in V \cup {x} /\ m \in V \cup {x} /\ l \in Nat /\ m \in Nat
    BY <2>0, <2>1
  <2>3. l <= x /\ x <= m /\ l <= lo /\ hi <= m
    BY <2>0, <2>1
  <2> HIDE DEF l, m
  <2>4. \A v \in V \cup {x} : l <= v /\ v <= m
    BY <2>0, <2>1, <2>2, <2>3
  <2>5. Extremes(l, m, V \cup {x}, top)
    BY <2>1, <2>2, <2>4 DEF Extremes
  <2> QED BY <1>2, <2>5 DEF l, m
<1> QED BY <1>1, <1>2

\* What has a value has its extremes among them.
LEMMA ExtremesAre ==
  ASSUME NEW top \in Nat, NEW V \in SUBSET Below(top), NEW lo \in Nat, NEW hi \in Nat,
         Extremes(lo, hi, V, top), V # {}
  PROVE  Min(V) = lo /\ Max(V) = hi
<1>1. V \in SUBSET Int /\ 0 \in Int /\ top - 1 \in Int
      /\ \A v \in V : 0 <= v /\ v <= top - 1
  BY DEF Below
<1>2. Min(V) \in V /\ \A v \in V : Min(V) <= v
  BY <1>1, MinIs
<1>3. Max(V) \in V /\ \A v \in V : v <= Max(V)
  BY <1>1, MaxIs
<1>4. lo \in V /\ hi \in V /\ \A v \in V : lo <= v /\ v <= hi
  BY DEF Extremes
<1>5. Min(V) \in Int /\ Max(V) \in Int
  BY <1>1, <1>2, <1>3
<1> QED BY <1>2, <1>3, <1>4, <1>5

-----------------------------------------------------------------------------
(* Records *)

RecordFields ==
  {"n_client", "n_server", "sum_client", "sum_server", "min_client", "max_client",
   "min_server", "max_server", "last_dir", "dir_switches"}

IsRecords(e) ==
  /\ DOMAIN e = RecordFields
  /\ e.n_client \in Nat /\ e.n_server \in Nat /\ e.sum_client \in Nat
  /\ e.sum_server \in Nat /\ e.min_client \in Nat /\ e.max_client \in Nat
  /\ e.min_server \in Nat /\ e.max_server \in Nat
  /\ e.last_dir \in 0 .. 2 /\ e.dir_switches \in Nat

\* What an entry keeps of the records of one direction.
SideFits(h, dir, n, sum, lo, hi) ==
  /\ n = Cardinality(Of(h, dir))
  /\ sum = Bytes(h, Of(h, dir))
  /\ Extremes(lo, hi, LensIn(h, Of(h, dir)), Longest)

\* The direction changes at most as often as each side allows.
SwitchesFit(nc, ns, last, switches) ==
  \/ last = 0 /\ nc = 0 /\ ns = 0 /\ switches = 0
  \/ last = 1 /\ nc >= 1 /\ switches <= 2 * nc - 1 /\ switches <= 2 * ns
       /\ switches <= nc + ns - 1
  \/ last = 2 /\ ns >= 1 /\ switches <= 2 * ns - 1 /\ switches <= 2 * nc
       /\ switches <= nc + ns - 1

RecordsFit(e, h) ==
  /\ IsRecords(e)
  /\ SideFits(h, TRUE, e.n_client, e.sum_client, e.min_client, e.max_client)
  /\ SideFits(h, FALSE, e.n_server, e.sum_server, e.min_server, e.max_server)
  /\ e.sum_client + e.sum_server = Bytes(h, DOMAIN h)
  /\ e.n_client + e.n_server = Len(h)
  /\ e.last_dir = IF Len(h) = 0 THEN 0 ELSE IF h[Len(h)].client THEN 1 ELSE 2
  /\ e.dir_switches = Cardinality(Turns(h))
  /\ SwitchesFit(e.n_client, e.n_server, e.last_dir, e.dir_switches)

\* A packet of the other direction leaves a side as it is;
LEMMA SideSame ==
  ASSUME NEW t \in Nat, NEW h \in Seq(Packets(t)), NEW p \in Packets(t),
         NEW dir, p.client # dir, NEW n, NEW sum, NEW lo, NEW hi,
         SideFits(h, dir, n, sum, lo, hi)
  PROVE  SideFits(Append(h, p), dir, n, sum, lo, hi)
<1> DEFINE D == Of(h, dir)
<1>1. Of(Append(h, p), dir) = D /\ D \in SUBSET DOMAIN h
  BY OfAppended
<1>2. n = Cardinality(D) /\ sum = Bytes(h, D) /\ Extremes(lo, hi, LensIn(h, D), Longest)
  BY DEF SideFits
<1> HIDE DEF D
<1>3. Bytes(Append(h, p), D) = Bytes(h, D)
  BY <1>1, BytesAppended
<1>4. LensIn(Append(h, p), D) = LensIn(h, D)
  BY <1>1, LensSame
<1> QED BY <1>1, <1>2, <1>3, <1>4 DEF SideFits

\* the first of its own direction opens it;
LEMMA SideFirst ==
  ASSUME NEW t \in Nat, NEW h \in Seq(Packets(t)), NEW dir, NEW n \in Nat,
         n = 0, NEW sum \in Nat, NEW lo \in Nat, NEW hi \in Nat,
         SideFits(h, dir, n, sum, lo, hi)
  PROVE  lo = Longest /\ hi = 0
<1> DEFINE D == Of(h, dir)
<1>1. D \in SUBSET DOMAIN h /\ IsFiniteSet(DOMAIN h)
  BY Appended, LenProperties, FS_Interval DEF Of
<1>2. Cardinality(D) = 0 /\ Extremes(lo, hi, LensIn(h, D), Longest)
  BY DEF SideFits
<1> HIDE DEF D
<1>3. D = {}
  BY <1>1, <1>2, SubsetFinite, FS_EmptySet
<1>4. LensIn(h, D) = {}
  BY <1>3 DEF LensIn
<1> QED BY <1>2, <1>4 DEF Extremes

\* a later one is added to it.
LEMMA SideMore ==
  ASSUME NEW t \in Nat, NEW h \in Seq(Packets(t)), NEW p \in Packets(t),
         NEW dir, p.client = dir, NEW n \in Nat, NEW sum \in Nat,
         NEW lo \in Nat, NEW hi \in Nat,
         SideFits(h, dir, n, sum, lo, hi)
  PROVE  SideFits(Append(h, p), dir, n + 1, sum + p.len, Least(p.len, lo), Greatest(p.len, hi))
<1> DEFINE D == Of(h, dir)
           m == Len(h) + 1
           g == Append(h, p)
           l == Least(p.len, lo)
           r == Greatest(p.len, hi)
<1>1. Of(g, dir) = D \cup {m} /\ D \in SUBSET DOMAIN h
  BY OfAppended
<1>2. m \notin DOMAIN h /\ IsFiniteSet(DOMAIN h)
  BY Appended
<1>3. n = Cardinality(D) /\ sum = Bytes(h, D) /\ Extremes(lo, hi, LensIn(h, D), Longest)
  BY DEF SideFits
<1>4. Extremes(l, r, LensIn(h, D) \cup {p.len}, Longest)
  <2> DEFINE x == p.len
             V == LensIn(h, D)
  <2>1. /\ x \in Below(Longest) /\ V \in SUBSET Below(Longest) /\ Longest \in Nat
        /\ Extremes(lo, hi, V, Longest)
    BY <1>1, <1>3, PacketIs, LengthsAre, LensBelow
  <2> HIDE DEF x, V
  <2>2. Extremes(IF x < lo THEN x ELSE lo, IF x > hi THEN x ELSE hi, V \cup {x}, Longest)
    BY <2>1, ExtremesMore
  <2> QED BY <2>2 DEF x, V, Least, Greatest
<1> HIDE DEF D, m, l, r
<1>5. Bytes(g, D \cup {m}) = Bytes(h, D) + p.len
  BY <1>1, BytesAppended DEF m
<1>6. LensIn(g, D \cup {m}) = LensIn(h, D) \cup {p.len}
  BY <1>1, LensMore DEF m
<1>7. Cardinality(D \cup {m}) = Cardinality(D) + 1
  <2>1. m \notin D /\ IsFiniteSet(D)
    BY <1>1, <1>2, SubsetFinite
  <2> QED BY <2>1, FS_AddElement
<1>8. SideFits(g, dir, n + 1, sum + p.len, l, r)
  BY <1>1, <1>3, <1>4, <1>5, <1>6, <1>7 DEF SideFits
<1> QED BY <1>8 DEF l, r

\* The benchmark's update does what the profile's does: the extremes a window
\* starts from give way to its first record.
IsAdded(u, e, len, client) ==
  /\ DOMAIN u = RecordFields
  /\ u.n_client = IF client THEN e.n_client + 1 ELSE e.n_client
  /\ u.n_server = IF client THEN e.n_server ELSE e.n_server + 1
  /\ u.sum_client = IF client THEN e.sum_client + len ELSE e.sum_client
  /\ u.sum_server = IF client THEN e.sum_server ELSE e.sum_server + len
  /\ u.min_client = IF client THEN Least(len, e.min_client) ELSE e.min_client
  /\ u.max_client = IF client THEN Greatest(len, e.max_client) ELSE e.max_client
  /\ u.min_server = IF client THEN e.min_server ELSE Least(len, e.min_server)
  /\ u.max_server = IF client THEN e.max_server ELSE Greatest(len, e.max_server)
  /\ u.last_dir = IF client THEN 1 ELSE 2
  /\ u.dir_switches = IF e.last_dir \notin {0, IF client THEN 1 ELSE 2}
                      THEN e.dir_switches + 1 ELSE e.dir_switches

\* What tls_update_flow writes, field by field.
LEMMA RecordUpdates ==
  ASSUME NEW t \in Nat, NEW h \in Seq(Packets(t)), NEW p \in Packets(t),
         NEW e, RecordsFit(e, h)
  PROVE  /\ IsAdded(doh_update(e, p.len, p.client), e, p.len, p.client)
         /\ IsAdded(tls_update_flow(e, p.len, p.client), e, p.len, p.client)
<1> DEFINE len == p.len
           c == p.client
<1>1. /\ IsRecords(e)
      /\ SideFits(h, TRUE, e.n_client, e.sum_client, e.min_client, e.max_client)
      /\ SideFits(h, FALSE, e.n_server, e.sum_server, e.min_server, e.max_server)
  BY DEF RecordsFit
<1>2a. /\ e.n_client \in Nat /\ e.n_server \in Nat /\ e.sum_client \in Nat
      /\ e.sum_server \in Nat /\ e.min_client \in Nat /\ e.max_client \in Nat
      /\ e.min_server \in Nat /\ e.max_server \in Nat
  BY <1>1 DEF IsRecords
<1>2. c \in BOOLEAN /\ len \in Nat /\ len < Longest /\ Longest \in Nat
  BY PacketIs, LengthsAre
<1>3. e.n_client = 0 => e.min_client = Longest /\ e.max_client = 0
  BY <1>1, <1>2a, SideFirst
<1>4. e.n_server = 0 => e.min_server = Longest /\ e.max_server = 0
  BY <1>1, <1>2a, SideFirst
<1> HIDE DEF len, c
<1>5. /\ e.n_client = 0 => /\ Least(len, e.min_client) = len
                           /\ Greatest(len, e.max_client) = len
      /\ e.n_server = 0 => /\ Least(len, e.min_server) = len
                           /\ Greatest(len, e.max_server) = len
  BY <1>2, <1>3, <1>4 DEF Least, Greatest
<1>6. IsAdded(doh_update(e, len, c), e, len, c)
  BY <1>1, <1>2, <1>5
     DEF IsRecords, doh_update, IsAdded, RecordFields, ClientRecord, ServerRecord
<1>7. IsAdded(tls_update_flow(e, len, c), e, len, c)
  BY <1>1, <1>2 DEF IsRecords, tls_update_flow, IsAdded, RecordFields
<1> QED BY <1>6, <1>7 DEF len, c

\* The count of direction changes after one more packet.
LEMMA SwitchesMore ==
  ASSUME NEW nc \in Nat, NEW ns \in Nat, NEW last \in 0 .. 2, NEW sw \in Nat,
         SwitchesFit(nc, ns, last, sw)
  PROVE  /\ SwitchesFit(nc + 1, ns, 1, IF last \notin {0, 1} THEN sw + 1 ELSE sw)
         /\ SwitchesFit(nc, ns + 1, 2, IF last \notin {0, 2} THEN sw + 1 ELSE sw)
<1>1. CASE last = 0
  <2>1. nc = 0 /\ ns = 0 /\ sw = 0
    BY <1>1 DEF SwitchesFit
  <2> QED BY <1>1, <2>1 DEF SwitchesFit
<1>2. CASE last = 1
  <2>1. /\ nc >= 1 /\ sw <= 2 * nc - 1 /\ sw <= 2 * ns
        /\ sw <= nc + ns - 1
    BY <1>2 DEF SwitchesFit
  <2> QED BY <1>2, <2>1 DEF SwitchesFit
<1>3. CASE last = 2
  <2>1. /\ ns >= 1 /\ sw <= 2 * ns - 1 /\ sw <= 2 * nc
        /\ sw <= nc + ns - 1
    BY <1>3 DEF SwitchesFit
  <2> QED BY <1>3, <2>1 DEF SwitchesFit
<1> QED BY <1>1, <1>2, <1>3

\* tls_update_flow keeps an entry fitting its records.
LEMMA RecordsMore ==
  ASSUME NEW t \in Nat, NEW h \in Seq(Packets(t)), NEW p \in Packets(t),
         NEW e, RecordsFit(e, h), NEW u, IsAdded(u, e, p.len, p.client)
  PROVE  RecordsFit(u, Append(h, p))
<1> DEFINE g == Append(h, p)
           c == p.client
           len == p.len
<1>1. /\ IsRecords(e)
      /\ SideFits(h, TRUE, e.n_client, e.sum_client, e.min_client, e.max_client)
      /\ SideFits(h, FALSE, e.n_server, e.sum_server, e.min_server, e.max_server)
      /\ e.sum_client + e.sum_server = Bytes(h, DOMAIN h)
      /\ e.n_client + e.n_server = Len(h)
      /\ e.last_dir = IF Len(h) = 0 THEN 0 ELSE IF h[Len(h)].client THEN 1 ELSE 2
      /\ e.dir_switches = Cardinality(Turns(h))
      /\ SwitchesFit(e.n_client, e.n_server, e.last_dir, e.dir_switches)
  BY DEF RecordsFit
<1>2. /\ e.n_client \in Nat /\ e.n_server \in Nat /\ e.sum_client \in Nat
      /\ e.sum_server \in Nat /\ e.min_client \in Nat /\ e.max_client \in Nat
      /\ e.min_server \in Nat /\ e.max_server \in Nat /\ e.last_dir \in 0 .. 2
      /\ e.dir_switches \in Nat
  BY <1>1 DEF IsRecords
<1>3. c \in BOOLEAN /\ len \in Nat
  BY PacketIs, LengthsAre
<1>4. /\ Len(h) \in Nat /\ Len(g) = Len(h) + 1 /\ DOMAIN g = DOMAIN h \cup {Len(h) + 1}
      /\ g[Len(h) + 1] = p /\ Len(h) + 1 \notin DOMAIN h /\ IsFiniteSet(DOMAIN h)
      /\ DOMAIN h = 1 .. Len(h) /\ \A j \in DOMAIN h : h[j] \in Packets(t)
  BY Appended
<1>5. IsAdded(u, e, len, c)
  OBVIOUS
<1>6. IsRecords(u)
  <2> HIDE DEF len, c
  <2>1. /\ Least(len, e.min_client) \in Nat /\ Greatest(len, e.max_client) \in Nat
        /\ Least(len, e.min_server) \in Nat /\ Greatest(len, e.max_server) \in Nat
    BY <1>2, <1>3 DEF Least, Greatest
  <2>2. /\ u.n_client \in Nat /\ u.n_server \in Nat /\ u.dir_switches \in Nat
        /\ u.last_dir \in 0 .. 2
    <3>1. /\ e.n_client + 1 \in Nat /\ e.n_server + 1 \in Nat
          /\ e.dir_switches + 1 \in Nat
      BY <1>2
    <3>2. u.n_client \in Nat
      BY <1>2, <1>3, <1>5, <3>1, Zenon DEF IsAdded
    <3>3. u.n_server \in Nat
      BY <1>2, <1>3, <1>5, <3>1, Zenon DEF IsAdded
    <3>4. u.dir_switches \in Nat
      BY <1>2, <1>3, <1>5, <3>1, Zenon DEF IsAdded
    <3>5. u.last_dir \in 0 .. 2
      BY <1>3, <1>5 DEF IsAdded
    <3> QED BY <3>2, <3>3, <3>4, <3>5
  <2>3. u.sum_client \in Nat /\ u.sum_server \in Nat
    <3>1. e.sum_client + len \in Nat /\ e.sum_server + len \in Nat
      BY <1>2, <1>3
    <3> QED BY <1>2, <1>3, <1>5, <3>1, Zenon DEF IsAdded
  <2>4. /\ u.min_client \in Nat /\ u.max_client \in Nat
        /\ u.min_server \in Nat /\ u.max_server \in Nat
    BY <1>2, <1>3, <1>5, <2>1 DEF IsAdded
  <2>5. DOMAIN u = RecordFields
    BY <1>5 DEF IsAdded
  <2> QED BY <2>2, <2>3, <2>4, <2>5 DEF IsRecords
<1>7. SideFits(g, TRUE, u.n_client, u.sum_client, u.min_client, u.max_client)
  <2>1. CASE c
    <3>1. p.client = TRUE
      BY <1>3, <2>1
    <3>2. SideFits(g, TRUE, e.n_client + 1, e.sum_client + p.len,
                   Least(p.len, e.min_client), Greatest(p.len, e.max_client))
      BY <1>1, <1>2, <3>1, SideMore
    <3> QED BY <1>5, <2>1, <3>2 DEF IsAdded
  <2>2. CASE ~c
    <3>1. p.client # TRUE
      BY <1>3, <2>2
    <3>2. SideFits(g, TRUE, e.n_client, e.sum_client, e.min_client, e.max_client)
      BY <1>1, <3>1, SideSame
    <3> QED BY <1>5, <2>2, <3>2 DEF IsAdded
  <2> QED BY <2>1, <2>2
<1>8. SideFits(g, FALSE, u.n_server, u.sum_server, u.min_server, u.max_server)
  <2>1. CASE ~c
    <3>1. p.client = FALSE
      BY <1>3, <2>1
    <3>2. SideFits(g, FALSE, e.n_server + 1, e.sum_server + p.len,
                   Least(p.len, e.min_server), Greatest(p.len, e.max_server))
      BY <1>1, <1>2, <3>1, SideMore
    <3> QED BY <1>5, <2>1, <3>2 DEF IsAdded
  <2>2. CASE c
    <3>1. p.client # FALSE
      BY <1>3, <2>2
    <3>2. SideFits(g, FALSE, e.n_server, e.sum_server, e.min_server, e.max_server)
      BY <1>1, <3>1, SideSame
    <3> QED BY <1>5, <2>2, <3>2 DEF IsAdded
  <2> QED BY <2>1, <2>2
<1>9. u.sum_client + u.sum_server = Bytes(g, DOMAIN g)
  <2>1. Bytes(g, DOMAIN h \cup {Len(h) + 1}) = Bytes(h, DOMAIN h) + len
    BY BytesAppended
  <2> HIDE DEF len, c, g
  <2>2. \/ /\ u.sum_client = e.sum_client + len /\ u.sum_server = e.sum_server
        \/ /\ u.sum_client = e.sum_client /\ u.sum_server = e.sum_server + len
    BY <1>3, <1>5, Zenon DEF IsAdded
  <2> QED BY <1>1, <1>2, <1>3, <1>4, <2>1, <2>2
<1>10. u.n_client + u.n_server = Len(g)
  <2>1. e.n_client + e.n_server = Len(h) /\ Len(g) = Len(h) + 1
    BY <1>1, <1>4
  <2> HIDE DEF len, c, g
  <2>2. u.n_client + u.n_server = (e.n_client + e.n_server) + 1
    <3>1. \/ u.n_client = e.n_client + 1 /\ u.n_server = e.n_server
          \/ u.n_client = e.n_client /\ u.n_server = e.n_server + 1
      BY <1>3, <1>5, Zenon DEF IsAdded
    <3> QED BY <1>2, <3>1
  <2> QED BY <2>1, <2>2
<1>11. u.last_dir = IF Len(g) = 0 THEN 0 ELSE IF g[Len(g)].client THEN 1 ELSE 2
  <2>1. Len(g) # 0 /\ g[Len(g)].client = c
    BY <1>4
  <2> HIDE DEF len, c, g
  <2> QED BY <1>5, <2>1 DEF IsAdded
<1>12. u.dir_switches = Cardinality(Turns(g))
  <2> DEFINE turned == Len(h) # 0 /\ h[Len(h)].client # c
             m == Len(h) + 1
  <2>1. Turns(g) = (IF turned THEN Turns(h) \cup {m} ELSE Turns(h)) /\ Turns(h) \in SUBSET DOMAIN h
    BY TurnsAppended
  <2>2. turned <=> e.last_dir \notin {0, IF c THEN 1 ELSE 2}
    <3>1. Len(h) # 0 => h[Len(h)].client \in BOOLEAN
      BY <1>4, PacketIs
    <3> DEFINE b == h[Len(h)].client
    <3> HIDE DEF b
    <3>2. e.last_dir = (IF Len(h) = 0 THEN 0 ELSE IF b THEN 1 ELSE 2)
          /\ (Len(h) # 0 => b \in BOOLEAN)
          /\ (turned <=> Len(h) # 0 /\ b # c)
      BY <1>1, <3>1 DEF b
    <3> HIDE DEF turned, c
    <3>3. CASE Len(h) = 0
      BY <3>2, <3>3
    <3>4. CASE Len(h) # 0
      BY <1>3, <3>2, <3>4
    <3> QED BY <3>3, <3>4
  <2>3. m \notin Turns(h) /\ IsFiniteSet(Turns(h))
    BY <1>4, <2>1, SubsetFinite
  <2> HIDE DEF turned, c, g, m, len
  <2>4. Cardinality(Turns(h) \cup {m}) = Cardinality(Turns(h)) + 1
    BY <2>3, FS_AddElement
  <2> QED BY <1>1, <1>5, <2>1, <2>2, <2>4 DEF IsAdded
<1>13. SwitchesFit(u.n_client, u.n_server, u.last_dir, u.dir_switches)
  <2>1. SwitchesFit(e.n_client, e.n_server, e.last_dir, e.dir_switches)
    BY <1>1
  <2> HIDE DEF len, c, g
  <2>2. CASE c
    <3>1. /\ u.n_client = e.n_client + 1 /\ u.n_server = e.n_server /\ u.last_dir = 1
          /\ u.dir_switches = IF e.last_dir \notin {0, 1} THEN e.dir_switches + 1
                                                        ELSE e.dir_switches
      BY <1>5, <2>2 DEF IsAdded
    <3>2. SwitchesFit(e.n_client + 1, e.n_server, 1,
                      IF e.last_dir \notin {0, 1} THEN e.dir_switches + 1 ELSE e.dir_switches)
      BY <1>2, <2>1, SwitchesMore
    <3> QED BY <3>1, <3>2
  <2>3. CASE ~c
    <3>1. /\ u.n_client = e.n_client /\ u.n_server = e.n_server + 1 /\ u.last_dir = 2
          /\ u.dir_switches = IF e.last_dir \notin {0, 2} THEN e.dir_switches + 1
                                                        ELSE e.dir_switches
      BY <1>5, <2>3 DEF IsAdded
    <3>2. SwitchesFit(e.n_client, e.n_server + 1, 2,
                      IF e.last_dir \notin {0, 2} THEN e.dir_switches + 1 ELSE e.dir_switches)
      BY <1>2, <2>1, SwitchesMore
    <3> QED BY <3>1, <3>2
  <2> QED BY <1>3, <2>2, <2>3
<1> QED BY <1>6, <1>7, <1>8, <1>9, <1>10, <1>11, <1>12, <1>13 DEF RecordsFit

-----------------------------------------------------------------------------
(* Windows of records *)

\* The empty history.
LEMMA NoneYet ==
  ASSUME NEW A
  PROVE  /\ <<>> \in Seq(A) /\ Len(<<>>) = 0 /\ DOMAIN <<>> = {}
         /\ \A dir : Of(<<>>, dir) = {}
         /\ Turns(<<>>) = {} /\ LensIn(<<>>, {}) = {} /\ Bytes(<<>>, {}) = 0
<1>1. <<>> \in Seq(A) /\ Len(<<>>) = 0 /\ DOMAIN <<>> = {}
  OBVIOUS
<1>2. \A dir : Of(<<>>, dir) = {}
  BY <1>1 DEF Of
<1>3. Turns(<<>>) = {}
  BY <1>1 DEF Turns
<1>4. LensIn(<<>>, {}) = {}
  BY DEF LensIn
<1>5. Bytes(<<>>, {}) = 0
  BY BytesAre, SumEmpty, FS_EmptySet
<1> QED BY <1>1, <1>2, <1>3, <1>4, <1>5

\* An entry that was just reset fits it.
LEMMA RecordsFresh == RecordsFit(doh_reset_entry, <<>>)
<1> DEFINE e == doh_reset_entry
<1>1. /\ e.n_client = 0 /\ e.n_server = 0 /\ e.sum_client = 0 /\ e.sum_server = 0
      /\ e.max_client = 0 /\ e.max_server = 0
      /\ e.last_dir = 0 /\ e.dir_switches = 0 /\ DOMAIN e = RecordFields
  BY DEF doh_reset_entry, NoRecords, RecordFields
<1>2. e.min_client = Longest /\ e.min_server = Longest
  BY DEF doh_reset_entry, NoRecords
<1> HIDE DEF e
<1>3. Cardinality({}) = 0 /\ Longest \in Nat
  BY FS_EmptySet, LengthsAre
<1>4. IsRecords(e)
  BY <1>1, <1>2, <1>3 DEF IsRecords
<1>5. \A dir : SideFits(<<>>, dir, 0, 0, Longest, 0)
  BY NoneYet, <1>3 DEF SideFits, Extremes
<1>6. SwitchesFit(0, 0, 0, 0)
  BY DEF SwitchesFit
<1>7. Bytes(<<>>, DOMAIN <<>>) = 0 /\ Len(<<>>) = 0 /\ Cardinality(Turns(<<>>)) = 0
  BY NoneYet, <1>3
<1>8. /\ SideFits(<<>>, TRUE, e.n_client, e.sum_client, e.min_client, e.max_client)
      /\ SideFits(<<>>, FALSE, e.n_server, e.sum_server, e.min_server, e.max_server)
      /\ SwitchesFit(e.n_client, e.n_server, e.last_dir, e.dir_switches)
  BY <1>1, <1>2, <1>5, <1>6
<1>9. RecordsFit(e, <<>>)
  <2> DEFINE h == <<>>
  <2>1. /\ e.sum_client + e.sum_server = Bytes(h, DOMAIN h)
        /\ e.n_client + e.n_server = Len(h)
        /\ e.dir_switches = Cardinality(Turns(h))
        /\ Len(h) = 0
    BY <1>1, <1>7
  <2>2. /\ SideFits(h, TRUE, e.n_client, e.sum_client, e.min_client, e.max_client)
        /\ SideFits(h, FALSE, e.n_server, e.sum_server, e.min_server, e.max_server)
    BY <1>8
  <2> HIDE DEF h
  <2>3. RecordsFit(e, h)
    BY <1>1, <1>4, <1>8, <2>1, <2>2 DEF RecordsFit
  <2> QED BY <2>3 DEF h
<1> QED BY <1>9 DEF e

\* The extremes of the union of two sets of values.
LEMMA ExtremesBoth ==
  ASSUME NEW top \in Nat, NEW V \in SUBSET Below(top), NEW W \in SUBSET Below(top),
         NEW lo \in Nat, NEW hi \in Nat, NEW low \in Nat, NEW high \in Nat,
         Extremes(lo, hi, V, top), Extremes(low, high, W, top)
  PROVE  Extremes(Least(lo, low), Greatest(hi, high), V \cup W, top)
<1>0. (\A v \in V : v \in Nat /\ v < top) /\ \A v \in W : v \in Nat /\ v < top
  BY DEF Below
<1>1. CASE V = {} /\ W = {}
  BY <1>1 DEF Extremes, Least, Greatest
<1>2. CASE V = {} /\ W # {}
  <2>1. lo = top /\ hi = 0 /\ V \cup W = W
    BY <1>2 DEF Extremes
  <2>2. low \in W /\ high \in W
    BY <1>2 DEF Extremes
  <2>3. Least(lo, low) = low /\ Greatest(hi, high) = high
    BY <1>0, <2>1, <2>2 DEF Least, Greatest
  <2> QED BY <2>1, <2>3
<1>3. CASE V # {} /\ W = {}
  <2>1. low = top /\ high = 0 /\ V \cup W = V
    BY <1>3 DEF Extremes
  <2>2. lo \in V /\ hi \in V
    BY <1>3 DEF Extremes
  <2>3. Least(lo, low) = lo /\ Greatest(hi, high) = hi
    BY <1>0, <2>1, <2>2 DEF Least, Greatest
  <2> QED BY <2>1, <2>3
<1>4. CASE V # {} /\ W # {}
  <2>1. /\ lo \in V /\ hi \in V /\ \A v \in V : lo <= v /\ v <= hi
        /\ low \in W /\ high \in W /\ \A v \in W : low <= v /\ v <= high
    BY <1>4 DEF Extremes
  <2> DEFINE l == Least(lo, low)
             m == Greatest(hi, high)
  <2>2. /\ l \in V \cup W /\ m \in V \cup W /\ l \in Nat /\ m \in Nat
        /\ l <= lo /\ l <= low /\ hi <= m /\ high <= m
    BY <1>0, <2>1 DEF Least, Greatest
  <2> HIDE DEF l, m
  <2>3. \A v \in V \cup W : l <= v /\ v <= m
    BY <1>0, <2>1, <2>2
  <2>4. Extremes(l, m, V \cup W, top)
    BY <1>4, <2>2, <2>3 DEF Extremes
  <2> QED BY <2>4 DEF l, m
<1> QED BY <1>1, <1>2, <1>3, <1>4

\* The lengths of a history are those of its two directions.
LEMMA LensTogether ==
  ASSUME NEW t \in Nat, NEW h \in Seq(Packets(t))
  PROVE  LensIn(h, DOMAIN h) = LensIn(h, Of(h, TRUE)) \cup LensIn(h, Of(h, FALSE))
<1>1. \A j \in DOMAIN h : h[j].client \in BOOLEAN
  BY ElementOfSeq, LenProperties, PacketIs
<1>2. DOMAIN h = Of(h, TRUE) \cup Of(h, FALSE)
  BY <1>1, Zenon DEF Of
<1> QED BY <1>2 DEF LensIn

\* The extremes over both directions.
LEMMA RecordExtremes ==
  ASSUME NEW t \in Nat, NEW h \in Seq(Packets(t)), Len(h) # 0,
         NEW e, RecordsFit(e, h)
  PROVE  /\ RecordFeatures(e).size_min = Min(LensIn(h, DOMAIN h))
         /\ RecordFeatures(e).size_max = Max(LensIn(h, DOMAIN h))
<1> DEFINE V == LensIn(h, DOMAIN h)
           low == Least(e.min_client, e.min_server)
           high == Greatest(e.max_client, e.max_server)
<1>1. /\ e.n_client \in Nat /\ e.n_server \in Nat /\ e.sum_client \in Nat
      /\ e.sum_server \in Nat /\ e.min_client \in Nat /\ e.max_client \in Nat
      /\ e.min_server \in Nat /\ e.max_server \in Nat
  BY DEF RecordsFit, IsRecords
<1>2. /\ SideFits(h, TRUE, e.n_client, e.sum_client, e.min_client, e.max_client)
      /\ SideFits(h, FALSE, e.n_server, e.sum_server, e.min_server, e.max_server)
  BY DEF RecordsFit
<1>3. e.n_client = 0 => e.min_client = Longest /\ e.max_client = 0
  BY <1>1, <1>2, SideFirst
<1>4. e.n_server = 0 => e.min_server = Longest /\ e.max_server = 0
  BY <1>1, <1>2, SideFirst
<1>5. /\ RecordFeatures(e).size_min = IF low = Longest THEN 0 ELSE low
      /\ RecordFeatures(e).size_max = high
  <2>1. e.min_client = (IF e.n_client > 0 THEN e.min_client ELSE Longest)
    BY <1>1, <1>3
  <2>2. e.min_server = (IF e.n_server > 0 THEN e.min_server ELSE Longest)
    BY <1>1, <1>4
  <2>3. e.max_client = (IF e.n_client > 0 THEN e.max_client ELSE 0)
    BY <1>1, <1>3
  <2>4. e.max_server = (IF e.n_server > 0 THEN e.max_server ELSE 0)
    BY <1>1, <1>4
  <2>5. low = Least(IF e.n_client > 0 THEN e.min_client ELSE Longest,
                    IF e.n_server > 0 THEN e.min_server ELSE Longest)
    BY <2>1, <2>2
  <2>6. high = Greatest(IF e.n_client > 0 THEN e.max_client ELSE 0,
                        IF e.n_server > 0 THEN e.max_server ELSE 0)
    BY <2>3, <2>4
  <2> HIDE DEF low, high
  <2> QED BY <2>5, <2>6 DEF RecordFeatures
<1>6. Of(h, TRUE) \in SUBSET DOMAIN h /\ Of(h, FALSE) \in SUBSET DOMAIN h
  BY DEF Of
<1>7. Extremes(low, high, V, Longest)
  <2> DEFINE A == LensIn(h, Of(h, TRUE))
             B == LensIn(h, Of(h, FALSE))
  <2>1. A \in SUBSET Below(Longest)
    BY <1>6, LensBelow
  <2>2. B \in SUBSET Below(Longest)
    BY <1>6, LensBelow
  <2>3. /\ Extremes(e.min_client, e.max_client, A, Longest)
        /\ Extremes(e.min_server, e.max_server, B, Longest)
        /\ V = A \cup B
    BY <1>2, LensTogether DEF SideFits
  <2> HIDE DEF A, B, V
  <2>4. Extremes(low, high, A \cup B, Longest)
    BY <1>1, <2>1, <2>2, <2>3, ExtremesBoth, LengthsAre
  <2> QED BY <2>3, <2>4
<1>8. V \in SUBSET Below(Longest) /\ Longest \in Nat
  BY LensBelow, LengthsAre
<1>9. V # {}
  <2>1. 1 \in DOMAIN h
    BY LenProperties
  <2> QED BY <2>1 DEF LensIn
<1>10. low \in Nat /\ high \in Nat
  BY <1>1 DEF Least, Greatest
<1> HIDE DEF V, low, high
<1>11. low \in V /\ Min(V) = low /\ Max(V) = high
  BY <1>7, <1>8, <1>9, <1>10, ExtremesAre DEF Extremes
<1>12. low # Longest
  BY <1>8, <1>11 DEF Below
<1> QED BY <1>5, <1>11, <1>12 DEF V

\* What an entry holds is what RecordReference says of its records.
LEMMA RecordsDescribed ==
  ASSUME NEW t \in Nat, NEW h \in Seq(Packets(t)), Len(h) # 0,
         NEW e, RecordsFit(e, h)
  PROVE  RecordFeatures(e) = RecordReference(h)
<1> DEFINE r == RecordFeatures(e)
           low == r.size_min
           high == r.size_max
<1>1. /\ r.size_min = Min(LensIn(h, DOMAIN h)) /\ r.size_max = Max(LensIn(h, DOMAIN h))
  BY RecordExtremes
<1>2. r = [n_client |-> e.n_client, n_server |-> e.n_server,
         client_bytes |-> e.sum_client,
         total_bytes |-> e.sum_client + e.sum_server,
         size_min |-> low, size_max |-> high,
         size_sum |-> e.sum_client + e.sum_server,
         dir_switches |-> e.dir_switches]
  BY DEF RecordFeatures
<1>3. /\ e.n_client = Cardinality(Of(h, TRUE)) /\ e.n_server = Cardinality(Of(h, FALSE))
      /\ e.sum_client = Bytes(h, Of(h, TRUE))
      /\ e.sum_client + e.sum_server = Bytes(h, DOMAIN h)
      /\ e.dir_switches = Cardinality(Turns(h))
  BY DEF RecordsFit, SideFits
<1> HIDE DEF r
<1> QED BY <1>1, <1>2, <1>3, ReferenceIs DEF r

\* What lies between its extremes as often as there are summands.
LEMMA BytesBetween ==
  ASSUME NEW t \in Nat, NEW h \in Seq(Packets(t)), Len(h) # 0
  PROVE  /\ Min(LensIn(h, DOMAIN h)) \in Nat /\ Max(LensIn(h, DOMAIN h)) \in Nat
         /\ Min(LensIn(h, DOMAIN h)) * Len(h) <= Bytes(h, DOMAIN h)
         /\ Bytes(h, DOMAIN h) <= Max(LensIn(h, DOMAIN h)) * Len(h)
<1> DEFINE V == LensIn(h, DOMAIN h)
           f == LenOf(h)
<1>1. /\ Len(h) \in Nat /\ DOMAIN h = 1 .. Len(h) /\ IsFiniteSet(DOMAIN h)
      /\ Cardinality(DOMAIN h) = Len(h)
  BY LenProperties, FS_Interval
<1>2. V \in SUBSET Below(Longest) /\ Longest \in Nat
  BY LensBelow, LengthsAre
<1>3. V # {} /\ \A j \in DOMAIN h : f[j] \in V
  <2>1. 1 \in DOMAIN h
    BY <1>1
  <2> QED BY <2>1 DEF LensIn, LenOf
<1> HIDE DEF V, f
<1>4. V \in SUBSET Int /\ 0 \in Int /\ Longest - 1 \in Int
      /\ \A v \in V : 0 <= v /\ v <= Longest - 1
  BY <1>2 DEF Below
<1>5. Min(V) \in V /\ \A v \in V : Min(V) <= v
  BY <1>3, <1>4, MinIs
<1>6. Max(V) \in V /\ \A v \in V : v <= Max(V)
  BY <1>3, <1>4, MaxIs
<1> DEFINE lo == Min(V)
           hi == Max(V)
<1>7. lo \in V /\ hi \in V /\ \A v \in V : lo <= v /\ v <= hi
  BY <1>5, <1>6
<1> HIDE DEF lo, hi
<1>8. lo \in Nat /\ hi \in Nat
  BY <1>4, <1>7
<1>9. /\ lo * Cardinality(DOMAIN h) <= SumOver(f, DOMAIN h)
      /\ SumOver(f, DOMAIN h) <= hi * Cardinality(DOMAIN h)
  <2>1. \A j \in DOMAIN h : f[j] \in lo .. hi
    <3> TAKE j \in DOMAIN h
    <3>1. f[j] \in V
      BY <1>3
    <3>2. f[j] \in Int /\ lo <= f[j] /\ f[j] <= hi
      BY <1>4, <1>7, <3>1
    <3> QED BY <1>8, <3>2
  <2>2. lo \in Int /\ hi \in Int
    BY <1>8
  <2> QED BY <1>1, <2>1, <2>2, SumBounds
<1>10. Bytes(h, DOMAIN h) = SumOver(f, DOMAIN h)
  BY <1>1, BytesAre DEF f
<1> QED BY <1>1, <1>8, <1>9, <1>10 DEF V, lo, hi

\* There are fewer changes of direction than records.
LEMMA SwitchesBound ==
  ASSUME NEW nc \in Nat, NEW ns \in Nat, NEW last \in 0 .. 2, NEW sw \in Nat,
         SwitchesFit(nc, ns, last, sw), last # 0
  PROVE  sw <= (nc + ns) - 1 /\ sw <= 2 * nc /\ sw <= 2 * ns
<1>1. CASE last = 1
  BY <1>1 DEF SwitchesFit
<1>2. CASE last = 2
  BY <1>2 DEF SwitchesFit
<1> QED BY <1>1, <1>2

\* doh_contract accepts what an entry of n records holds.
LEMMA RecordsAccepted ==
  ASSUME NEW t \in Nat, NEW h \in Seq(Packets(t)), Len(h) # 0,
         NEW e, RecordsFit(e, h)
  PROVE  validate_doh(RecordFeatures(e), Len(h))
<1> DEFINE r == RecordFeatures(e)
<1>1. /\ r.size_min = Min(LensIn(h, DOMAIN h)) /\ r.size_max = Max(LensIn(h, DOMAIN h))
  BY RecordExtremes
<1>2. /\ r.n_client = e.n_client /\ r.n_server = e.n_server
      /\ r.client_bytes = e.sum_client
      /\ r.total_bytes = e.sum_client + e.sum_server
      /\ r.size_sum = e.sum_client + e.sum_server
      /\ r.dir_switches = e.dir_switches
  BY DEF RecordFeatures
<1>3. /\ e.sum_client + e.sum_server = Bytes(h, DOMAIN h)
      /\ e.n_client + e.n_server = Len(h)
      /\ SwitchesFit(e.n_client, e.n_server, e.last_dir, e.dir_switches)
      /\ e.n_client \in Nat /\ e.n_server \in Nat /\ e.sum_client \in Nat
      /\ e.sum_server \in Nat /\ e.last_dir \in 0 .. 2 /\ e.dir_switches \in Nat
      /\ e.last_dir # 0
  <2>1. Len(h) \in DOMAIN h
    BY LenProperties
  <2> QED BY <2>1 DEF RecordsFit, IsRecords
<1> HIDE DEF r
<1>4. /\ r.size_min * Len(h) <= r.size_sum
      /\ r.size_sum <= r.size_max * Len(h)
  BY <1>1, <1>2, <1>3, BytesBetween
<1>5. r.client_bytes \in 0 .. r.total_bytes
  BY <1>2, <1>3
<1>6. /\ e.dir_switches <= (e.n_client + e.n_server) - 1
      /\ e.dir_switches <= 2 * e.n_client /\ e.dir_switches <= 2 * e.n_server
  BY <1>3, SwitchesBound
<1>7. /\ r.dir_switches <= Len(h) - 1
      /\ r.dir_switches <= 2 * Least(r.n_client, r.n_server)
  BY <1>2, <1>3, <1>6 DEF Least
<1>8. r.n_client + r.n_server = Len(h)
  BY <1>2, <1>3
<1>9. validate_doh(r, Len(h))
  BY <1>4, <1>5, <1>7, <1>8 DEF validate_doh
<1> QED BY <1>9 DEF r

-----------------------------------------------------------------------------
(* Gaps and flags of a history *)

\* g keeps the summands of f in S and has one at n; all are below top.
Summands(f, g, S, n, top) == /\ \A j \in S : f[j] \in Below(top) /\ g[j] = f[j]
                             /\ g[n] \in Below(top)

\* A sum with one summand more.
LEMMA SumExtended ==
  ASSUME NEW S, IsFiniteSet(S), NEW n, n \notin S, NEW f, NEW g, NEW top \in Nat,
         Summands(f, g, S, n, top)
  PROVE  /\ SumOver(f, S) \in Nat
         /\ SumOver(g, S \cup {n}) = SumOver(f, S) + g[n]
<1>1. /\ \A j \in S : f[j] \in 0 .. top - 1
      /\ \A j \in S \cup {n} : g[j] \in Int
      /\ \A j \in S : f[j] = g[j]
  BY DEF Below, Summands
<1>2. SumOver(f, S) \in Int /\ 0 * Cardinality(S) <= SumOver(f, S)
  <2>1. 0 \in Int /\ top - 1 \in Int
    OBVIOUS
  <2> QED BY <1>1, <2>1, SumBounds
<1>3. Cardinality(S) \in Nat
  BY FS_CardinalityType
<1>4. SumOver(g, S) = SumOver(f, S)
  BY <1>1, SumSame
<1>5. SumOver(g, S \cup {n}) = SumOver(g, S) + g[n]
  BY <1>1, SumAdd
<1> QED BY <1>2, <1>3, <1>4, <1>5

Later(h) == DOMAIN h \ {1}
GapOf(h) == [j \in Later(h) |-> h[j].time - h[j - 1].time]
GapsIn(h) == {h[j].time - h[j - 1].time : j \in Later(h)}
FlagsOf(h) == [j \in DOMAIN h |-> h[j].flags]
Waits(h) == MapThenSumSet(LAMBDA j : h[j].time - h[j - 1].time, Later(h))
Marks(h) == MapThenSumSet(LAMBDA j : h[j].flags, DOMAIN h)

\* PacketReference in the terms above.
LEMMA PacketReferenceIs ==
  ASSUME NEW h
  PROVE PacketReference(h) =
         [count |-> Len(h),
         len_min |-> Min(LensIn(h, DOMAIN h)), len_max |-> Max(LensIn(h, DOMAIN h)),
         len_sum |-> Bytes(h, DOMAIN h),
         iat_min |-> IF GapsIn(h) = {} THEN 0 ELSE Min(GapsIn(h)),
         iat_max |-> IF GapsIn(h) = {} THEN 0 ELSE Max(GapsIn(h)),
         iat_sum |-> Waits(h),
         flags |-> Marks(h)]
BY DEF PacketReference, LensIn, Bytes, GapsIn, Later, Waits, Marks

WaitStep(g, h, s) == IF s = {} THEN 0
                     ELSE (h[Pick(s)].time - h[Pick(s) - 1].time) + g[s \ {Pick(s)}]
IsWaits(g, h) == g = [s \in SUBSET Later(h) |-> WaitStep(g, h, s)]

\* The gaps of a history are summed over a finite set,
LEMMA WaitsAre ==
  ASSUME NEW h, IsFiniteSet(Later(h))
  PROVE  Waits(h) = SumOver(GapOf(h), Later(h))
<1>1. Waits(h) = (CHOOSE g : IsWaits(g, h))[Later(h)]
  BY DEF Waits, MapThenSumSet, MapThenFoldSet, IsWaits, WaitStep, Pick
<1>2. ASSUME NEW g PROVE IsWaits(g, h) <=> IsSum(g, GapOf(h), Later(h))
  <2> DEFINE a(s) == SumStep(g, GapOf(h), s)
             b(s) == WaitStep(g, h, s)
  <2>1. \A s \in SUBSET Later(h) : a(s) = b(s)
    BY SubsetSize DEF SumStep, WaitStep, GapOf
  <2> HIDE DEF a, b
  <2>2. [s \in SUBSET Later(h) |-> a(s)] = [s \in SUBSET Later(h) |-> b(s)]
    BY <2>1
  <2> QED BY <2>2 DEF IsSum, IsWaits, a, b
<1>3. (CHOOSE g : IsWaits(g, h)) = (CHOOSE g : IsSum(g, GapOf(h), Later(h)))
  BY <1>2
<1> QED BY <1>1, <1>3, SumIs

MarkStep(g, h, s) == IF s = {} THEN 0 ELSE h[Pick(s)].flags + g[s \ {Pick(s)}]
IsMarks(g, h) == g = [s \in SUBSET DOMAIN h |-> MarkStep(g, h, s)]

\* and so are its flags.
LEMMA MarksAre ==
  ASSUME NEW h, IsFiniteSet(DOMAIN h)
  PROVE  Marks(h) = SumOver(FlagsOf(h), DOMAIN h)
<1>1. Marks(h) = (CHOOSE g : IsMarks(g, h))[DOMAIN h]
  BY DEF Marks, MapThenSumSet, MapThenFoldSet, IsMarks, MarkStep, Pick
<1>2. ASSUME NEW g PROVE IsMarks(g, h) <=> IsSum(g, FlagsOf(h), DOMAIN h)
  <2> DEFINE a(s) == SumStep(g, FlagsOf(h), s)
             b(s) == MarkStep(g, h, s)
  <2>1. \A s \in SUBSET DOMAIN h : a(s) = b(s)
    BY SubsetSize DEF SumStep, MarkStep, FlagsOf
  <2> HIDE DEF a, b
  <2>2. [s \in SUBSET DOMAIN h |-> a(s)] = [s \in SUBSET DOMAIN h |-> b(s)]
    BY <2>1
  <2> QED BY <2>2 DEF IsSum, IsMarks, a, b
<1>3. (CHOOSE g : IsMarks(g, h)) = (CHOOSE g : IsSum(g, FlagsOf(h), DOMAIN h))
  BY <1>2
<1> QED BY <1>1, <1>3, SumIs

-----------------------------------------------------------------------------
\* The packets of a stream come one after the other, and the run is not so
\* long that a gap reaches the mark for none.
Timely(h) == \A j \in Later(h) : h[j].time - h[j - 1].time \in Below(Never)

\* The packets after the first, with one more.
LEMMA LaterAppended ==
  ASSUME NEW t \in Nat, NEW h \in Seq(Packets(t)), NEW p \in Packets(t)
  PROVE  Later(Append(h, p)) = IF Len(h) = 0 THEN {} ELSE Later(h) \cup {Len(h) + 1}
<1> DEFINE g == Append(h, p)
           n == Len(h) + 1
<1>1. /\ Len(h) \in Nat /\ DOMAIN h = 1 .. Len(h)
      /\ DOMAIN g = DOMAIN h \cup {n}
  BY Appended
<1>2. (n = 1 <=> Len(h) = 0) /\ (Len(h) = 0 => DOMAIN h = {})
  BY <1>1
<1> HIDE DEF g, n
<1>3. Later(g) = IF Len(h) = 0 THEN {} ELSE Later(h) \cup {n}
  BY <1>1, <1>2 DEF Later
<1> QED BY <1>3 DEF g, n

\* There is one packet fewer after the first than there are.
LEMMA LaterIs ==
  ASSUME NEW t \in Nat, NEW h \in Seq(Packets(t))
  PROVE  /\ Len(h) \in Nat /\ IsFiniteSet(Later(h)) /\ Len(h) + 1 \notin Later(h)
         /\ \A j \in Later(h) : j \in DOMAIN h /\ j - 1 \in DOMAIN h
         /\ Len(h) # 0 => Len(h) \in DOMAIN h
<1>1. Len(h) \in Nat /\ DOMAIN h = 1 .. Len(h) /\ IsFiniteSet(DOMAIN h)
  BY LenProperties, FS_Interval
<1>2. IsFiniteSet(Later(h))
  BY <1>1, SubsetFinite DEF Later
<1> QED BY <1>1, <1>2 DEF Later

\* Older packets keep their times.
LEMMA LaterSame ==
  ASSUME NEW t \in Nat, NEW h \in Seq(Packets(t)), NEW p \in Packets(t)
  PROVE  \A j \in Later(h) : Append(h, p)[j] = h[j] /\ Append(h, p)[j - 1] = h[j - 1]
<1>1. \A j \in DOMAIN h : Append(h, p)[j] = h[j]
  BY Appended
<1> QED BY <1>1, LaterIs

\* The packet added is the last one.
LEMMA LastSame ==
  ASSUME NEW t \in Nat, NEW h \in Seq(Packets(t)), NEW p \in Packets(t)
  PROVE  /\ Append(h, p)[Len(h) + 1] = p
         /\ Len(h) # 0 => Append(h, p)[(Len(h) + 1) - 1] = h[Len(h)]
<1>1. \A j \in DOMAIN h : Append(h, p)[j] = h[j]
  BY Appended
<1>2. Append(h, p)[Len(h) + 1] = p
  BY Appended
<1>3. (Len(h) + 1) - 1 = Len(h)
  BY LaterIs
<1> QED BY <1>1, <1>2, <1>3, LaterIs

InTime(h, p) == Len(h) # 0 => p.time - h[Len(h)].time \in Below(Never)

\* A packet in time keeps the history timely.
LEMMA TimelyMore ==
  ASSUME NEW t \in Nat, NEW h \in Seq(Packets(t)), NEW p \in Packets(t),
         Timely(h), InTime(h, p)
  PROVE  Timely(Append(h, p))
<1> DEFINE g == Append(h, p)
           n == Len(h) + 1
<1>1. /\ Later(g) = IF Len(h) = 0 THEN {} ELSE Later(h) \cup {n}
      /\ \A j \in Later(h) : g[j] = h[j] /\ g[j - 1] = h[j - 1]
      /\ g[n] = p /\ (Len(h) # 0 => g[n - 1] = h[Len(h)])
  <2>1. Later(g) = IF Len(h) = 0 THEN {} ELSE Later(h) \cup {n}
    BY LaterAppended
  <2>2. \A j \in Later(h) : g[j] = h[j] /\ g[j - 1] = h[j - 1]
    BY LaterSame
  <2>3. g[n] = p /\ (Len(h) # 0 => g[n - 1] = h[Len(h)])
    BY LastSame
  <2> HIDE DEF g, n
  <2> QED BY <2>1, <2>2, <2>3
<1> HIDE DEF g, n
<1>2. CASE Len(h) = 0
  BY <1>1, <1>2 DEF Timely, g
<1>3. CASE Len(h) # 0
  <2>1. g[n].time - g[n - 1].time \in Below(Never)
    BY <1>1, <1>3 DEF InTime
  <2>2. \A j \in Later(h) : g[j].time - g[j - 1].time \in Below(Never)
    BY <1>1 DEF Timely
  <2> QED BY <1>1, <1>3, <2>1, <2>2 DEF Timely, g
<1> QED BY <1>2, <1>3

\* The mark for no gap is above every span of the clock.
LEMMA NeverIs == Never \in Nat /\ Never > 1000 * 1000
BY SMT DEF Never

\* The gaps of a timely history are below the mark.
LEMMA GapsBelow ==
  ASSUME NEW h, Timely(h)
  PROVE  /\ GapsIn(h) \in SUBSET Below(Never) /\ Never \in Nat
         /\ GapsIn(h) = {} <=> Later(h) = {}
<1>1. Never \in Nat
  BY NeverIs
<1> QED BY <1>1 DEF Timely, GapsIn

\* A single packet leaves no gap.
LEMMA GapsFirst ==
  ASSUME NEW t \in Nat, NEW h \in Seq(Packets(t)), NEW p \in Packets(t), Len(h) = 0
  PROVE  GapsIn(Append(h, p)) = {} /\ Waits(Append(h, p)) = 0
<1>1. Later(Append(h, p)) = {}
  BY LaterAppended
<1>2. GapsIn(Append(h, p)) = {}
  BY <1>1 DEF GapsIn
<1>3. Waits(Append(h, p)) = SumOver(GapOf(Append(h, p)), {})
  BY <1>1, WaitsAre, FS_EmptySet
<1> QED BY <1>2, <1>3, SumEmpty

\* The next packet adds the gap before it,
LEMMA GapsMore ==
  ASSUME NEW t \in Nat, NEW h \in Seq(Packets(t)), NEW p \in Packets(t), Len(h) # 0
  PROVE  GapsIn(Append(h, p)) = GapsIn(h) \cup {p.time - h[Len(h)].time}
<1> DEFINE g == Append(h, p)
           n == Len(h) + 1
<1>1. /\ Later(g) = Later(h) \cup {n}
      /\ \A j \in Later(h) : g[j] = h[j] /\ g[j - 1] = h[j - 1]
      /\ g[n] = p /\ g[n - 1] = h[Len(h)]
  <2>1. Later(g) = Later(h) \cup {n}
    BY LaterAppended
  <2>2. \A j \in Later(h) : g[j] = h[j] /\ g[j - 1] = h[j - 1]
    BY LaterSame
  <2>3. g[n] = p /\ g[n - 1] = h[Len(h)]
    BY LastSame
  <2> HIDE DEF g, n
  <2> QED BY <2>1, <2>2, <2>3
<1> HIDE DEF g, n
<1>2. GapsIn(g) = GapsIn(h) \cup {p.time - h[Len(h)].time}
  BY <1>1 DEF GapsIn
<1> QED BY <1>2 DEF g

\* to their sum too,
LEMMA WaitsMore ==
  ASSUME NEW t \in Nat, NEW h \in Seq(Packets(t)), NEW p \in Packets(t), Len(h) # 0,
         Timely(h), InTime(h, p)
  PROVE  /\ Waits(h) \in Nat
         /\ Waits(Append(h, p)) = Waits(h) + (p.time - h[Len(h)].time)
<1> DEFINE g == Append(h, p)
           n == Len(h) + 1
           S == Later(h)
           a == GapOf(h)
           b == GapOf(g)
<1>1. /\ Later(g) = S \cup {n} /\ n \notin S /\ IsFiniteSet(S)
      /\ \A j \in S : g[j] = h[j] /\ g[j - 1] = h[j - 1]
      /\ g[n] = p /\ g[n - 1] = h[Len(h)]
  <2>1. Later(g) = S \cup {n}
    BY LaterAppended
  <2>2. \A j \in S : g[j] = h[j] /\ g[j - 1] = h[j - 1]
    BY LaterSame
  <2>3. g[n] = p /\ g[n - 1] = h[Len(h)]
    BY LastSame
  <2>4. n \notin S /\ IsFiniteSet(S)
    BY LaterIs
  <2> HIDE DEF g, n, S
  <2> QED BY <2>1, <2>2, <2>3, <2>4
<1>2. IsFiniteSet(S \cup {n})
  BY <1>1, FS_AddElement
<1> HIDE DEF g, n
<1>3. Waits(h) = SumOver(a, S) /\ Waits(g) = SumOver(b, S \cup {n})
  BY <1>1, <1>2, WaitsAre
<1>4. /\ \A j \in S : a[j] \in Below(Never) /\ b[j] = a[j]
      /\ b[n] = p.time - h[Len(h)].time
  BY <1>1 DEF GapOf, Timely
<1>5. b[n] \in Below(Never) /\ Never \in Nat
  BY <1>4, NeverIs DEF InTime
<1> HIDE DEF a, b, S
<1>6. SumOver(a, S) \in Nat /\ SumOver(b, S \cup {n}) = SumOver(a, S) + b[n]
  <2>1. IsFiniteSet(S) /\ n \notin S
    BY <1>1
  <2>2. Summands(a, b, S, n, Never)
    BY <1>4, <1>5 DEF Summands
  <2> QED BY <1>5, <2>1, <2>2, SumExtended
<1> QED BY <1>3, <1>4, <1>6 DEF g

\* and its flags to theirs.
LEMMA MarksMore ==
  ASSUME NEW t \in Nat, NEW h \in Seq(Packets(t)), NEW p \in Packets(t)
  PROVE  /\ Marks(h) \in Nat /\ Marks(Append(h, p)) = Marks(h) + p.flags
<1> DEFINE g == Append(h, p)
           n == Len(h) + 1
           S == DOMAIN h
           a == FlagsOf(h)
           b == FlagsOf(g)
<1>1. /\ DOMAIN g = S \cup {n} /\ n \notin S /\ IsFiniteSet(S)
      /\ \A j \in S : g[j] = h[j] /\ h[j] \in Packets(t)
      /\ g[n] = p
  BY Appended
<1>2. IsFiniteSet(S \cup {n})
  BY <1>1, FS_AddElement
<1> HIDE DEF g, n
<1>3. Marks(h) = SumOver(a, S) /\ Marks(g) = SumOver(b, S \cup {n})
  BY <1>1, <1>2, MarksAre
<1>4. /\ \A j \in S : a[j] = h[j].flags /\ b[j] = a[j]
      /\ b[n] = p.flags
  BY <1>1 DEF FlagsOf
<1>5. \A q \in Packets(t) : q.flags \in Below(9)
  BY PacketIs DEF Below
<1>6. (\A j \in S : a[j] \in Below(9)) /\ b[n] \in Below(9) /\ 9 \in Nat
  BY <1>1, <1>4, <1>5
<1> HIDE DEF a, b, S
<1>7. SumOver(a, S) \in Nat /\ SumOver(b, S \cup {n}) = SumOver(a, S) + b[n]
  <2>1. IsFiniteSet(S) /\ n \notin S
    BY <1>1
  <2>2. Summands(a, b, S, n, 9)
    BY <1>4, <1>6 DEF Summands
  <2> QED BY <1>6, <2>1, <2>2, SumExtended
<1> QED BY <1>3, <1>4, <1>7 DEF g

\* The flags of a single packet.
LEMMA MarksFirst ==
  ASSUME NEW h, DOMAIN h = {} PROVE Marks(h) = 0
BY MarksAre, SumEmpty, FS_EmptySet

-----------------------------------------------------------------------------
(* Windows of packets *)

PacketsKept(e, h) ==
  /\ e.last_tsc = h[Len(h)].time /\ e.flags = Marks(h)
  /\ e.len_sum = Bytes(h, DOMAIN h) /\ e.iat_sum = Waits(h)
  /\ e.len_min \in Nat /\ e.len_max \in Nat
  /\ Extremes(e.len_min, e.len_max, LensIn(h, DOMAIN h), Longest)
  /\ e.iat_min \in Nat /\ e.iat_max \in Nat
  /\ Extremes(e.iat_min, e.iat_max, GapsIn(h), Never)

PacketFields ==
  {"pkt_count", "last_tsc", "flags", "len_min", "len_max", "len_sum",
   "iat_min", "iat_max", "iat_sum"}

\* What an entry keeps of the packets; the first overwrites all of it.
PacketsFit(e, h) ==
  /\ DOMAIN e = PacketFields
  /\ e.pkt_count = Len(h) /\ Timely(h)
  /\ Len(h) # 0 => PacketsKept(e, h)

\* The lesser of two numbers.
LEMMA MinOfTwo ==
  ASSUME NEW a \in Int, NEW b \in Int
  PROVE  Min({a, b}) = IF a < b THEN a ELSE b
<1> DEFINE V == {a, b}
           m == Min(V)
           lo == IF a < b THEN a ELSE b
<1>1. V \in SUBSET Int /\ V # {} /\ lo \in Int /\ \A v \in V : lo <= v
  OBVIOUS
<1>2. m \in V /\ \A v \in V : m <= v
  <2> HIDE DEF V, lo
  <2> QED BY <1>1, MinIs
<1> HIDE DEF m
<1>3. m = lo
  BY <1>2
<1> QED BY <1>3 DEF m

\* The greater of two numbers.
LEMMA MaxOfTwo ==
  ASSUME NEW a \in Int, NEW b \in Int
  PROVE  Max({a, b}) = IF a > b THEN a ELSE b
<1> DEFINE V == {a, b}
           m == Max(V)
           hi == IF a > b THEN a ELSE b
<1>1. V \in SUBSET Int /\ V # {} /\ hi \in Int /\ \A v \in V : v <= hi
  OBVIOUS
<1>2. m \in V /\ \A v \in V : v <= m
  <2> HIDE DEF V, hi
  <2> QED BY <1>1, MaxIs
<1> HIDE DEF m
<1>3. m = hi
  BY <1>2
<1> QED BY <1>3 DEF m

\* One value is both extremes.
LEMMA ExtremesOne ==
  ASSUME NEW x, NEW top, x \in Nat
  PROVE  Extremes(x, x, {x}, top)
BY DEF Extremes

\* Lengths and bytes of the whole history with one packet more.
LEMMA WholeMore ==
  ASSUME NEW t \in Nat, NEW h \in Seq(Packets(t)), NEW p \in Packets(t)
  PROVE  /\ LensIn(Append(h, p), DOMAIN Append(h, p)) = LensIn(h, DOMAIN h) \cup {p.len}
         /\ Bytes(Append(h, p), DOMAIN Append(h, p)) = Bytes(h, DOMAIN h) + p.len
<1> DEFINE D == DOMAIN h
<1>1. D \in SUBSET DOMAIN h
  OBVIOUS
<1>2. DOMAIN Append(h, p) = D \cup {Len(h) + 1}
  BY Appended
<1> HIDE DEF D
<1>3. LensIn(Append(h, p), D \cup {Len(h) + 1}) = LensIn(h, D) \cup {p.len}
  BY <1>1, LensMore
<1>4. Bytes(Append(h, p), D \cup {Len(h) + 1}) = Bytes(h, D) + p.len
  BY <1>1, BytesAppended
<1> QED BY <1>2, <1>3, <1>4 DEF D

\* iot_update makes an entry fit its first packet;
LEMMA PacketsFirst ==
  ASSUME NEW t \in Nat, NEW h \in Seq(Packets(t)), NEW p \in Packets(t), Len(h) = 0,
         NEW e, e.pkt_count = 0
  PROVE  PacketsFit(iot_update(e, p.len, p.time, p.flags), Append(h, p))
<1> DEFINE g == Append(h, p)
           n == Len(h) + 1
           u == iot_update(e, p.len, p.time, p.flags)
<1>1. /\ u.pkt_count = 1 /\ u.last_tsc = p.time /\ u.flags = p.flags
      /\ u.len_min = p.len /\ u.len_max = p.len /\ u.len_sum = p.len
      /\ u.iat_min = Never /\ u.iat_max = 0 /\ u.iat_sum = 0
  BY DEF iot_update
<1>2. /\ Len(g) = 1 /\ DOMAIN g = DOMAIN h \cup {n} /\ n = 1 /\ DOMAIN h = {}
      /\ g[1] = p
  BY Appended
<1>3. p.len \in Nat /\ p.flags \in Nat
  BY PacketIs, LengthsAre
<1>5. LensIn(g, DOMAIN g) = LensIn(h, DOMAIN h) \cup {p.len}
  BY WholeMore
<1>6. Bytes(g, DOMAIN g) = Bytes(h, DOMAIN h) + p.len
  BY WholeMore
<1>7. Marks(g) = Marks(h) + p.flags
  BY MarksMore
<1>8. GapsIn(g) = {} /\ Waits(g) = 0 /\ Later(g) = {}
  BY GapsFirst, LaterAppended
<1>9. Marks(h) = 0
  BY <1>2, MarksFirst
<1>10. Bytes(h, DOMAIN h) = 0
  BY <1>2, BytesAre, SumEmpty, FS_EmptySet
<1>11. LensIn(h, DOMAIN h) = {}
  BY <1>2 DEF LensIn
<1> HIDE DEF g, n, u
<1>12. Never \in Nat /\ Timely(g)
  BY <1>8, NeverIs DEF Timely
<1>13. Extremes(u.len_min, u.len_max, LensIn(g, DOMAIN g), Longest)
  BY <1>1, <1>2, <1>3, <1>5, <1>11, ExtremesOne
<1>14. Extremes(u.iat_min, u.iat_max, GapsIn(g), Never)
  BY <1>1, <1>8 DEF Extremes
<1>15. Marks(g) = p.flags /\ Bytes(g, DOMAIN g) = p.len
  BY <1>2, <1>3, <1>6, <1>7, <1>9, <1>10
<1>16. PacketsKept(u, g)
  BY <1>1, <1>2, <1>3, <1>8, <1>12, <1>13, <1>14, <1>15 DEF PacketsKept
<1>17. DOMAIN u = PacketFields
  BY DEF u, iot_update, PacketFields
<1> QED BY <1>1, <1>2, <1>12, <1>16, <1>17 DEF PacketsFit, g, u

\* a later packet keeps it fitting;
LEMMA PacketsMore ==
  ASSUME NEW t \in Nat, NEW h \in Seq(Packets(t)), NEW p \in Packets(t), Len(h) # 0,
         InTime(h, p), NEW e, PacketsFit(e, h)
  PROVE  PacketsFit(iot_update(e, p.len, p.time, p.flags), Append(h, p))
<1> DEFINE g == Append(h, p)
           n == Len(h) + 1
           gap == p.time - h[Len(h)].time
           u == iot_update(e, p.len, p.time, p.flags)
<1>1. /\ e.pkt_count = Len(h) /\ Timely(h)
      /\ e.last_tsc = h[Len(h)].time /\ e.flags = Marks(h)
      /\ e.len_sum = Bytes(h, DOMAIN h) /\ e.iat_sum = Waits(h)
      /\ e.len_min \in Nat /\ e.len_max \in Nat
      /\ Extremes(e.len_min, e.len_max, LensIn(h, DOMAIN h), Longest)
      /\ e.iat_min \in Nat /\ e.iat_max \in Nat
      /\ Extremes(e.iat_min, e.iat_max, GapsIn(h), Never)
  BY DEF PacketsFit, PacketsKept
<1>2. /\ Len(h) \in Nat /\ Len(g) = n /\ DOMAIN g = DOMAIN h \cup {n} /\ g[n] = p
  BY Appended
<1>3. p.len \in Nat /\ p.len \in Below(Longest) /\ Longest \in Nat
  BY PacketIs, LengthsAre
<1>4. gap \in Below(Never) /\ Never \in Nat /\ gap \in Nat
  BY NeverIs DEF InTime, Below
<1>6. LensIn(g, DOMAIN g) = LensIn(h, DOMAIN h) \cup {p.len}
  BY WholeMore
<1>7. Bytes(g, DOMAIN g) = Bytes(h, DOMAIN h) + p.len
  BY WholeMore
<1>8. Marks(g) = Marks(h) + p.flags
  BY MarksMore
<1>9. GapsIn(g) = GapsIn(h) \cup {gap}
  BY GapsMore
<1>10. Waits(g) = Waits(h) + gap
  BY <1>1, WaitsMore
<1>11. Timely(g)
  BY <1>1, TimelyMore
<1>12. LensIn(h, DOMAIN h) \in SUBSET Below(Longest)
  BY LensBelow
<1>13. GapsIn(h) \in SUBSET Below(Never)
  BY <1>1, GapsBelow
<1> HIDE DEF g, n
<1>14. /\ u.pkt_count = e.pkt_count + 1 /\ u.last_tsc = p.time
       /\ u.flags = e.flags + p.flags
       /\ u.len_min = Min({p.len, e.len_min}) /\ u.len_max = Max({p.len, e.len_max})
       /\ u.len_sum = e.len_sum + p.len
       /\ u.iat_min = Min({gap, e.iat_min}) /\ u.iat_max = Max({gap, e.iat_max})
       /\ u.iat_sum = e.iat_sum + gap
  <2>1. e.pkt_count # 0 /\ gap = p.time - e.last_tsc
    BY <1>1
  <2> HIDE DEF gap
  <2> QED BY <2>1 DEF iot_update
<1> HIDE DEF gap, u
<1>15. /\ u.len_min = IF p.len < e.len_min THEN p.len ELSE e.len_min
       /\ u.len_max = IF p.len > e.len_max THEN p.len ELSE e.len_max
  <2>1. p.len \in Int /\ e.len_min \in Int /\ e.len_max \in Int
    BY <1>1, <1>3
  <2>2. Min({p.len, e.len_min}) = IF p.len < e.len_min THEN p.len ELSE e.len_min
    BY <2>1, MinOfTwo
  <2>3. Max({p.len, e.len_max}) = IF p.len > e.len_max THEN p.len ELSE e.len_max
    BY <2>1, MaxOfTwo
  <2> QED BY <1>14, <2>2, <2>3
<1>16. /\ u.iat_min = IF gap < e.iat_min THEN gap ELSE e.iat_min
       /\ u.iat_max = IF gap > e.iat_max THEN gap ELSE e.iat_max
  <2>1. gap \in Int /\ e.iat_min \in Int /\ e.iat_max \in Int
    BY <1>1, <1>4
  <2>2. Min({gap, e.iat_min}) = IF gap < e.iat_min THEN gap ELSE e.iat_min
    BY <2>1, MinOfTwo
  <2>3. Max({gap, e.iat_max}) = IF gap > e.iat_max THEN gap ELSE e.iat_max
    BY <2>1, MaxOfTwo
  <2> QED BY <1>14, <2>2, <2>3
<1>17. /\ u.len_min \in Nat /\ u.len_max \in Nat
       /\ u.iat_min \in Nat /\ u.iat_max \in Nat
  BY <1>1, <1>3, <1>4, <1>15, <1>16
<1>18. Extremes(u.len_min, u.len_max, LensIn(h, DOMAIN h) \cup {p.len}, Longest)
  <2> DEFINE V == LensIn(h, DOMAIN h)
             x == p.len
             lo == e.len_min
             hi == e.len_max
  <2>1. /\ Longest \in Nat /\ V \in SUBSET Below(Longest) /\ lo \in Nat /\ hi \in Nat
        /\ Extremes(lo, hi, V, Longest) /\ x \in Below(Longest)
    BY <1>1, <1>3, <1>12
  <2> HIDE DEF V, lo, hi, x
  <2>2. Extremes(IF x < lo THEN x ELSE lo, IF x > hi THEN x ELSE hi,
                 V \cup {x}, Longest)
    BY <2>1, ExtremesMore
  <2> QED BY <1>15, <2>2 DEF V, lo, hi, x
<1>19. Extremes(u.iat_min, u.iat_max, GapsIn(h) \cup {gap}, Never)
  <2> DEFINE V == GapsIn(h)
             lo == e.iat_min
             hi == e.iat_max
  <2>1. /\ Never \in Nat /\ V \in SUBSET Below(Never) /\ lo \in Nat /\ hi \in Nat
        /\ Extremes(lo, hi, V, Never) /\ gap \in Below(Never)
    BY <1>1, <1>4, <1>13
  <2> HIDE DEF V, lo, hi
  <2>2. Extremes(IF gap < lo THEN gap ELSE lo, IF gap > hi THEN gap ELSE hi,
                 V \cup {gap}, Never)
    BY <2>1, ExtremesMore
  <2> QED BY <1>16, <2>2 DEF V, lo, hi
<1>20. PacketsKept(u, g)
  BY <1>1, <1>2, <1>6, <1>7, <1>8, <1>9, <1>10, <1>14, <1>17, <1>18, <1>19
     DEF PacketsKept
<1>21. u.pkt_count = Len(g)
  BY <1>1, <1>2, <1>14 DEF n
<1>22. DOMAIN u = PacketFields
  BY DEF u, iot_update, PacketFields
<1> QED BY <1>11, <1>20, <1>21, <1>22 DEF PacketsFit, g, u

\* so any packet in time does.
LEMMA PacketsAdded ==
  ASSUME NEW t \in Nat, NEW h \in Seq(Packets(t)), NEW p \in Packets(t),
         InTime(h, p), NEW e, PacketsFit(e, h)
  PROVE  PacketsFit(iot_update(e, p.len, p.time, p.flags), Append(h, p))
<1>1. e.pkt_count = Len(h)
  BY DEF PacketsFit
<1>2. CASE Len(h) = 0
  BY <1>1, <1>2, PacketsFirst
<1>3. CASE Len(h) # 0
  BY <1>3, PacketsMore
<1> QED BY <1>2, <1>3

\* A new entry fits no packet.
LEMMA PacketsFresh ==
  ASSUME NEW e, DOMAIN e = PacketFields, e.pkt_count = 0
  PROVE  PacketsFit(e, <<>>)
<1>1. Len(<<>>) = 0 /\ Later(<<>>) = {}
  BY DEF Later
<1> QED BY <1>1 DEF PacketsFit, Timely

\* What an entry holds is what PacketReference says of its packets.
LEMMA PacketsDescribed ==
  ASSUME NEW t \in Nat, NEW h \in Seq(Packets(t)), Len(h) # 0,
         NEW e, PacketsFit(e, h)
  PROVE  PacketFeatures(e) = PacketReference(h)
<1> DEFINE V == LensIn(h, DOMAIN h)
           W == GapsIn(h)
<1>1. /\ e.pkt_count = Len(h) /\ Timely(h)
      /\ e.flags = Marks(h)
      /\ e.len_sum = Bytes(h, DOMAIN h) /\ e.iat_sum = Waits(h)
      /\ e.len_min \in Nat /\ e.len_max \in Nat
      /\ Extremes(e.len_min, e.len_max, V, Longest)
      /\ e.iat_min \in Nat /\ e.iat_max \in Nat
      /\ Extremes(e.iat_min, e.iat_max, W, Never)
  BY DEF PacketsFit, PacketsKept
<1>2. V \in SUBSET Below(Longest) /\ Longest \in Nat
  BY LensBelow, LengthsAre
<1>3. V # {}
  <2>1. 1 \in DOMAIN h
    BY LenProperties
  <2> QED BY <2>1 DEF LensIn
<1>4. W \in SUBSET Below(Never) /\ Never \in Nat
  BY <1>1, GapsBelow
<1> HIDE DEF V, W
<1>5. Min(V) = e.len_min /\ Max(V) = e.len_max
  BY <1>1, <1>2, <1>3, ExtremesAre
<1>6. /\ e.iat_max = IF W = {} THEN 0 ELSE Max(W)
      /\ (IF e.iat_min = Never THEN 0 ELSE e.iat_min) = IF W = {} THEN 0 ELSE Min(W)
  <2>1. CASE W = {}
    BY <1>1, <2>1 DEF Extremes
  <2>2. CASE W # {}
    <3>1. Min(W) = e.iat_min /\ Max(W) = e.iat_max
      BY <1>1, <1>4, <2>2, ExtremesAre
    <3>2. e.iat_min \in W
      BY <1>1, <2>2 DEF Extremes
    <3>3. e.iat_min # Never
      BY <1>4, <3>2 DEF Below
    <3> QED BY <2>2, <3>1, <3>3
  <2> QED BY <2>1, <2>2
<1> QED BY <1>1, <1>5, <1>6, PacketReferenceIs DEF PacketFeatures, V, W

\* The sum of the gaps lies between as many of the least and of the greatest.
LEMMA WaitsBetween ==
  ASSUME NEW t \in Nat, NEW h \in Seq(Packets(t)), Len(h) > 1, Timely(h)
  PROVE  /\ GapsIn(h) # {} /\ Min(GapsIn(h)) \in Nat /\ Max(GapsIn(h)) \in Nat
         /\ Min(GapsIn(h)) * (Len(h) - 1) <= Waits(h)
         /\ Waits(h) <= Max(GapsIn(h)) * (Len(h) - 1)
<1> DEFINE V == GapsIn(h)
           f == GapOf(h)
           S == Later(h)
<1>1. /\ Len(h) \in Nat /\ DOMAIN h = 1 .. Len(h) /\ IsFiniteSet(DOMAIN h)
      /\ Cardinality(DOMAIN h) = Len(h) /\ 1 \in DOMAIN h /\ 2 \in DOMAIN h
  <2>1. Len(h) \in Nat /\ DOMAIN h = 1 .. Len(h)
    BY LenProperties
  <2>2. IsFiniteSet(1 .. Len(h)) /\ Cardinality(1 .. Len(h)) = Len(h)
    BY <2>1, FS_Interval
  <2> QED BY <2>1, <2>2
<1>2. V \in SUBSET Below(Never) /\ Never \in Nat
  BY GapsBelow
<1>3. V # {} /\ \A j \in S : f[j] \in V
  <2>1. 2 \in S
    BY <1>1 DEF Later
  <2> QED BY <2>1 DEF GapsIn, GapOf
<1>4. IsFiniteSet(S) /\ Cardinality(S) = Len(h) - 1
  <2>1. Cardinality(DOMAIN h \ {1}) = Cardinality(DOMAIN h) - 1
    BY <1>1, FS_RemoveElement
  <2>2. IsFiniteSet(S)
    BY LaterIs
  <2> QED BY <1>1, <2>1, <2>2 DEF Later
<1>5. Waits(h) = SumOver(f, S)
  BY <1>4, WaitsAre
<1> HIDE DEF V, f, S
<1>6. V \in SUBSET Int /\ 0 \in Int /\ Never - 1 \in Int
      /\ \A v \in V : 0 <= v /\ v <= Never - 1
  BY <1>2 DEF Below
<1>7. Min(V) \in V /\ \A v \in V : Min(V) <= v
  BY <1>3, <1>6, MinIs
<1>8. Max(V) \in V /\ \A v \in V : v <= Max(V)
  BY <1>3, <1>6, MaxIs
<1> DEFINE lo == Min(V)
           hi == Max(V)
<1>9. lo \in V /\ hi \in V /\ \A v \in V : lo <= v /\ v <= hi
  BY <1>7, <1>8
<1> HIDE DEF lo, hi
<1>10. lo \in Nat /\ hi \in Nat
  BY <1>6, <1>9
<1>11. /\ lo * Cardinality(S) <= SumOver(f, S)
       /\ SumOver(f, S) <= hi * Cardinality(S)
  <2>1. \A j \in S : f[j] \in lo .. hi
    <3> TAKE j \in S
    <3>1. f[j] \in V
      BY <1>3
    <3>2. f[j] \in Int /\ lo <= f[j] /\ f[j] <= hi
      BY <1>6, <1>9, <3>1
    <3> QED BY <1>10, <3>2
  <2>2. lo \in Int /\ hi \in Int
    BY <1>10
  <2> QED BY <1>4, <2>1, <2>2, SumBounds
<1> QED BY <1>3, <1>4, <1>5, <1>10, <1>11 DEF V, lo, hi

\* iot_contract accepts what an entry of two packets or more holds.
LEMMA PacketsAccepted ==
  ASSUME NEW t \in Nat, NEW h \in Seq(Packets(t)), Len(h) # 0,
         NEW e, PacketsFit(e, h)
  PROVE  validate_iot(PacketFeatures(e))
<1> DEFINE r == PacketFeatures(e)
           gaps == IF r.count > 1 THEN r.count - 1 ELSE 1
<1>1. r = PacketReference(h)
  BY PacketsDescribed
<1> HIDE DEF r
<1>2. /\ r.count = Len(h) /\ r.len_sum = Bytes(h, DOMAIN h)
      /\ r.len_min = Min(LensIn(h, DOMAIN h)) /\ r.len_max = Max(LensIn(h, DOMAIN h))
      /\ r.iat_sum = Waits(h)
      /\ r.iat_min = IF GapsIn(h) = {} THEN 0 ELSE Min(GapsIn(h))
      /\ r.iat_max = IF GapsIn(h) = {} THEN 0 ELSE Max(GapsIn(h))
  BY <1>1, PacketReferenceIs
<1>3. /\ r.len_min * r.count <= r.len_sum
      /\ r.len_sum <= r.len_max * r.count
  BY <1>2, BytesBetween
<1>4. Len(h) \in Nat /\ Timely(h)
  BY LenProperties DEF PacketsFit
<1>5. r.iat_min * gaps <= r.iat_sum /\ r.iat_sum <= r.iat_max * gaps
  <2>1. CASE Len(h) > 1
    <3>1. gaps = Len(h) - 1
      BY <1>2, <2>1
    <3> HIDE DEF gaps
    <3> QED BY <1>2, <1>4, <2>1, <3>1, WaitsBetween
  <2>2. CASE ~(Len(h) > 1)
    <3>1. Later(h) = {}
      BY <1>4, <2>2, LenProperties DEF Later
    <3>2. GapsIn(h) = {} /\ Waits(h) = 0
      BY <3>1, WaitsAre, SumEmpty, FS_EmptySet DEF GapsIn
    <3>3. gaps = 1
      BY <1>2, <1>4, <2>2
    <3> QED BY <1>2, <3>2, <3>3
  <2> QED BY <2>1, <2>2
<1> QED BY <1>3, <1>5 DEF validate_iot, r

-----------------------------------------------------------------------------
(* The queue, proved about in StoreProofs *)

SP == INSTANCE StoreProofs WITH
    Keys <- FlowKeys, Capacity <- MaxFlows, hash <- f_hash, next_free <- f_next,
    Items <- Vectors, NoItem <- None, Size <- QueueSize,
    items <- q_items, head <- q_head, tail <- q_tail,
    count <- q_count, dropped <- q_dropped

-----------------------------------------------------------------------------
(* The inductive invariant *)

\* Entry numbers handed out so far are the ones below.
Taken == IF program = "tls_bench" THEN MaxFlows - t_count ELSE f_next

\* The free list of tls_bench links the entries not handed out, in order.
FreeListOK ==
  /\ t_head = MaxFlows - t_count
  /\ DOMAIN t_link = 0 .. MaxFlows - 1
  /\ \A n \in t_head .. MaxFlows - 1 : t_link[n] = n + 1

\* A key as a packet can ask for it.
Proper(k) == \E src, dst \in Endpoints : k = Key(src, dst)
StreamOf(k) == IF program = "iot_multicore" THEN <<k[2], k[1]>> ELSE {k[1], k[2]}

\* The parts of the invariant.
ClockOK ==
  /\ program \in Programs /\ pc \in {"rx", "drain"} /\ (pc = "drain" => Queued)
  /\ packets \in 0 .. MaxPackets
  /\ now \in Nat /\ now <= 1000 * packets

TableOK ==
  /\ f_next \in 0 .. MaxFlows /\ t_count \in 0 .. MaxFlows
  /\ DOMAIN f_hash = FlowKeys
  /\ \A k \in FlowKeys : f_hash[k] \in -1 .. Taken - 1
  /\ program = "tls_bench" => FreeListOK

\* A flow has an entry of its own, under a key a packet can ask for.
OneEach == Pool!OneKeyPerEntry

OnlyProper == \A k \in FlowKeys : Pool!Tracked(k) => Proper(k)

HistoryOK == history \in [Streams -> Seq(Packets(now))]

\* What entry e keeps of the packets h since the last vector of its flow.
Kept(e, h) == IF Tls THEN RecordsFit(e, h) ELSE PacketsFit(e, h)

\* An entry of the prototype is done after its vector.
Done(e) == program = "iot_multicore" /\ e.pkt_count \in Nat /\ e.pkt_count >= Window

Fits(e, h) == (Kept(e, h) /\ Len(h) < Window) \/ Done(e)

\* The entry of a flow keeps what its window has had so far, and the window
\* is not full.
EntriesOK ==
  /\ DOMAIN entries = 0 .. MaxFlows - 1
  /\ \A k \in FlowKeys :
       Pool!Tracked(k) => Fits(entries[f_hash[k]], history[StreamOf(k)])

\* A flow without an entry has had no packet here.
Untouched ==
  \A k \in FlowKeys : Proper(k) /\ ~Pool!Tracked(k) => history[StreamOf(k)] = <<>>

\* A stream seen elsewhere never comes here.
NeverTorn ==
  \A src, dst \in Endpoints : Stream(src, dst) \in elsewhere => ~Here(src, dst)

\* doh_process is told the window it emits at.
WindowSet == "doh" \in Programs => CfgWindow # 0

Good(v) == Exact(v) /\ (Queued /\ WindowSet => ContractHolds(v.fv))

\* What is queued is exact and the contract accepts it.
QueueOK == SP!RingInv /\ \A j \in 1 .. q_count : Good(Fq!Content[j])

SinkOK == sink # None => Exact(sink)

AcceptedOK == WindowSet => invalid = 0

IInv == /\ ClockOK /\ TableOK /\ OneEach /\ OnlyProper /\ HistoryOK
        /\ EntriesOK /\ Untouched /\ NeverTorn /\ QueueOK /\ SinkOK /\ AcceptedOK

-----------------------------------------------------------------------------
(* Keys, streams, packets *)

\* The window in force is a count of packets, one at least.
LEMMA WindowIs ==
  /\ Window \in Nat /\ Window # 0
  /\ program = "doh" /\ WindowSet /\ program \in Programs => Window = CfgWindow
<1>1. CfgWindow \in Nat /\ BenchWindow \in Nat /\ BenchWindow # 0
  <2>1. CfgWindow \in Words /\ BenchWindow \in Words \ {0, 1}
    BY FlowProfilesAssumption
  <2>2. \A n \in Words : n \in Nat
    BY LengthsAre DEF Below
  <2> QED BY <2>1, <2>2
<1>2. 16 \in Nat /\ 8 \in Nat /\ 16 # 0 /\ 8 # 0
  OBVIOUS
<1> QED BY <1>1, <1>2 DEF Window, WindowSet

\* The canonical key is one of the two orders, the same for both.
LEMMA CanonicalIs ==
  \A a, b \in Endpoints : /\ Canonical(a, b) \in {<<a, b>>, <<b, a>>}
                          /\ Canonical(a, b) = Canonical(b, a)
<1> SUFFICES ASSUME NEW a \in Endpoints, NEW b \in Endpoints
             PROVE  /\ Canonical(a, b) \in {<<a, b>>, <<b, a>>}
                    /\ Canonical(a, b) = Canonical(b, a)
  OBVIOUS
<1>1. a \in Nat \X Nat /\ b \in Nat \X Nat
  <2>1. a \in Nat \X Ports /\ b \in Nat \X Ports
    BY EndpointsAssumption
  <2>2. \A n \in Ports : n \in Nat
    BY SMT DEF Ports
  <2> QED BY <2>1, <2>2
<1>2. a[1] = b[1] /\ a[2] = b[2] => a = b
  BY <1>1
<1>3. a[1] \in Nat /\ a[2] \in Nat /\ b[1] \in Nat /\ b[2] \in Nat
  BY <1>1
<1> QED BY <1>2, <1>3 DEF Canonical

\* A packet's key and the stream it belongs to.
LEMMA KeyIs ==
  ASSUME NEW src \in Endpoints, NEW dst \in Endpoints
  PROVE  /\ Key(src, dst) \in FlowKeys /\ Proper(Key(src, dst))
         /\ Stream(src, dst) \in Streams
         /\ StreamOf(Key(src, dst)) = Stream(src, dst)
<1>1. Canonical(src, dst) \in {<<src, dst>>, <<dst, src>>}
  BY CanonicalIs
<1>2. Key(src, dst) \in {<<src, dst>>, <<dst, src>>}
  BY <1>1 DEF Key
<1>3. Key(src, dst) \in FlowKeys
  BY <1>2 DEF FlowKeys
<1>4. Stream(src, dst) \in Streams
  BY DEF Stream, Streams, FlowKeys, Connections
<1>5. StreamOf(Key(src, dst)) = Stream(src, dst)
  <2>1. CASE program = "iot_multicore"
    BY <2>1 DEF Key, Stream, StreamOf
  <2>2. CASE program # "iot_multicore"
    <3>1. {src, dst} = {dst, src}
      OBVIOUS
    <3> QED BY <1>1, <2>2, <3>1 DEF Key, Stream, StreamOf
  <2> QED BY <2>1, <2>2
<1>6. Proper(Key(src, dst))
  BY DEF Proper
<1> QED BY <1>3, <1>4, <1>5, <1>6

\* Two keys in use are not of one stream.
LEMMA StreamsApart ==
  ASSUME NEW k \in FlowKeys, NEW l \in FlowKeys, Proper(k), Proper(l),
         StreamOf(k) = StreamOf(l)
  PROVE  k = l
<1>1. PICK a, b \in Endpoints : k = Key(a, b)
  BY DEF Proper
<1>2. PICK c, d \in Endpoints : l = Key(c, d)
  BY DEF Proper
<1>3. Stream(a, b) = Stream(c, d)
  BY <1>1, <1>2, KeyIs
<1>4. CASE program = "iot_multicore"
  BY <1>1, <1>2, <1>3, <1>4 DEF Stream, Key
<1>5. CASE program # "iot_multicore"
  <2>1. {a, b} = {c, d}
    BY <1>3, <1>5 DEF Stream
  <2>2. (a = c /\ b = d) \/ (a = d /\ b = c)
    BY <2>1
  <2> QED BY <1>1, <1>2, <1>5, <2>2, CanonicalIs DEF Key
<1> QED BY <1>4, <1>5

\* All of a stream comes to one queue.
LEMMA StreamTogether ==
  ASSUME NEW a \in Endpoints, NEW b \in Endpoints, NEW c \in Endpoints,
         NEW d \in Endpoints, Stream(a, b) = Stream(c, d)
  PROVE  Here(a, b) <=> Here(c, d)
<1>1. CASE program = "iot_multicore"
  BY <1>1 DEF Here
<1>2. CASE program # "iot_multicore"
  <2>1. {a, b} = {c, d}
    BY <1>2 DEF Stream
  <2>2. (a = c /\ b = d) \/ (a = d /\ b = c)
    BY <2>1
  <2>3. Queue(a, b) = Queue(c, d)
    BY <2>2, BothDirectionsMeet
  <2> QED BY <1>2, <2>3 DEF Here
<1> QED BY <1>1, <1>2

\* Two octets exchanged are again two octets.
LEMMA SwappedFits == ASSUME NEW n \in Words PROVE Swapped16(n) \in Words
<1> DEFINE low == n % 256
           high == n \div 256
<1>1. n \in Nat /\ n <= 256 * 255 + 255
  <2>1. n \in Nat /\ n < Longest
    BY LengthsAre DEF Below
  <2> QED BY <2>1, SMT DEF Longest
<1>2. low \in 0 .. 255 /\ high \in Nat /\ high <= 255
  BY <1>1
<1> HIDE DEF low, high
<1>3. low * 256 + high \in Nat /\ low * 256 + high <= 65535
  BY <1>2
<1>4. Swapped16(n) = low * 256 + high
  BY DEF low, high, Swapped16
<1> DEFINE m == low * 256 + high
<1> HIDE DEF m
<1>5. m \in Nat /\ m < Longest
  BY <1>3, SMT DEF m, Longest
<1>6. m \in Words
  BY <1>5, LengthsAre DEF Below
<1> QED BY <1>4, <1>6 DEF m

\* A parsed packet is one of the packets of its time.
LEMMA PacketFits ==
  ASSUME NEW src \in Endpoints, NEW dst, NEW len, NEW flags, NEW t \in Nat,
         Parsed(src, dst, len, flags)
  PROVE  Packet(src, len, t, flags) \in Packets(t) /\ Packet(src, len, t, flags).time = t
<1>1. len \in Words
  BY FlowProfilesAssumption DEF Parsed
<1>2. flags \in 0 .. 8
  <2>1. flags = 0 \/ flags \in Flags
    BY DEF Parsed
  <2>2. Flags \subseteq 0 .. 8
    BY FlowProfilesAssumption
  <2>3. 0 \in 0 .. 8
    OBVIOUS
  <2> QED BY <2>1, <2>2, <2>3, Zenon
<1>3. Swapped16(len) \in Words
  BY <1>1, SwappedFits
<1>4. t \in 0 .. t
  OBVIOUS
<1>5. (src[2] # 443) \in BOOLEAN
  OBVIOUS
<1> QED BY <1>1, <1>2, <1>3, <1>4, <1>5 DEF Packet, Packets

\* Packets of an earlier time.
LEMMA PacketsLater ==
  ASSUME NEW t \in Nat, NEW u \in Nat, t <= u
  PROVE  \A h \in Seq(Packets(t)) : h \in Seq(Packets(u))
<1>1. 0 .. t \subseteq 0 .. u
  OBVIOUS
<1>2. Packets(t) \subseteq Packets(u)
  BY <1>1 DEF Packets
<1> QED BY <1>2, SeqMonotonic

-----------------------------------------------------------------------------
(* Entries and windows *)

\* What a new or a reset entry holds fits no packet.
LEMMA NewFits == Fits(NewEntry, <<>>)
<1>1. Len(<<>>) < Window
  BY WindowIs
<1>2. CASE Tls
  <2>1. NewEntry = doh_reset_entry
    BY <1>2 DEF Tls, NewEntry
  <2> QED BY <1>1, <1>2, <2>1, RecordsFresh DEF Fits, Kept
<1>3. CASE ~Tls
  <2>1. NewEntry = iot_reset_entry \/ NewEntry = NoPackets
    BY <1>3 DEF Tls, NewEntry
  <2>2. /\ iot_reset_entry.pkt_count = 0 /\ DOMAIN iot_reset_entry = PacketFields
        /\ NoPackets.pkt_count = 0 /\ DOMAIN NoPackets = PacketFields
    BY DEF iot_reset_entry, NoPackets, PacketFields
  <2> QED BY <1>1, <1>3, <2>1, <2>2, PacketsFresh DEF Fits, Kept
<1> QED BY <1>2, <1>3

\* Either update keeps the entry fitting its history.
LEMMA UpdateKept ==
  ASSUME NEW t \in Nat, NEW h \in Seq(Packets(t)), NEW p \in Packets(t),
         InTime(h, p), NEW e, Kept(e, h)
  PROVE  Kept(Update(e, p), Append(h, p))
<1>1. CASE Tls
  <2>1. RecordsFit(e, h)
    BY <1>1 DEF Kept
  <2>2. IsAdded(Update(e, p), e, p.len, p.client)
    <3>1. \/ Update(e, p) = doh_update(e, p.len, p.client)
          \/ Update(e, p) = tls_update_flow(e, p.len, p.client)
      BY <1>1 DEF Tls, Update
    <3> QED BY <2>1, <3>1, RecordUpdates
  <2> DEFINE u == Update(e, p)
  <2> HIDE DEF u
  <2>3. RecordsFit(u, Append(h, p))
    BY <2>1, <2>2, RecordsMore DEF u
  <2> QED BY <1>1, <2>3 DEF u, Kept
<1>2. CASE ~Tls
  <2>1. PacketsFit(e, h)
    BY <1>2 DEF Kept
  <2>2. Update(e, p) = iot_update(e, p.len, p.time, p.flags)
    BY <1>2 DEF Tls, Update, tcp_update_flow, update_flow_entry
  <2>3. PacketsFit(iot_update(e, p.len, p.time, p.flags), Append(h, p))
    BY <2>1, PacketsAdded
  <2> QED BY <1>2, <2>2, <2>3 DEF Kept
<1> QED BY <1>1, <1>2

\* An entry counts the packets of its history.
LEMMA KeptCount == ASSUME NEW e, NEW h, Kept(e, h) PROVE Count(e) = Len(h)
BY DEF Kept, Count, RecordsFit, PacketsFit

\* The vector of a window of records is one of the vectors,
LEMMA RecordVector ==
  ASSUME NEW t \in Nat, NEW h \in Seq(Packets(t)), Len(h) # 0,
         NEW e, RecordsFit(e, h)
  PROVE  RecordFeatures(e) \in FeatureVectors
<1> DEFINE r == RecordFeatures(e)
           low == r.size_min
           high == r.size_max
<1>1. /\ e.n_client \in Nat /\ e.n_server \in Nat /\ e.sum_client \in Nat
      /\ e.sum_server \in Nat /\ e.dir_switches \in Nat
  BY DEF RecordsFit, IsRecords
<1>2. low \in Nat /\ high \in Nat
  BY RecordExtremes, BytesBetween
<1>3. r = [n_client |-> e.n_client, n_server |-> e.n_server,
           client_bytes |-> e.sum_client,
           total_bytes |-> e.sum_client + e.sum_server,
           size_min |-> low, size_max |-> high,
           size_sum |-> e.sum_client + e.sum_server,
           dir_switches |-> e.dir_switches]
  BY DEF RecordFeatures
<1> HIDE DEF r, low, high
<1>4. e.sum_client + e.sum_server \in Nat
  BY <1>1
<1> QED BY <1>1, <1>2, <1>3, <1>4 DEF r, FeatureVectors

\* and so is that of a window of packets.
LEMMA PacketVector ==
  ASSUME NEW t \in Nat, NEW h \in Seq(Packets(t)), Len(h) # 0,
         NEW e, PacketsFit(e, h)
  PROVE  PacketFeatures(e) \in FeatureVectors
<1>1. /\ e.pkt_count = Len(h) /\ e.flags = Marks(h) /\ Timely(h)
      /\ e.len_sum = Bytes(h, DOMAIN h) /\ e.iat_sum = Waits(h)
      /\ e.len_min \in Nat /\ e.len_max \in Nat
      /\ e.iat_min \in Nat /\ e.iat_max \in Nat
  BY DEF PacketsFit, PacketsKept
<1>2. PICK p \in Packets(t) : p = h[Len(h)]
  <2>1. Len(h) \in 1 .. Len(h)
    BY LenProperties
  <2> QED BY <2>1, ElementOfSeq
<1>3. InTime(h, p)
  <2>1. p.time - p.time = 0
    BY <1>2, PacketIs
  <2>2. 0 \in Below(Never)
    BY NeverIs DEF Below
  <2> QED BY <1>2, <2>1, <2>2 DEF InTime
<1>4. Waits(h) \in Nat
  BY <1>1, <1>3, WaitsMore
<1>5. Marks(h) \in Nat
  BY MarksMore
<1>6. Bytes(h, DOMAIN h) \in Nat
  <2> DEFINE S == DOMAIN h
  <2>1. S \in SUBSET DOMAIN h
    OBVIOUS
  <2> HIDE DEF S
  <2>2. Bytes(h, S) \in Nat
    BY <2>1, BytesAppended
  <2> QED BY <2>2 DEF S
<1>7. Len(h) \in Nat
  BY LenProperties
<1> DEFINE low == IF e.iat_min = Never THEN 0 ELSE e.iat_min
<1>8. low \in Nat
  BY <1>1
<1>9. PacketFeatures(e) =
        [count |-> e.pkt_count, len_min |-> e.len_min, len_max |-> e.len_max,
         len_sum |-> e.len_sum, iat_max |-> e.iat_max, iat_sum |-> e.iat_sum,
         iat_min |-> low, flags |-> e.flags]
  BY DEF PacketFeatures
<1> HIDE DEF low
<1> QED BY <1>1, <1>4, <1>5, <1>6, <1>7, <1>8, <1>9 DEF FeatureVectors

\* A full window's vector says what its packets do.
LEMMA KeptDescribed ==
  ASSUME NEW t \in Nat, NEW h \in Seq(Packets(t)), Len(h) # 0,
         NEW e, Kept(e, h)
  PROVE  Features(e) = Reference(h) /\ Features(e) \in FeatureVectors
<1>1. CASE Tls
  BY <1>1, RecordsDescribed, RecordVector DEF Kept, Features, Reference
<1>2. CASE ~Tls
  BY <1>2, PacketsDescribed, PacketVector DEF Kept, Features, Reference
<1> QED BY <1>1, <1>2

\* The contract of the program accepts a full window's vector.
LEMMA KeptAccepted ==
  ASSUME NEW t \in Nat, NEW h \in Seq(Packets(t)), Len(h) = Window,
         NEW e, Kept(e, h), program \in Programs, Queued, WindowSet
  PROVE  ContractHolds(Features(e))
<1>1. Len(h) # 0
  BY WindowIs
<1>2. CASE Tls
  <2>1. program = "doh"
    BY <1>2 DEF Tls, Queued
  <2>2. Len(h) = CfgWindow
    BY <2>1, WindowIs
  <2>3. validate_doh(RecordFeatures(e), Len(h))
    BY <1>1, <1>2, RecordsAccepted DEF Kept
  <2> QED BY <1>2, <2>2, <2>3 DEF ContractHolds, Features
<1>3. CASE ~Tls
  BY <1>1, <1>3, PacketsAccepted DEF Kept, ContractHolds, Features
<1> QED BY <1>2, <1>3

\* After its vector an entry starts anew, or is done.
LEMMA AfterFits ==
  ASSUME NEW u, NEW h, Kept(u, h), Len(h) = Window
  PROVE  Fits(AfterWindow(u), <<>>)
<1>1. CASE program = "tcp_bench"
  <2> DEFINE a == AfterWindow(u)
  <2>1. a.pkt_count = 0 /\ DOMAIN a = PacketFields
    <3>1. a = [u EXCEPT !.pkt_count = 0]
      BY <1>1 DEF AfterWindow, tcp_finalize_reset
    <3>2. DOMAIN u = PacketFields /\ "pkt_count" \in PacketFields
      BY <1>1 DEF Kept, Tls, PacketsFit, PacketFields
    <3> QED BY <3>1, <3>2
  <2> HIDE DEF a
  <2>2. PacketsFit(a, <<>>)
    BY <2>1, PacketsFresh
  <2>3. Len(<<>>) < Window
    BY WindowIs
  <2>4. ~Tls
    BY <1>1 DEF Tls
  <2> QED BY <2>2, <2>3, <2>4 DEF a, Fits, Kept
<1>2. CASE program = "iot_multicore"
  <2>1. u.pkt_count = Window
    BY <1>2 DEF Kept, Tls, PacketsFit
  <2>2. Window >= Window
    BY WindowIs
  <2> QED BY <1>2, <2>1, <2>2, WindowIs DEF AfterWindow, Fits, Done
<1>3. CASE program \notin {"tcp_bench", "iot_multicore"}
  BY <1>3, NewFits DEF AfterWindow
<1> QED BY <1>1, <1>2, <1>3

-----------------------------------------------------------------------------
(* The parts *)

\* The assumptions of the pool and the queue.
LEMMA PartsConstants == MaxFlows \in Nat \ {0} /\ QueueSize \in Nat \ {0}
BY FlowProfilesAssumption

\* The queue of FlowProfiles is the one StoreProofs proves about.
LEMMA QueueIs ==
  /\ Fq!Init = SP!Queue!Init
  /\ \A x \in Vectors : /\ Fq!PushStored(x) = SP!Queue!PushStored(x)
                        /\ Fq!PushDropped(x) = SP!Queue!PushDropped(x)
  /\ Fq!Pop = SP!Queue!Pop
  /\ Fq!Content = SP!Queue!Content
BY DEF Fq!Init, SP!Queue!Init, Fq!PushStored, SP!Queue!PushStored,
       Fq!PushDropped, SP!Queue!PushDropped, Fq!Pop, SP!Queue!Pop,
       Fq!Places, SP!Queue!Places, Fq!Content, SP!Queue!Content

\* What depends on the program only.
LEMMA SameProgram ==
  ASSUME UNCHANGED program
  PROVE  /\ Window' = Window /\ Streams' = Streams /\ Queued' = Queued /\ Tls' = Tls
         /\ \A k : StreamOf(k)' = StreamOf(k) /\ (Proper(k)' <=> Proper(k))
         /\ \A e, h : Fits(e, h)' <=> Fits(e, h)
         /\ \A v : Exact(v)' <=> Exact(v)
         /\ \A v : Good(v)' <=> Good(v)
         /\ \A a, b : Stream(a, b)' = Stream(a, b) /\ (Here(a, b)' <=> Here(a, b))
<1>1. /\ Window' = Window /\ Streams' = Streams /\ Queued' = Queued /\ Tls' = Tls
      /\ \A a, b : Stream(a, b)' = Stream(a, b) /\ (Here(a, b)' <=> Here(a, b))
  BY DEF Window, Streams, Queued, Tls, Stream, Here
<1>2. \A k : StreamOf(k)' = StreamOf(k) /\ (Proper(k)' <=> Proper(k))
  BY DEF StreamOf, Proper, Key
<1>3. \A e, h : Fits(e, h)' <=> Fits(e, h)
  BY <1>1 DEF Fits, Kept, Done
<1>4. \A v : Exact(v)' <=> Exact(v)
  BY <1>1 DEF Exact, Reference
<1>5. \A v : Good(v)' <=> Good(v)
  BY <1>1, <1>4 DEF Good, ContractHolds
<1> QED BY <1>1, <1>2, <1>3, <1>4, <1>5

\* The queue after a push, a drop and a pop.
LEMMA QueueSteps ==
  ASSUME QueueOK, UNCHANGED program,
         UNCHANGED queue \/ Fq!Pop \/ \E v \in Vectors : Good(v) /\ Fq!Push(v)
  PROVE  QueueOK'
<1> USE PartsConstants, QueueIs
<1>1. /\ SP!Queue!Content \in Seq(SP!Contents) /\ Len(SP!Queue!Content) = q_count
      /\ \A j \in 1 .. q_count : Good(SP!Queue!Content[j])
  BY SP!ContentIs DEF QueueOK
<1>6. ASSUME SP!RingInv', \A j \in 1 .. q_count' : Good(SP!Queue!Content'[j])
      PROVE  QueueOK'
  <2>1. Window' = Window /\ Queued' = Queued /\ Tls' = Tls
    BY SameProgram
  <2>2. Fq!Content' = SP!Queue!Content'
    BY DEF Fq!Content, SP!Queue!Content
  <2>3. ASSUME NEW j \in 1 .. q_count' PROVE Good(Fq!Content[j])'
    BY <1>6, <2>1, <2>2, <2>3 DEF Good, Exact, Reference, ContractHolds, WindowSet
  <2> QED BY <1>6, <2>3 DEF QueueOK
<1>2. CASE UNCHANGED queue
  <2>1. SP!Queue!Content' = SP!Queue!Content
    BY <1>2 DEF queue, SP!Queue!Content
  <2>2. SP!RingInv'
    BY <1>2 DEF queue, QueueOK, SP!RingInv, SP!Queue!TypeOK, SP!Queue!Places
  <2> QED BY <1>1, <1>2, <1>6, <2>1, <2>2 DEF queue
<1>3. CASE Fq!Pop
  <2>1. SP!RingInv' /\ SP!Queue!Content # <<>>
        /\ SP!Queue!Content' = Tail(SP!Queue!Content)
    BY <1>3, SP!PopKeepsRing, SP!PopGets DEF QueueOK
  <2>2. q_count' = q_count - 1 /\ q_count \in Nat
    BY <1>1, <1>3, LenProperties DEF Fq!Pop
  <2>3. \A j \in 1 .. q_count' :
          /\ j + 1 \in 1 .. q_count
          /\ SP!Queue!Content'[j] = SP!Queue!Content[j + 1]
    BY <1>1, <2>1, <2>2, HeadTailProperties
  <2> QED BY <1>1, <1>6, <2>1, <2>3
<1>4. ASSUME NEW v \in Vectors, Good(v), Fq!PushStored(v) PROVE QueueOK'
  <2>1. SP!RingInv' /\ SP!Queue!Content' = Append(SP!Queue!Content, v)
    BY <1>4, SP!StoreKeepsRing, SP!StorePuts DEF QueueOK
  <2>2. q_count' = q_count + 1 /\ q_count \in Nat
    BY <1>1, <1>4, LenProperties DEF Fq!PushStored
  <2>3. \A j \in 1 .. q_count' :
          SP!Queue!Content'[j] = IF j = q_count + 1 THEN v ELSE SP!Queue!Content[j]
    BY <1>1, <2>1, <2>2, AppendProperties DEF SP!Contents
  <2>4. ASSUME NEW j \in 1 .. q_count' PROVE Good(SP!Queue!Content'[j])
    BY <1>1, <1>4, <2>2, <2>3
  <2> QED BY <1>6, <2>1, <2>4
<1>5. ASSUME NEW v \in Vectors, Fq!PushDropped(v) PROVE QueueOK'
  <2>1. SP!Queue!Content' = SP!Queue!Content /\ q_count' = q_count
    BY <1>5 DEF Fq!PushDropped, SP!Queue!Content
  <2>2. SP!RingInv'
    BY <1>5 DEF Fq!PushDropped, QueueOK, SP!RingInv, SP!Queue!TypeOK, SP!Queue!Places
  <2> QED BY <1>1, <1>6, <2>1, <2>2
<1> QED BY <1>2, <1>3, <1>4, <1>5 DEF Fq!Push

-----------------------------------------------------------------------------
(* A window with one packet more *)

\* A packet added to an entry, window by window.
LEMMA AddFits ==
  ASSUME NEW t \in Nat, NEW h \in Seq(Packets(t)), NEW p \in Packets(t),
         InTime(h, p), NEW e, Fits(e, h)
  PROVE  \/ /\ ~Full(Update(e, p)) /\ Fits(Update(e, p), Append(h, p))
         \/ /\ Full(Update(e, p))
            /\ Kept(Update(e, p), Append(h, p)) /\ Len(Append(h, p)) = Window
<1> DEFINE u == Update(e, p)
           g == Append(h, p)
<1>1. CASE Kept(e, h) /\ Len(h) < Window
  <2>1. Kept(u, g) /\ Len(g) = Len(h) + 1 /\ Len(h) \in Nat
    BY <1>1, UpdateKept, Appended
  <2>2. Count(u) = Len(g)
    BY <2>1, KeptCount
  <2> HIDE DEF u, g
  <2>3. CASE Len(g) = Window
    <3>1. Window >= Window
      BY WindowIs
    <3> QED BY <2>1, <2>2, <2>3, <3>1 DEF Full, u, g
  <2>4. CASE Len(g) # Window
    <3>1. Len(g) < Window /\ ~(Len(g) >= Window)
      BY <1>1, <2>1, <2>4, WindowIs
    <3> QED BY <2>1, <2>2, <2>4, <3>1 DEF Full, Fits, u, g
  <2> QED BY <2>3, <2>4
<1>2. CASE Done(e)
  <2>1. u = iot_update(e, p.len, p.time, p.flags)
    BY <1>2 DEF Done, Update, update_flow_entry
  <2>2. e.pkt_count # 0
    BY <1>2, WindowIs DEF Done
  <2>3. u.pkt_count = e.pkt_count + 1
    BY <2>1, <2>2 DEF iot_update
  <2>4. Count(u) = u.pkt_count
    BY <1>2 DEF Count, Tls, Done
  <2> HIDE DEF u, g
  <2>5. u.pkt_count \in Nat /\ u.pkt_count > Window
    BY <1>2, <2>3, WindowIs DEF Done
  <2> QED BY <1>2, <2>4, <2>5, WindowIs DEF Full, Fits, Done, u, g
<1> QED BY <1>1, <1>2 DEF Fits

\* The vector of a full window.
LEMMA VectorGood ==
  ASSUME NEW t \in Nat, NEW h \in Seq(Packets(t)), Len(h) = Window,
         NEW e, Kept(e, h), program \in Programs, NEW k \in FlowKeys,
         NEW v, v = [flow |-> k, fv |-> Features(e), of |-> h, torn |-> FALSE]
  PROVE  v \in Vectors /\ Good(v)
<1>1. Len(h) # 0
  BY WindowIs
<1>2. Features(e) = Reference(h) /\ Features(e) \in FeatureVectors
  BY <1>1, KeptDescribed
<1>3. Queued /\ WindowSet => ContractHolds(Features(e))
  BY KeptAccepted
<1>4. h \in Seq([client : BOOLEAN, len : Nat, time : Nat, flags : Nat])
  <2>1. /\ \A n \in Words : n \in Nat
        /\ \A n \in 0 .. t : n \in Nat
        /\ \A n \in 0 .. 8 : n \in Nat
    BY LengthsAre
  <2>2. Packets(t) \subseteq [client : BOOLEAN, len : Nat, time : Nat, flags : Nat]
    BY <2>1 DEF Packets
  <2> QED BY <2>2, SeqMonotonic
<1>5. v \in Vectors
  BY <1>2, <1>4 DEF Vectors
<1>6. Good(v)
  BY <1>2, <1>3 DEF Good, Exact
<1> QED BY <1>5, <1>6

-----------------------------------------------------------------------------
(* Steps of the table *)

\* The entry a new flow gets is the next one, in either allocator.
LEMMA AllocTakes ==
  ASSUME ClockOK, TableOK, UNCHANGED program, NEW k \in FlowKeys, Alloc(k)
  PROVE  /\ f_hash[k] = -1 /\ Taken \in 0 .. MaxFlows - 1
         /\ f_hash' = [f_hash EXCEPT ![k] = Taken] /\ Taken' = Taken + 1
         /\ f_next' \in 0 .. MaxFlows /\ t_count' \in 0 .. MaxFlows
         /\ program = "tls_bench" => FreeListOK'
<1> USE PartsConstants
<1>1. /\ f_next \in 0 .. MaxFlows /\ t_count \in 0 .. MaxFlows
      /\ f_hash[k] \in -1 .. Taken - 1 /\ Taken \in 0 .. MaxFlows
  BY DEF TableOK, Taken
<1>2. CASE program = "tls_bench"
  <2>1. TlsAlloc(k) /\ FreeListOK
    BY <1>2 DEF Alloc, TableOK
  <2>2. /\ t_count > 0 /\ f_hash' = [f_hash EXCEPT ![k] = t_head]
        /\ t_head' = t_link[t_head] /\ t_link' = [t_link EXCEPT ![t_head] = 0]
        /\ t_count' = t_count - 1 /\ f_next' = f_next /\ ~(f_hash[k] >= 0)
    BY <2>1 DEF TlsAlloc, Pool!Tracked
  <2>3. /\ t_head = MaxFlows - t_count /\ DOMAIN t_link = 0 .. MaxFlows - 1
        /\ \A n \in t_head .. MaxFlows - 1 : t_link[n] = n + 1
    BY <2>1 DEF FreeListOK
  <2>4. Taken = t_head /\ Taken' = MaxFlows - t_count'
    BY <1>2, <2>3 DEF Taken
  <2>5. t_head \in 0 .. MaxFlows - 1 /\ t_head' = t_head + 1
    <3>1. t_head \in 0 .. MaxFlows - 1 /\ t_head \in t_head .. MaxFlows - 1
      BY <1>1, <2>2, <2>3
    <3> QED BY <2>2, <2>3, <3>1
  <2>6. FreeListOK'
    <3>1. \A n \in t_head' .. MaxFlows - 1 : t_link'[n] = n + 1
      BY <2>2, <2>3, <2>5
    <3>2. DOMAIN t_link' = 0 .. MaxFlows - 1
      BY <2>2, <2>3
    <3>3. t_head' = MaxFlows - t_count'
      BY <1>1, <2>2, <2>3, <2>5
    <3> QED BY <3>1, <3>2, <3>3 DEF FreeListOK
  <2>7. Taken' = Taken + 1
    BY <1>1, <2>2, <2>3, <2>4
  <2>8. f_hash[k] = -1
    BY <1>1, <2>2
  <2> QED BY <1>1, <2>2, <2>4, <2>5, <2>6, <2>7, <2>8
<1>3. CASE program # "tls_bench"
  <2>1. /\ ~(f_hash[k] >= 0) /\ f_next < MaxFlows
        /\ f_hash' = [f_hash EXCEPT ![k] = f_next] /\ f_next' = f_next + 1
        /\ t_count' = t_count
    BY <1>3 DEF Alloc, PoolAlloc, Pool!Alloc, Pool!Tracked
  <2>2. Taken = f_next /\ Taken' = f_next'
    BY <1>3 DEF Taken
  <2>3. f_hash[k] = -1
    BY <1>1, <2>1
  <2> QED BY <1>1, <1>3, <2>1, <2>2, <2>3
<1> QED BY <1>2, <1>3

\* The table after an entry was handed out.
LEMMA AllocSteps ==
  ASSUME ClockOK, TableOK, OneEach, UNCHANGED program, NEW k \in FlowKeys, Alloc(k)
  PROVE  TableOK' /\ OneEach' /\ f_hash'[k] \in 0 .. MaxFlows - 1
         /\ f_hash[k] = -1 /\ \A l \in FlowKeys \ {k} : f_hash'[l] = f_hash[l]
<1>1. /\ f_hash[k] = -1 /\ Taken \in 0 .. MaxFlows - 1
      /\ f_hash' = [f_hash EXCEPT ![k] = Taken] /\ Taken' = Taken + 1
      /\ f_next' \in 0 .. MaxFlows /\ t_count' \in 0 .. MaxFlows
      /\ program = "tls_bench" => FreeListOK'
  BY AllocTakes
<1>2. DOMAIN f_hash = FlowKeys /\ \A l \in FlowKeys : f_hash[l] \in -1 .. Taken - 1
  BY DEF TableOK
<1>3. /\ DOMAIN f_hash' = FlowKeys /\ f_hash'[k] = Taken
      /\ \A l \in FlowKeys \ {k} : f_hash'[l] = f_hash[l]
  BY <1>1, <1>2
<1>4. \A l \in FlowKeys : f_hash'[l] \in -1 .. Taken' - 1
  <2>1. -1 .. Taken - 1 \subseteq -1 .. Taken' - 1 /\ Taken \in -1 .. Taken' - 1
    BY <1>1
  <2> QED BY <1>2, <1>3, <2>1
<1>5. TableOK'
  BY <1>1, <1>3, <1>4 DEF TableOK
<1>6. OneEach'
  <2>1. \A l \in FlowKeys : f_hash[l] # Taken
    BY <1>1, <1>2
  <2>2. ASSUME NEW a \in FlowKeys, NEW b \in FlowKeys, f_hash'[a] >= 0,
               f_hash'[a] = f_hash'[b]
        PROVE  a = b
    <3>1. CASE a = k \/ b = k
      BY <1>3, <2>1, <2>2, <3>1
    <3>2. CASE a # k /\ b # k
      BY <1>3, <2>2, <3>2 DEF OneEach, Pool!OneKeyPerEntry, Pool!Tracked
    <3> QED BY <3>1, <3>2
  <2> QED BY <2>2 DEF OneEach, Pool!OneKeyPerEntry, Pool!Tracked
<1> QED BY <1>1, <1>3, <1>5, <1>6

\* The table where no entry is handed out.
LEMMA TableSame ==
  ASSUME TableOK, OneEach, OnlyProper, UNCHANGED program, UNCHANGED table
  PROVE  TableOK' /\ OneEach' /\ OnlyProper'
<1>1. TableOK'
  BY DEF TableOK, table, Taken, FreeListOK
<1>2. OneEach'
  BY DEF OneEach, table, Pool!OneKeyPerEntry, Pool!Tracked
<1>3. OnlyProper'
  BY DEF OnlyProper, table, Pool!Tracked, Proper, Key
<1> QED BY <1>1, <1>2, <1>3

-----------------------------------------------------------------------------
(* A packet is added to the entry of its flow. *)

\* What becomes of entry n, holding e, and of the history of stream s.
LEMMA AddDoes ==
  ASSUME program \in Programs, NEW t \in Nat, NEW h \in Seq(Packets(t)), NEW p \in Packets(t),
         InTime(h, p), NEW e, Fits(e, h), NEW k \in FlowKeys, NEW n, NEW s,
         s \notin elsewhere, history[s] = h, AddPacket(n, e, k, s, p)
  PROVE  /\ \E x, y : /\ Fits(x, y) /\ y \in Seq(Packets(t))
                      /\ entries' = [entries EXCEPT ![n] = x]
                      /\ history' = [history EXCEPT ![s] = y]
         /\ elsewhere' \subseteq elsewhere
         /\ UNCHANGED queue \/ \E v \in Vectors : Good(v) /\ Fq!Push(v)
         /\ sink' = sink \/ Exact(sink')
<1> DEFINE u == Update(e, p)
           g == Append(h, p)
           v == [flow |-> k, fv |-> Features(u), of |-> g, torn |-> FALSE]
<1>0. g \in Seq(Packets(t))
  BY Appended
<1>1. IF Full(u)
      THEN /\ entries' = [entries EXCEPT ![n] = AfterWindow(u)]
           /\ history' = [history EXCEPT ![s] = <<>>]
           /\ elsewhere' = elsewhere \ {s}
           /\ Emit(v)
      ELSE /\ entries' = [entries EXCEPT ![n] = u]
           /\ history' = [history EXCEPT ![s] = g]
           /\ UNCHANGED <<elsewhere, queue, sink>>
  <2>1. (s \in elsewhere) = FALSE
    OBVIOUS
  <2> QED BY <2>1 DEF AddPacket
<1>2. \/ ~Full(u) /\ Fits(u, g)
      \/ Full(u) /\ Kept(u, g) /\ Len(g) = Window
  BY AddFits
<1>3. CASE ~Full(u) /\ Fits(u, g)
  <2> HIDE DEF u, g, v
  <2> QED BY <1>0, <1>1, <1>3
<1>4. CASE Full(u) /\ Kept(u, g) /\ Len(g) = Window
  <2>1. v \in Vectors /\ Good(v)
    <3> HIDE DEF u, g
    <3> QED BY <1>0, <1>4, VectorGood
  <2> HIDE DEF u, g, v
  <2>2. Fits(AfterWindow(u), <<>>)
    BY <1>4, AfterFits
  <2>3. <<>> \in Seq(Packets(t))
    BY EmptySeq
  <2>4. UNCHANGED queue \/ Fq!Push(v)
    BY <1>1, <1>4 DEF Emit
  <2>5. sink' = sink \/ Exact(sink')
    BY <1>1, <1>4, <2>1 DEF Emit, Good
  <2> QED BY <1>1, <1>4, <2>1, <2>2, <2>3, <2>4, <2>5
<1> QED BY <1>2, <1>3, <1>4

\* The windows after a packet was added.
LEMMA AddSteps ==
  ASSUME ClockOK, ClockOK', UNCHANGED program, now <= now',
         TableOK, OnlyProper, HistoryOK, EntriesOK, Untouched, NeverTorn, QueueOK,
         SinkOK, OneEach', NEW k \in FlowKeys, Proper(k), StreamOf(k) \in Streams,
         NEW n \in 0 .. MaxFlows - 1, f_hash'[k] = n,
         \A l \in FlowKeys \ {k} : f_hash'[l] = f_hash[l],
         StreamOf(k) \notin elsewhere,
         NEW e, Fits(e, history[StreamOf(k)]),
         NEW p \in Packets(now'), p.time = now',
         AddPacket(n, e, k, StreamOf(k), p)
  PROVE  /\ OnlyProper' /\ HistoryOK' /\ EntriesOK' /\ Untouched'
         /\ NeverTorn' /\ QueueOK' /\ SinkOK'
<1> PICK s \in Streams : s = StreamOf(k)
  OBVIOUS
<1> PICK t \in Nat : t = now'
  BY DEF ClockOK
<1> PICK h \in Seq(Packets(now)) : h = history[s]
  BY DEF HistoryOK
<1>0. /\ Window' = Window /\ Streams' = Streams /\ Tls' = Tls
      /\ \A l : StreamOf(l)' = StreamOf(l) /\ (Proper(l)' <=> Proper(l))
      /\ \A a, b : Stream(a, b)' = Stream(a, b) /\ (Here(a, b)' <=> Here(a, b))
  BY SameProgram
<1>1. now \in Nat /\ \A x \in Seq(Packets(now)) : x \in Seq(Packets(t))
  BY PacketsLater DEF ClockOK
<1>2. InTime(h, p)
  <2>1. SUFFICES ASSUME Len(h) # 0 PROVE p.time - h[Len(h)].time \in Below(Never)
    BY DEF InTime
  <2>2. h[Len(h)].time \in 0 .. t
    <3>1. Len(h) \in 1 .. Len(h) /\ h \in Seq(Packets(t))
      BY <1>1, <2>1, LenProperties
    <3>2. h[Len(h)] \in Packets(t)
      BY <3>1, ElementOfSeq
    <3> QED BY <3>2, PacketIs
  <2>3. t < Never
    <3>1. packets' \in 0 .. MaxPackets /\ t <= 1000 * packets' /\ MaxPackets \in Spans
      BY FlowProfilesAssumption DEF ClockOK
    <3>2. packets' \in Nat /\ packets' <= 1000
      BY <3>1 DEF Spans
    <3> QED BY <3>1, <3>2, NeverIs
  <2> QED BY <2>2, <2>3, NeverIs DEF Below
<1>3. /\ \E x, y : /\ Fits(x, y) /\ y \in Seq(Packets(t))
                   /\ entries' = [entries EXCEPT ![n] = x]
                   /\ history' = [history EXCEPT ![s] = y]
      /\ elsewhere' \subseteq elsewhere
      /\ UNCHANGED queue \/ \E v \in Vectors : Good(v) /\ Fq!Push(v)
      /\ sink' = sink \/ Exact(sink')
  <2>1. h \in Seq(Packets(t)) /\ program \in Programs
    BY <1>1 DEF ClockOK
  <2> QED BY <1>2, <2>1, AddDoes
<1>4. PICK x, y : /\ Fits(x, y) /\ y \in Seq(Packets(t))
                  /\ entries' = [entries EXCEPT ![n] = x]
                  /\ history' = [history EXCEPT ![s] = y]
  BY <1>3
<1>5. HistoryOK'
  <2>1. history \in [Streams -> Seq(Packets(t))]
    BY <1>1 DEF HistoryOK
  <2>2. history' \in [Streams -> Seq(Packets(t))]
    BY <1>4, <2>1
  <2> QED BY <1>0, <2>2 DEF HistoryOK
<1>6. OnlyProper'
  BY <1>0 DEF OnlyProper, Pool!Tracked
<1>7. /\ DOMAIN entries' = 0 .. MaxFlows - 1 /\ entries'[n] = x
      /\ \A j \in 0 .. MaxFlows - 1 : j # n => entries'[j] = entries[j]
      /\ history'[s] = y /\ \A a \in Streams : a # s => history'[a] = history[a]
  BY <1>4 DEF EntriesOK, HistoryOK
<1>8. ASSUME NEW l \in FlowKeys, l # k, Proper(l)
      PROVE  history'[StreamOf(l)] = history[StreamOf(l)]
  <2>1. StreamOf(l) # s
    BY <1>8, StreamsApart
  <2>2. StreamOf(l) \in Streams
    <3>1. PICK a, b \in Endpoints : l = Key(a, b)
      BY <1>8 DEF Proper
    <3> QED BY <3>1, KeyIs
  <2> QED BY <1>7, <2>1, <2>2
<1>9. EntriesOK'
  <2>1. ASSUME NEW l \in FlowKeys, f_hash'[l] >= 0
        PROVE  Fits(entries'[f_hash'[l]], history'[StreamOf(l)])
    <3>1. CASE l = k
      BY <1>4, <1>7, <3>1
    <3>2. CASE l # k
      <4>1. f_hash'[l] = f_hash[l] /\ f_hash'[l] # n
        BY <2>1, <3>2 DEF OneEach, Pool!OneKeyPerEntry, Pool!Tracked
      <4>2. Proper(l) /\ Fits(entries[f_hash[l]], history[StreamOf(l)])
        BY <2>1, <4>1 DEF OnlyProper, EntriesOK, Pool!Tracked
      <4>3. f_hash[l] \in 0 .. MaxFlows - 1
        <5>1. f_hash[l] \in -1 .. Taken - 1 /\ Taken \in 0 .. MaxFlows
          BY PartsConstants DEF TableOK, Taken
        <5> QED BY <2>1, <4>1, <5>1, PartsConstants
      <4> QED BY <1>7, <1>8, <3>2, <4>1, <4>2, <4>3
    <3> QED BY <3>1, <3>2
  <2> QED BY <1>0, <1>7, <2>1 DEF EntriesOK, Pool!Tracked, Fits, Kept, Done
<1>10. Untouched'
  <2>1. ASSUME NEW l \in FlowKeys, Proper(l), ~(f_hash'[l] >= 0)
        PROVE  history'[StreamOf(l)] = <<>>
    <3>1. l # k
      BY <2>1
    <3>2. history[StreamOf(l)] = <<>>
      BY <2>1, <3>1 DEF Untouched, Pool!Tracked
    <3> QED BY <1>8, <2>1, <3>1, <3>2
  <2> QED BY <1>0, <2>1 DEF Untouched, Pool!Tracked
<1>11. NeverTorn'
  BY <1>0, <1>3 DEF NeverTorn
<1>12. QueueOK'
  BY <1>3, QueueSteps
<1>13. SinkOK'
  BY <1>0, <1>3 DEF SinkOK, Exact, Reference
<1> QED BY <1>5, <1>6, <1>9, <1>10, <1>11, <1>12, <1>13

\* Entries and histories no packet is added to.
LEMMA WindowsSame ==
  ASSUME ClockOK, HistoryOK, EntriesOK, Untouched, SinkOK, now' \in Nat, now <= now',
         UNCHANGED <<program, table, entries, history, sink>>
  PROVE  HistoryOK' /\ EntriesOK' /\ Untouched' /\ SinkOK'
<1>0. /\ Window' = Window /\ Streams' = Streams /\ Tls' = Tls
      /\ \A l : StreamOf(l)' = StreamOf(l) /\ (Proper(l)' <=> Proper(l))
  BY SameProgram
<1>1. HistoryOK'
  <2>1. \A x \in Seq(Packets(now)) : x \in Seq(Packets(now'))
    BY PacketsLater DEF ClockOK
  <2>2. history \in [Streams -> Seq(Packets(now'))]
    BY <2>1 DEF HistoryOK
  <2> QED BY <1>0, <2>2 DEF HistoryOK
<1>2. f_hash' = f_hash
  BY DEF table
<1>3. EntriesOK'
  BY <1>0, <1>2 DEF EntriesOK, Pool!Tracked, Fits, Kept, Done
<1>4. Untouched'
  BY <1>0, <1>2 DEF Untouched, Pool!Tracked
<1>5. SinkOK'
  BY <1>0 DEF SinkOK, Exact, Reference
<1> QED BY <1>1, <1>3, <1>4, <1>5

-----------------------------------------------------------------------------
(* The actions *)

\* What every packet does first.
LEMMA ArriveSteps ==
  ASSUME ClockOK, AcceptedOK, NEW src \in Endpoints, NEW dst \in Endpoints, NEW len,
         NEW gap \in Gaps, NEW flags, Arrive(src, dst, len, gap, flags)
  PROVE  /\ UNCHANGED program /\ now <= now' /\ AcceptedOK'
         /\ now' \in Nat /\ now' <= 1000 * packets' /\ packets' \in 0 .. MaxPackets
         /\ \A p : p = Packet(src, len, now', flags)
                    => p \in Packets(now') /\ p.time = now'
<1>1. /\ packets \in Nat /\ packets < MaxPackets /\ packets' = packets + 1
      /\ now \in Nat /\ now <= 1000 * packets /\ now' = now + gap
      /\ UNCHANGED <<program, invalid>> /\ Parsed(src, dst, len, flags)
  BY DEF ClockOK, Arrive
<1>2. MaxPackets \in Nat /\ gap \in Nat /\ gap <= 1000
  <2>1. MaxPackets \in Spans /\ gap \in Spans
    BY FlowProfilesAssumption
  <2> QED BY <2>1 DEF Spans
<1>3. now' \in Nat /\ now <= now' /\ now' <= 1000 * packets' /\ packets' \in 0 .. MaxPackets
  BY <1>1, <1>2
<1>4. \A p : p = Packet(src, len, now', flags)
             => p \in Packets(now') /\ p.time = now'
  BY <1>1, <1>3, PacketFits
<1> QED BY <1>1, <1>3, <1>4 DEF AcceptedOK, WindowSet

\* A packet received keeps the invariant.
LEMMA ReceiveSteps ==
  ASSUME IInv, NEW src \in Endpoints, NEW dst \in Endpoints, NEW len,
         NEW gap \in Gaps, NEW flags, Receive(src, dst, len, gap, flags)
  PROVE  IInv'
<1>1. /\ ClockOK /\ TableOK /\ OneEach /\ OnlyProper /\ HistoryOK /\ EntriesOK
      /\ Untouched /\ NeverTorn /\ QueueOK /\ SinkOK /\ AcceptedOK
  BY DEF IInv
<1>2. /\ UNCHANGED program /\ now <= now' /\ AcceptedOK'
      /\ now' \in Nat /\ now' <= 1000 * packets' /\ packets' \in 0 .. MaxPackets
      /\ \A p : p = Packet(src, len, now', flags)
                 => p \in Packets(now') /\ p.time = now'
  BY <1>1, ArriveSteps DEF Receive
<1>3. ClockOK'
  BY <1>1, <1>2 DEF ClockOK, Receive, Queued
<1> PICK k \in FlowKeys : k = Key(src, dst)
  BY KeyIs
<1> PICK s \in Streams : s = Stream(src, dst)
  BY KeyIs
<1> PICK p \in Packets(now') : p = Packet(src, len, now', flags) /\ p.time = now'
  BY <1>2
<1>4. Proper(k) /\ StreamOf(k) = s /\ s \notin elsewhere
  <2>1. Here(src, dst)
    BY DEF Receive
  <2> QED BY <1>1, <2>1, KeyIs DEF NeverTorn
<1>5. \/ Hit(k) /\ AddPacket(f_hash[k], entries[f_hash[k]], k, s, p)
      \/ Alloc(k) /\ AddPacket(f_hash'[k], NewEntry, k, s, p)
      \/ NoEntry(k) /\ UNCHANGED <<entries, queue, sink, seen>>
  BY DEF Receive
<1> DEFINE Rest == /\ OnlyProper' /\ HistoryOK' /\ EntriesOK' /\ Untouched'
                   /\ NeverTorn' /\ QueueOK' /\ SinkOK'
<1>6. CASE Hit(k) /\ AddPacket(f_hash[k], entries[f_hash[k]], k, s, p)
  <2>1. f_hash[k] >= 0 /\ UNCHANGED table
    BY <1>6 DEF Hit, Pool!Hit, Pool!Tracked
  <2>2. f_hash[k] \in 0 .. MaxFlows - 1
    <3>1. f_hash[k] \in -1 .. Taken - 1 /\ Taken \in 0 .. MaxFlows
      BY <1>1, PartsConstants DEF TableOK, Taken
    <3> QED BY <2>1, <3>1, PartsConstants
  <2> PICK n \in 0 .. MaxFlows - 1 : n = f_hash[k]
    BY <2>2
  <2> PICK e : e = entries[n]
    OBVIOUS
  <2>3. Fits(e, history[s])
    BY <1>1, <1>4, <2>1 DEF EntriesOK, Pool!Tracked
  <2>4. TableOK' /\ OneEach'
    BY <1>1, <1>2, <2>1, TableSame
  <2>5. f_hash'[k] = n /\ \A l \in FlowKeys \ {k} : f_hash'[l] = f_hash[l]
    BY <2>1 DEF table
  <2>6. AddPacket(n, e, k, s, p)
    BY <1>6
  <2>7. Rest
    BY <1>1, <1>2, <1>3, <1>4, <2>3, <2>4, <2>5, <2>6, AddSteps
  <2> QED BY <1>2, <1>3, <2>4, <2>7 DEF IInv
<1>7. CASE Alloc(k) /\ AddPacket(f_hash'[k], NewEntry, k, s, p)
  <2>1. /\ TableOK' /\ OneEach' /\ f_hash'[k] \in 0 .. MaxFlows - 1
        /\ f_hash[k] = -1 /\ \A l \in FlowKeys \ {k} : f_hash'[l] = f_hash[l]
    BY <1>1, <1>2, <1>7, AllocSteps
  <2> PICK n \in 0 .. MaxFlows - 1 : n = f_hash'[k]
    BY <2>1
  <2> PICK e : e = NewEntry
    OBVIOUS
  <2>2. history[s] = <<>>
    BY <1>1, <1>4, <2>1 DEF Untouched, Pool!Tracked
  <2>3. Fits(e, history[s])
    BY <2>2, NewFits
  <2>4. AddPacket(n, e, k, s, p)
    BY <1>7
  <2>5. Rest
    BY <1>1, <1>2, <1>3, <1>4, <2>1, <2>3, <2>4, AddSteps
  <2> QED BY <1>2, <1>3, <2>1, <2>5 DEF IInv
<1>8. CASE NoEntry(k) /\ UNCHANGED <<entries, queue, sink, seen>>
  <2>1. UNCHANGED table
    BY <1>8 DEF NoEntry, TlsNoEntry
  <2>2. TableOK' /\ OneEach' /\ OnlyProper'
    BY <1>1, <1>2, <2>1, TableSame
  <2>3. HistoryOK' /\ EntriesOK' /\ Untouched' /\ NeverTorn' /\ QueueOK' /\ SinkOK'
    <3>1. HistoryOK' /\ EntriesOK' /\ Untouched' /\ SinkOK'
      BY <1>1, <1>2, <1>8, <2>1, WindowsSame DEF seen
    <3>2. QueueOK'
      BY <1>1, <1>2, <1>8, QueueSteps
    <3>3. NeverTorn'
      BY <1>1, <1>2, <1>8, SameProgram DEF NeverTorn, seen
    <3> QED BY <3>1, <3>2, <3>3
  <2> QED BY <1>2, <1>3, <2>2, <2>3 DEF IInv
<1> QED BY <1>5, <1>6, <1>7, <1>8

\* So does a packet that another queue gets,
LEMMA ElsewhereSteps ==
  ASSUME IInv, NEW src \in Endpoints, NEW dst \in Endpoints, NEW len,
         NEW gap \in Gaps, NEW flags, Elsewhere(src, dst, len, gap, flags)
  PROVE  IInv'
<1>1. /\ ClockOK /\ TableOK /\ OneEach /\ OnlyProper /\ HistoryOK /\ EntriesOK
      /\ Untouched /\ NeverTorn /\ QueueOK /\ SinkOK /\ AcceptedOK
  BY DEF IInv
<1>2. /\ ~Here(src, dst) /\ elsewhere' = elsewhere \cup {Stream(src, dst)}
      /\ UNCHANGED <<pc, table, entries, queue, sink, history>>
  BY DEF Elsewhere
<1>3. /\ UNCHANGED program /\ now <= now' /\ AcceptedOK'
      /\ now' \in Nat /\ now' <= 1000 * packets' /\ packets' \in 0 .. MaxPackets
  BY <1>1, ArriveSteps DEF Elsewhere
<1>4. ClockOK'
  BY <1>1, <1>2, <1>3 DEF ClockOK, Queued
<1>5. TableOK' /\ OneEach' /\ OnlyProper'
  BY <1>1, <1>2, <1>3, TableSame
<1>6. HistoryOK' /\ EntriesOK' /\ Untouched' /\ SinkOK'
  BY <1>1, <1>2, <1>3, WindowsSame
<1>7. QueueOK'
  BY <1>1, <1>2, <1>3, QueueSteps
<1>8. NeverTorn'
  <2>1. \A a, b : Stream(a, b)' = Stream(a, b) /\ (Here(a, b)' <=> Here(a, b))
    BY <1>3, SameProgram
  <2>2. ASSUME NEW a \in Endpoints, NEW b \in Endpoints, Stream(a, b) \in elsewhere'
        PROVE  ~Here(a, b)
    <3>1. CASE Stream(a, b) \in elsewhere
      BY <1>1, <3>1 DEF NeverTorn
    <3>2. CASE Stream(a, b) = Stream(src, dst)
      BY <1>2, <3>2, StreamTogether
    <3> QED BY <1>2, <2>2, <3>1, <3>2
  <2> QED BY <2>1, <2>2 DEF NeverTorn
<1> QED BY <1>3, <1>4, <1>5, <1>6, <1>7, <1>8 DEF IInv

\* What the worker takes from the queue is one of its vectors.
LEMMA OldestGood ==
  ASSUME QueueOK, q_count # 0 PROVE Good(q_items[q_head])
<1> USE PartsConstants, QueueIs
<1>1. /\ SP!RingInv /\ Len(SP!Queue!Content) = q_count /\ q_count \in Nat
      /\ \A j \in 1 .. q_count : Good(Fq!Content[j])
  BY SP!ContentIs DEF QueueOK, SP!RingInv, SP!Queue!TypeOK
<1>2. 1 \in 1 .. q_count
  BY <1>1
<1>3. SP!Queue!Content[1] = q_items[(q_head + 1 - 1) % QueueSize]
  BY <1>1, <1>2, SP!ContentIs
<1>4. (q_head + 1 - 1) % QueueSize = q_head
  <2>1. q_head \in 0 .. QueueSize - 1
    BY <1>1 DEF SP!RingInv, SP!Queue!TypeOK, SP!Queue!Places
  <2>2. q_head \in 0 .. 2 * QueueSize - 1 /\ q_head + 1 - 1 = q_head /\ q_head < QueueSize
    BY <2>1
  <2> QED BY <2>2, SP!WrapOnce
<1>5. Fq!Content[1] = q_items[q_head]
  BY <1>3, <1>4
<1> QED BY <1>1, <1>2, <1>5

\* a vector taken from the queue and classified,
LEMMA ClassifySteps == ASSUME IInv, Classify PROVE IInv'
<1>1. /\ ClockOK /\ TableOK /\ OneEach /\ OnlyProper /\ HistoryOK /\ EntriesOK
      /\ Untouched /\ NeverTorn /\ QueueOK /\ SinkOK /\ AcceptedOK
  BY DEF IInv
<1>2. /\ pc = "drain" /\ Fq!Pop
      /\ invalid' = (IF ContractHolds(q_items[q_head].fv) THEN invalid ELSE invalid + 1)
      /\ UNCHANGED <<program, pc, now, table, entries, sink, seen, packets>>
  BY DEF Classify
<1>3. AcceptedOK'
  <2>1. Good(q_items[q_head])
    BY <1>1, <1>2, OldestGood DEF Fq!Pop
  <2>2. WindowSet => ContractHolds(q_items[q_head].fv)
    BY <1>1, <1>2, <2>1 DEF Good, ClockOK
  <2> QED BY <1>1, <1>2, <2>2 DEF AcceptedOK, WindowSet
<1>4. ClockOK'
  BY <1>1, <1>2 DEF ClockOK, Queued
<1>5. TableOK' /\ OneEach' /\ OnlyProper'
  BY <1>1, <1>2, TableSame
<1>6. HistoryOK' /\ EntriesOK' /\ Untouched' /\ SinkOK'
  <2>1. now' \in Nat /\ now <= now'
    BY <1>1, <1>2 DEF ClockOK
  <2> QED BY <1>1, <1>2, <2>1, WindowsSame DEF seen
<1>7. QueueOK'
  BY <1>1, <1>2, QueueSteps
<1>8. NeverTorn'
  BY <1>1, <1>2, SameProgram DEF NeverTorn, seen
<1> QED BY <1>3, <1>4, <1>5, <1>6, <1>7, <1>8 DEF IInv

\* and every other step.
LEMMA OtherSteps ==
  ASSUME IInv, DrainDone \/ UNCHANGED vars PROVE IInv'
<1>1. /\ ClockOK /\ TableOK /\ OneEach /\ OnlyProper /\ HistoryOK /\ EntriesOK
      /\ Untouched /\ NeverTorn /\ QueueOK /\ SinkOK /\ AcceptedOK
  BY DEF IInv
<1>2. /\ pc' \in {"rx", pc}
      /\ UNCHANGED <<program, now, table, entries, queue, invalid, sink, seen, packets>>
  BY DEF DrainDone, vars
<1>3. AcceptedOK' /\ ClockOK'
  BY <1>1, <1>2 DEF AcceptedOK, WindowSet, ClockOK, Queued
<1>4. TableOK' /\ OneEach' /\ OnlyProper'
  BY <1>1, <1>2, TableSame
<1>5. HistoryOK' /\ EntriesOK' /\ Untouched' /\ SinkOK'
  <2>1. now' \in Nat /\ now <= now'
    BY <1>1, <1>2 DEF ClockOK
  <2> QED BY <1>1, <1>2, <2>1, WindowsSame DEF seen
<1>6. QueueOK'
  BY <1>1, <1>2, QueueSteps
<1>7. NeverTorn'
  BY <1>1, <1>2, SameProgram DEF NeverTorn, seen
<1> QED BY <1>3, <1>4, <1>5, <1>6, <1>7 DEF IInv

\* The initial states.
LEMMA InitHolds == ASSUME Init PROVE IInv
<1> USE PartsConstants
<1>1. /\ program \in Programs /\ pc = "rx" /\ now = 0 /\ packets = 0 /\ invalid = 0
      /\ f_hash = [k \in FlowKeys |-> -1] /\ f_next = 0
      /\ entries = [n \in 0 .. MaxFlows - 1 |-> Zero]
      /\ t_head = 0 /\ t_count = MaxFlows
      /\ t_link = [n \in 0 .. MaxFlows - 1 |-> n + 1]
      /\ Fq!Init /\ sink = None /\ history = [s \in Streams |-> <<>>] /\ elsewhere = {}
  BY DEF Init, Pool!Init
<1>2. \A k \in FlowKeys : f_hash[k] = -1 /\ ~Pool!Tracked(k)
  BY <1>1 DEF Pool!Tracked
<1>3. ClockOK
  <2>1. 0 \in 0 .. MaxPackets
    BY FlowProfilesAssumption DEF Spans
  <2> QED BY <1>1, <2>1 DEF ClockOK
<1>4. TableOK
  <2>1. Taken = 0
    BY <1>1 DEF Taken
  <2> QED BY <1>1, <1>2, <2>1 DEF TableOK, FreeListOK
<1>5. OneEach /\ OnlyProper /\ EntriesOK
  BY <1>1, <1>2 DEF OneEach, Pool!OneKeyPerEntry, OnlyProper, EntriesOK
<1>6. HistoryOK
  BY <1>1, EmptySeq DEF HistoryOK
<1>7. Untouched
  <2>1. ASSUME NEW k \in FlowKeys, Proper(k) PROVE history[StreamOf(k)] = <<>>
    <3>1. PICK a, b \in Endpoints : k = Key(a, b)
      BY <2>1 DEF Proper
    <3>2. StreamOf(k) \in Streams
      BY <3>1, KeyIs
    <3> QED BY <1>1, <3>2
  <2> QED BY <2>1 DEF Untouched
<1>8. NeverTorn /\ SinkOK /\ AcceptedOK
  BY <1>1 DEF NeverTorn, SinkOK, AcceptedOK
<1>9. QueueOK
  <2>1. SP!RingInv
    BY <1>1, QueueIs, SP!RingInit
  <2>2. q_count = 0
    BY <1>1 DEF Fq!Init
  <2> QED BY <2>1, <2>2 DEF QueueOK
<1> QED BY <1>3, <1>4, <1>5, <1>6, <1>7, <1>8, <1>9 DEF IInv

\* The invariant is inductive.
LEMMA AlwaysHolds == Spec => []IInv
<1>1. Init => IInv
  BY InitHolds
<1>2. IInv /\ [Next]_vars => IInv'
  BY ReceiveSteps, ElsewhereSteps, ClassifySteps, OtherSteps DEF Next, Idle
<1> QED BY <1>1, <1>2, PTL DEF Spec

-----------------------------------------------------------------------------
\* Every vector a worker queues or classifies (doh_process, iot_process, the
\* prototypes under src/onnx) describes one flow alone, one full window of its
\* packets in the order they came, exactly as computed from that history: for
\* every set of ends, size of table and queue, window, span of the clock and
\* number of packets.
THEOREM WindowsExact == Spec => []VectorsExact
<1>1. IInv => VectorsExact
  BY DEF IInv, QueueOK, SinkOK, Good, VectorsExact
<1> QED BY <1>1, AlwaysHolds, PTL

\* feature_contract_validate_doh and feature_contract_validate_iot never refuse
\* a vector the program built.  A window of 0 is told to doh_contract as it is,
\* which then refuses every vector: run doh_default_window finds that, and the
\* hypothesis leaves that setting of doh_process out and no other.
THEOREM ContractAccepts ==
  ASSUME CfgWindow # 0 \/ "doh" \notin Programs
  PROVE  Spec => []ContractNeverRejects
<1>1. IInv => ContractNeverRejects
  BY DEF IInv, AcceptedOK, WindowSet, ContractNeverRejects
<1> QED BY <1>1, AlwaysHolds, PTL
==============================================================================
