---------------------------- MODULE DeviceProofs ----------------------------
(***************************************************************************)
(* Proofs about the two programs that run on the card.  The DPA packet     *)
(* processor: its rings, for every depth of them and every width of the    *)
(* counters that is a multiple of two rounds, and its flow table and       *)
(* forest, for every table, every hash and every set of frames; any number *)
(* of frames, in any order.  The congestion control: the rate of a flow    *)
(* stays in range and follows the forest's vote, for every clock width,    *)
(* every admissible setting and every forest whose votes are numbers: what *)
(* one votes, and how its trees are walked, is of no account.              *)
(***************************************************************************)
EXTENDS DpaProcessor, MlCc, DataLemmas

-----------------------------------------------------------------------------
(* Counters that wrap.  A counter is a number n modulo Width; its slot is  *)
(* n % Depth and the round it is in (n \div Depth) % 2.                    *)

\* Whole rounds do not matter.
LEMMA WholeRounds ==
  ASSUME NEW m \in Nat \ {0}, NEW q \in Int, NEW b \in Int
  PROVE  /\ m * q \in Int
         /\ (m * q + b) % m = b % m /\ (m * q + b) \div m = q + (b \div m)
<1> DEFINE x == b \div m
           y == b % m
<1>1. m * q \in Int /\ y \in 0 .. m - 1 /\ x \in Int /\ b = m * x + y
  BY DivMod
<1> HIDE DEF x, y
<1>2. m * q + b = m * (q + x) + y /\ q + x \in Int
  BY <1>1
<1>3. (m * (q + x) + y) % m = y /\ (m * (q + x) + y) \div m = q + x
  BY <1>1, <1>2, DivModIs
<1> QED BY <1>1, <1>2, <1>3 DEF x, y

Slot(n) == n % Depth
Round(n) == (n \div Depth) % 2
Counter(n) == n % Width

LEMMA WidthIs ==
  /\ Depth \in Nat \ {0} /\ Width \in Nat \ {0} /\ Depth + Depth <= Width
  /\ \E k \in Nat \ {0} : Width = Depth * (2 * k)
<1>1. Depth \in Nat \ {0} /\ Width \in Nat
  BY DpaAssumption
<1>2. PICK k \in 1 .. Width : Width = 2 * Depth * k
  BY DpaAssumption
<1>3. k \in Nat \ {0}
  BY <1>1, <1>2
<1>4. Width = Depth * (2 * k)
  BY <1>1, <1>2, <1>3
<1>5. Depth * 1 + Depth <= Depth * (2 * k)
  <2>1. 1 \in Int /\ 2 * k \in Int /\ 1 < 2 * k
    BY <1>3
  <2> QED BY <1>1, <2>1, Multiples
<1> QED BY <1>1, <1>3, <1>4, <1>5

\* A counter tells slot and round of what it counts.
LEMMA CounterKeeps ==
  ASSUME NEW n \in Int, NEW b \in Int
  PROVE  /\ Counter(n) \in Counters
         /\ (Counter(n) + b) % Depth = Slot(n + b)
         /\ Slot(Counter(n)) = Slot(n) /\ Round(Counter(n)) = Round(n)
<1>1. PICK k \in Nat \ {0} : Width = Depth * (2 * k)
  BY WidthIs
<1> DEFINE q == n \div Width
           u == n % Width
           z == (2 * k) * q
<1>2. u \in 0 .. Width - 1 /\ q \in Int /\ n = Width * q + u
  BY WidthIs, DivMod
<1> HIDE DEF q, u
<1>3. z \in Int /\ Depth \in Nat \ {0}
  BY <1>2, WidthIs
<1>4. n = Depth * z + u
  BY <1>1, <1>2, <1>3
<1>5. n + b = Depth * z + (u + b) /\ u + b \in Int /\ Depth * z \in Int
  BY <1>2, <1>3, <1>4
<1> HIDE DEF z
<1>6. (n + b) % Depth = (u + b) % Depth
  <2>1. (Depth * z + (u + b)) % Depth = (u + b) % Depth
    BY <1>3, <1>5, WholeRounds
  <2> QED BY <1>5, <2>1
<1>7. n % Depth = u % Depth /\ n \div Depth = z + (u \div Depth)
  <2>1. u \in Int
    BY <1>2
  <2>2. /\ (Depth * z + u) % Depth = u % Depth
        /\ (Depth * z + u) \div Depth = z + (u \div Depth)
    BY <1>3, <2>1, WholeRounds
  <2> QED BY <1>4, <2>2
<1>8. Round(n) = Round(u)
  <2>1. u \div Depth \in Int
    BY <1>2, <1>3, DivMod
  <2>2. z = 2 * (k * q) /\ k * q \in Int
    BY <1>1, <1>2 DEF z
  <2>3. (2 * (k * q) + (u \div Depth)) % 2 = (u \div Depth) % 2
    BY <2>1, <2>2, WholeRounds
  <2> QED BY <1>7, <2>2, <2>3 DEF Round
<1> QED BY <1>2, <1>6, <1>7, <1>8 DEF Counter, Slot, u, Counters

LEMMA CounterUp ==
  ASSUME NEW n \in Int PROVE Up(Counter(n)) = Counter(n + 1)
<1> DEFINE q == n \div Width
           u == n % Width
<1>1. u \in 0 .. Width - 1 /\ q \in Int /\ n = Width * q + u
      /\ Width \in Nat \ {0}
  BY WidthIs, DivMod
<1> HIDE DEF q, u
<1>2. n + 1 = Width * q + (u + 1) /\ u + 1 \in Int
  BY <1>1
<1>3. (n + 1) % Width = (u + 1) % Width
  BY <1>1, <1>2, WholeRounds
<1> QED BY <1>3 DEF Up, Counter, u

LEMMA CounterGap ==
  ASSUME NEW a \in Int, NEW b \in Int
  PROVE  /\ Gap(Counter(a), Counter(b)) = (a - b) % Width
         /\ a - b \in 0 .. Width - 1 => Gap(Counter(a), Counter(b)) = a - b
<1> DEFINE p == a \div Width
           u == a % Width
           q == b \div Width
           v == b % Width
<1>1. /\ u \in 0 .. Width - 1 /\ p \in Int /\ a = Width * p + u
      /\ v \in 0 .. Width - 1 /\ q \in Int /\ b = Width * q + v
      /\ Width \in Nat \ {0}
  BY WidthIs, DivMod
<1> HIDE DEF p, q, u, v
<1>2. a - b = Width * (p - q) + (u - v) /\ p - q \in Int /\ u - v \in Int
  BY <1>1
<1>3. (a - b) % Width = (u - v) % Width
  BY <1>1, <1>2, WholeRounds
<1>4. a - b \in 0 .. Width - 1 => (a - b) % Width = a - b
  <2>1. Width * 0 + (a - b) = a - b
    BY <1>1
  <2> QED BY <1>1, <2>1, DivModIs
<1> QED BY <1>3, <1>4 DEF Gap, Counter, u, v

\* Two numbers of one slot are a round apart or the same.
LEMMA SlotsApart ==
  ASSUME NEW a \in Int, NEW b \in Int, a - b \in 0 .. Depth - 1, Slot(a) = Slot(b)
  PROVE  a = b
<1> DEFINE p == a \div Depth
           q == b \div Depth
           s == a % Depth
<1>1. /\ s \in 0 .. Depth - 1 /\ p \in Int /\ a = Depth * p + s
      /\ q \in Int /\ b = Depth * q + s /\ Depth \in Nat \ {0}
  BY WidthIs, DivMod DEF Slot
<1> HIDE DEF p, q, s
<1>2. Depth * p \in Int /\ Depth * q \in Int
  BY <1>1
<1>3. ~(q < p)
  <2> SUFFICES ASSUME q < p PROVE FALSE
    OBVIOUS
  <2>1. Depth * q + Depth <= Depth * p
    BY <1>1, Multiples
  <2> QED BY <1>1, <1>2, <2>1
<1>4. ~(p < q)
  <2> SUFFICES ASSUME p < q PROVE FALSE
    OBVIOUS
  <2>1. Depth * p + Depth <= Depth * q
    BY <1>1, Multiples
  <2> QED BY <1>1, <1>2, <2>1
<1>5. p = q
  BY <1>1, <1>3, <1>4
<1> QED BY <1>1, <1>5

\* A round later the slot is the same and the owner the other.
LEMMA NextRound ==
  ASSUME NEW n \in Int
  PROVE  /\ Slot(n + Depth) = Slot(n) /\ Round(n) \in {0, 1}
         /\ Slot(n) \in Slots
         /\ Round(n + Depth) = 1 - Round(n)
<1> DEFINE p == n \div Depth
<1>1. Depth \in Nat \ {0} /\ n + Depth = Depth * 1 + n
  BY WidthIs
<1>2. (n + Depth) % Depth = n % Depth /\ (n + Depth) \div Depth = 1 + p
  BY <1>1, WholeRounds
<1>3. p \in Int /\ n % Depth \in 0 .. Depth - 1
  BY <1>1, DivMod
<1> HIDE DEF p
<1>4. p % 2 \in {0, 1} /\ (1 + p) % 2 = 1 - (p % 2)
  BY <1>3
<1> QED BY <1>2, <1>3, <1>4 DEF Slot, Round, p, Slots

LEMMA RoundEnds ==
  ASSUME NEW n \in Int
  PROVE  Round(n + 1) = IF Slot(n + 1) = 0 THEN 1 - Round(n) ELSE Round(n)
<1> DEFINE p == n \div Depth
           s == n % Depth
<1>1. /\ s \in 0 .. Depth - 1 /\ p \in Int /\ n = Depth * p + s
      /\ Depth \in Nat \ {0} /\ Depth * p \in Int
  BY WidthIs, DivMod
<1> HIDE DEF p, s
<1>2. CASE s = Depth - 1
  <2>1. n + 1 = Depth * (p + 1) + 0 /\ p + 1 \in Int /\ 0 \in 0 .. Depth - 1
    BY <1>1, <1>2
  <2>2. (n + 1) % Depth = 0 /\ (n + 1) \div Depth = p + 1
    BY <1>1, <2>1, DivModIs
  <2>3. (p + 1) % 2 = 1 - (p % 2)
    BY <1>1
  <2> QED BY <2>2, <2>3 DEF Slot, Round, p
<1>3. CASE s # Depth - 1
  <2>1. n + 1 = Depth * p + (s + 1) /\ s + 1 \in 0 .. Depth - 1 /\ s + 1 # 0
    BY <1>1, <1>3
  <2>2. (n + 1) % Depth = s + 1 /\ (n + 1) \div Depth = p
    BY <1>1, <2>1, DivModIs
  <2> QED BY <2>1, <2>2 DEF Slot, Round, p
<1> QED BY <1>2, <1>3

-----------------------------------------------------------------------------
(* The inductive invariant.  r frames were received, the handler is at     *)
(* frame c, and t were sent, counted without end.                          *)

Working == pc \in {"process", "ring", "refill", "step"}

\* Frames copied, frames given to the sender, and frames there is or was a
\* receive buffer for.
Copied(c) == IF pc \in {"ring", "refill", "step"} THEN c + 1 ELSE c
Rung(c) == IF pc \in {"refill", "step"} THEN c + 1 ELSE c
Refilled(c) == IF pc = "step" THEN c + Depth + 1 ELSE c + Depth

Counted(r, c, t) ==
    /\ received = Counter(r) /\ sent = Counter(t)
    /\ cq_idx = Counter(c) /\ cq_ci = Counter(c)
    /\ sq_wqe = Counter(Copied(c)) /\ tx_buff_idx = Counter(Copied(c))
    /\ sq_pi = Counter(Rung(c)) /\ rq_pi = Counter(Refilled(c))
    /\ c <= r /\ r <= Refilled(c)
    /\ Working => c < r
    /\ t <= Rung(c) /\ Copied(c) <= t + Depth

\* The next completion of a slot finds the other owner there, which is how
\* the handler tells it from the last one.
Owned(r, c) ==
    /\ \A n \in r .. r + Depth - 1 : cqe[Slot(n)].owner = 1 - Round(n)
    /\ \A n \in c .. r - 1 :
          r <= n + Depth => Slot(cqe[Slot(n)].wqe_counter) = Slot(n)
    /\ IF not_first_run THEN cq_hw_owner_bit = 1 - Round(c)
       ELSE c = 0 /\ pc = "off"

\* What was received and not yet given to the sender is a frame; what was
\* copied and not yet sent is where its send WQE says.
Held(r, c, t) ==
    /\ \A n \in Rung(c) .. r - 1 : rq_data[Slot(n)] \in Frames
    /\ \A n \in t .. Copied(c) - 1 : sq_ring[Slot(n)] = Slot(n)
    /\ pc = "ring" => sq_data[Slot(c)] = swap_macs(rq_data[Slot(c)])

Typed ==
    /\ cqe \in [Slots -> [owner : {0, 1}, wqe_counter : Counters]]
    /\ cq_hw_owner_bit \in {0, 1}
    /\ pc \in {"off", "poll", "process", "ring", "refill", "step", "arm"}
    /\ armed \in BOOLEAN /\ event \in BOOLEAN /\ running \in BOOLEAN
    /\ not_first_run \in BOOLEAN
    /\ DOMAIN rq_data = Slots
    /\ sq_ring \in [Slots -> Slots] /\ DOMAIN sq_data = Slots

Stands(r, c, t) == Counted(r, c, t) /\ Owned(r, c) /\ Held(r, c, t)

IInv == Typed /\ \E r, c, t \in Nat : Stands(r, c, t)

LEMMA Depths == Depth \in Nat \ {0} /\ Width \in Nat \ {0} /\ Depth + Depth <= Width
BY WidthIs

LEMMA SlotIn == \A n \in Int : Slot(n) \in Slots
BY NextRound

LEMMA SmallCounter ==
  /\ \A n \in 0 .. Width - 1 : Counter(n) = n
  /\ \A n \in 0 .. Depth - 1 : Slot(n) = n /\ Round(n) = 0
<1>1. ASSUME NEW n \in 0 .. Width - 1 PROVE Counter(n) = n
  <2>1. Width * 0 + n = n
    BY WidthIs
  <2> QED BY <2>1, WidthIs, DivModIs DEF Counter
<1>2. ASSUME NEW n \in 0 .. Depth - 1 PROVE Slot(n) = n /\ Round(n) = 0
  <2>1. Depth * 0 + n = n
    BY WidthIs
  <2>2. n % Depth = n /\ n \div Depth = 0
    BY <2>1, WidthIs, DivModIs
  <2> QED BY <2>2 DEF Slot, Round
<1> QED BY <1>1, <1>2

LEMMA InitStands == Init => Typed /\ Stands(0, 0, 0)
<1> SUFFICES ASSUME Init PROVE Typed /\ Stands(0, 0, 0)
  OBVIOUS
<1>1. 0 \in Counters /\ Counter(0) = 0 /\ Counter(Depth) = Depth /\ 0 \in Slots
  BY Depths, SmallCounter DEF Counters, Slots
<1>2. cqe \in [Slots -> [owner : {0, 1}, wqe_counter : Counters]]
  BY <1>1 DEF Init, CqMemory
<1>3. Typed
  BY <1>1, <1>2 DEF Init, CqMemory, RqPosted, Typed
<1>4. Counted(0, 0, 0)
  BY <1>1, Depths
  DEF Init, CqMemory, RqPosted, Counted, Copied, Rung, Refilled, Working
<1>5. Owned(0, 0)
  <2>1. \A n \in 0 .. 0 + Depth - 1 : cqe[Slot(n)].owner = 1 - Round(n)
    <3> SUFFICES ASSUME NEW n \in 0 .. Depth - 1
                 PROVE  cqe[Slot(n)].owner = 1 - Round(n)
      BY Depths
    <3>1. Slot(n) \in Slots /\ Round(n) = 0
      BY SmallCounter DEF Slots
    <3> QED BY <3>1 DEF Init, CqMemory
  <2> QED BY <2>1 DEF Init, Owned
<1>6. Held(0, 0, 0)
  BY DEF Init, Held, Copied, Rung
<1> QED BY <1>3, <1>4, <1>5, <1>6 DEF Stands

-----------------------------------------------------------------------------
(* The steps of the card *)

LEMMA ReceiveStands ==
  ASSUME Typed, NEW r \in Nat, NEW c \in Nat, NEW t \in Nat, Stands(r, c, t),
         NEW f \in Frames, Receive(f)
  PROVE  /\ Typed' /\ Stands(r + 1, c, t)'
         /\ r < Refilled(c) /\ rq_data' = [rq_data EXCEPT ![Slot(r)] = f]
<1> DEFINE s == Slot(r)
<1>1. /\ received % Depth = s /\ Pass(received) = Round(r)
      /\ received = Counter(r) /\ received \in Counters
      /\ received' = Counter(r + 1)
      /\ s \in Slots /\ Round(r) \in {0, 1}
      /\ Slot(received) = s
  BY CounterKeeps, CounterUp, NextRound
  DEF Stands, Counted, Receive, Slot, Round, Pass
<1>2. /\ rq_data' = [rq_data EXCEPT ![s] = f]
      /\ cqe' = [cqe EXCEPT ![s] = [owner |-> Round(r), wqe_counter |-> received]]
      /\ armed' = FALSE /\ event' = (event \/ armed)
      /\ UNCHANGED <<sent, rq_pi, cq_ci, running, pc, dpa, sq>>
  BY <1>1 DEF Receive, Notify
<1>3. r < Refilled(c) /\ Refilled(c) \in Nat /\ Copied(c) \in Nat /\ Rung(c) \in Nat
  <2>1. received # rq_pi
    BY DEF Receive
  <2>2. r # Refilled(c)
    BY <2>1 DEF Stands, Counted
  <2> QED BY <2>2, Depths DEF Stands, Counted, Refilled, Copied, Rung
<1> HIDE DEF s
<1>4. Typed'
  BY <1>1, <1>2 DEF Typed, dpa, sq
<1>5. Counted(r + 1, c, t)'
  BY <1>1, <1>2, <1>3 DEF Stands, Counted, dpa, sq, Copied, Rung, Refilled, Working
<1>6. \A n \in Int : /\ Slot(n) \in Slots
                     /\ Slot(n) = s /\ n - r \in 0 .. Depth - 1 => n = r
                     /\ Slot(n) = s /\ r - n \in 0 .. Depth - 1 => n = r
  BY SlotIn, SlotsApart DEF s
<1>7. Owned(r + 1, c)'
  <2>1. \A n \in r + 1 .. r + 1 + Depth - 1 : cqe'[Slot(n)].owner = 1 - Round(n)
    <3> SUFFICES ASSUME NEW n \in r + 1 .. r + Depth
                 PROVE  cqe'[Slot(n)].owner = 1 - Round(n)
      BY Depths
    <3>1. CASE n = r + Depth
      <4>1. Slot(n) = s /\ Round(n) = 1 - Round(r)
        BY <3>1, NextRound DEF s
      <4>2. cqe'[s].owner = Round(r)
        BY <1>1, <1>2 DEF Typed
      <4> QED BY <1>1, <4>1, <4>2
    <3>2. CASE n # r + Depth
      <4>1. n \in r .. r + Depth - 1 /\ n - r \in 0 .. Depth - 1 /\ n # r
        BY <3>2, Depths
      <4>2. Slot(n) # s /\ Slot(n) \in Slots
        BY <1>6, <4>1
      <4>3. cqe'[Slot(n)] = cqe[Slot(n)]
        BY <1>2, <4>2 DEF Typed
      <4> QED BY <4>1, <4>3 DEF Stands, Owned
    <3> QED BY <3>1, <3>2
  <2>2. \A n \in c .. r : r + 1 <= n + Depth =>
                             Slot(cqe'[Slot(n)].wqe_counter) = Slot(n)
    <3> SUFFICES ASSUME NEW n \in c .. r, r + 1 <= n + Depth
                 PROVE  Slot(cqe'[Slot(n)].wqe_counter) = Slot(n)
      OBVIOUS
    <3>1. CASE n = r
      <4>1. cqe'[s].wqe_counter = received
        BY <1>1, <1>2 DEF Typed
      <4> QED BY <1>1, <3>1, <4>1 DEF s
    <3>2. CASE n # r
      <4>1. n \in c .. r - 1 /\ r <= n + Depth /\ r - n \in 0 .. Depth - 1
        BY <3>2, Depths
      <4>2. Slot(n) # s /\ Slot(n) \in Slots
        BY <1>6, <3>2, <4>1
      <4>3. cqe'[Slot(n)] = cqe[Slot(n)]
        BY <1>2, <4>2 DEF Typed
      <4> QED BY <4>1, <4>3 DEF Stands, Owned
    <3> QED BY <3>1, <3>2
  <2>3. r + 1 - 1 = r
    OBVIOUS
  <2> QED BY <1>2, <2>1, <2>2, <2>3 DEF Stands, Owned, dpa
<1>8. Held(r + 1, c, t)'
  <2>1. \A n \in Rung(c) .. r : rq_data'[Slot(n)] \in Frames
    <3> SUFFICES ASSUME NEW n \in Rung(c) .. r PROVE rq_data'[Slot(n)] \in Frames
      OBVIOUS
    <3>0. n \in Int /\ Slot(n) \in Slots
      BY <1>3, <1>6
    <3>1. CASE Slot(n) = s
      BY <1>1, <1>2, <3>0, <3>1 DEF Typed
    <3>2. CASE Slot(n) # s
      <4>1. n \in Rung(c) .. r - 1
        BY <1>3, <3>0, <3>2 DEF s
      <4>2. rq_data'[Slot(n)] = rq_data[Slot(n)]
        BY <1>2, <3>0, <3>2 DEF Typed
      <4> QED BY <4>1, <4>2 DEF Stands, Held
    <3> QED BY <3>1, <3>2
  <2>2. pc = "ring" => rq_data'[Slot(c)] = rq_data[Slot(c)]
    <3> SUFFICES ASSUME pc = "ring" PROVE rq_data'[Slot(c)] = rq_data[Slot(c)]
      OBVIOUS
    <3>1. c < r /\ r - c \in 0 .. Depth - 1
      BY <1>3, Depths DEF Stands, Counted, Refilled, Working
    <3>2. Slot(c) # s /\ Slot(c) \in Slots
      BY <1>6, <3>1
    <3> QED BY <1>2, <3>2 DEF Typed
  <2>3. /\ Rung(c)' = Rung(c) /\ Copied(c)' = Copied(c) /\ r + 1 - 1 = r
        /\ pc' = pc /\ sq_ring' = sq_ring /\ sq_data' = sq_data
    BY <1>2 DEF Rung, Copied, sq
  <2> QED BY <2>1, <2>2, <2>3 DEF Stands, Held
<1> QED BY <1>2, <1>3, <1>4, <1>5, <1>7, <1>8 DEF Stands, s

LEMMA TransmitStands ==
  ASSUME Typed, NEW r \in Nat, NEW c \in Nat, NEW t \in Nat, Stands(r, c, t),
         Transmit
  PROVE  Typed' /\ Stands(r, c, t + 1)' /\ t < Rung(c)
<1>1. /\ sent = Counter(t) /\ sent' = Counter(t + 1) /\ sent # sq_pi
      /\ UNCHANGED <<received, rq, wake, pc, dpa, sq, ml>>
  BY CounterUp DEF Stands, Counted, Transmit
<1>2. t < Rung(c)
  <2>1. t # Rung(c)
    BY <1>1 DEF Stands, Counted
  <2> QED BY <2>1 DEF Stands, Counted, Rung
<1>3. Typed'
  BY <1>1 DEF Typed, rq, wake, dpa, sq
<1>4. Counted(r, c, t + 1)'
  BY <1>1, <1>2, Depths
  DEF Stands, Counted, rq, dpa, sq, Copied, Rung, Refilled, Working
<1>5. Owned(r, c)'
  BY <1>1 DEF Stands, Owned, rq, dpa
<1>6. Held(r, c, t + 1)'
  BY <1>1 DEF Stands, Held, rq, sq, Copied, Rung
<1> QED BY <1>2, <1>3, <1>4, <1>5, <1>6 DEF Stands

LEMMA HostRunStands ==
  ASSUME Typed, NEW r \in Nat, NEW c \in Nat, NEW t \in Nat, Stands(r, c, t),
         HostRun \/ UNCHANGED vars
  PROVE  Typed' /\ Stands(r, c, t)'
<1>1. /\ running' \in BOOLEAN
      /\ UNCHANGED <<nic, rq, armed, event, pc, dpa, sq>>
  BY DEF HostRun, vars, wake, Typed
<1> QED BY <1>1
        DEF Typed, Stands, Counted, Owned, Held, nic, rq, dpa, sq, Copied, Rung,
            Refilled, Working

-----------------------------------------------------------------------------
(* The steps of the handler *)

LEMMA ActivateStands ==
  ASSUME Typed, NEW r \in Nat, NEW c \in Nat, NEW t \in Nat, Stands(r, c, t),
         Activate
  PROVE  Typed' /\ Stands(r, c, t)'
<1>1. /\ pc = "off" /\ pc' = "poll" /\ event' = FALSE
      /\ UNCHANGED <<nic, rq, armed, running, sq_pi, sq_ring, sq_data>>
  BY DEF Activate, Initialised, sq
<1>2. /\ not_first_run' = TRUE /\ cq_hw_owner_bit' = 1 - Round(c)
      /\ cq_hw_owner_bit' \in {0, 1}
      /\ cq_idx' = Counter(c) /\ sq_wqe' = Counter(c) /\ tx_buff_idx' = Counter(c)
  <2>1. CASE not_first_run
    BY <1>1, <2>1 DEF Activate, dpa, sq, Stands, Owned, Counted, Copied, Typed
  <2>2. CASE ~not_first_run
    <3>1. c = 0 /\ Counter(0) = 0 /\ Round(0) = 0
      BY <2>2, SmallCounter, Depths DEF Stands, Owned
    <3> QED BY <2>2, <3>1 DEF Activate, Initialised, CqContext
  <2> QED BY <2>1, <2>2 DEF Typed
<1>3. Typed'
  BY <1>1, <1>2 DEF Typed, rq
<1>4. Counted(r, c, t)'
  BY <1>1, <1>2 DEF Stands, Counted, nic, rq, Copied, Rung, Refilled, Working
<1>5. Owned(r, c)'
  BY <1>1, <1>2 DEF Stands, Owned, rq
<1>6. Held(r, c, t)'
  BY <1>1 DEF Stands, Held, rq, Copied, Rung
<1> QED BY <1>3, <1>4, <1>5, <1>6 DEF Stands

\* A completion the handler takes for new is new.
LEMMA PollStands ==
  ASSUME Typed, NEW r \in Nat, NEW c \in Nat, NEW t \in Nat, Stands(r, c, t), Poll
  PROVE  Typed' /\ Stands(r, c, t)'
<1>1. /\ pc = "poll" /\ pc' \in {"process", "arm"}
      /\ UNCHANGED <<nic, rq, wake, dpa, sq>>
  BY DEF Poll
<1>2. pc' = "process" => c < r
  <2> SUFFICES ASSUME pc' = "process", ~(c < r) PROVE FALSE
    OBVIOUS
  <2>1. r = c /\ c \in r .. r + Depth - 1
    BY Depths DEF Stands, Counted
  <2>2. cqe[Slot(c)].owner = 1 - Round(c)
    BY <2>1 DEF Stands, Owned
  <2>3. cq_hw_owner_bit = 1 - Round(c)
    BY <1>1 DEF Stands, Owned
  <2>4. cq_idx % Depth = Slot(c)
    BY CounterKeeps DEF Stands, Counted, Slot
  <2>5. ~Completed
    BY <2>2, <2>3, <2>4 DEF Completed
  <2> QED BY <2>5 DEF Poll
<1>3. Typed'
  BY <1>1 DEF Typed, rq, wake, dpa, sq
<1>4. Counted(r, c, t)'
  BY <1>1, <1>2 DEF Stands, Counted, nic, rq, dpa, sq, Copied, Rung, Refilled, Working
<1>5. Owned(r, c)'
  BY <1>1 DEF Stands, Owned, rq, dpa
<1>6. Held(r, c, t)'
  BY <1>1 DEF Stands, Held, rq, sq, Copied, Rung
<1> QED BY <1>3, <1>4, <1>5, <1>6 DEF Stands

LEMMA ArmStands ==
  ASSUME Typed, NEW r \in Nat, NEW c \in Nat, NEW t \in Nat, Stands(r, c, t), Arm
  PROVE  Typed' /\ Stands(r, c, t)'
<1>1. /\ pc = "arm" /\ pc' = "off" /\ armed' \in BOOLEAN /\ event' \in BOOLEAN
      /\ UNCHANGED <<nic, rq, running, dpa, sq>>
  BY DEF Arm, Typed
<1>2. Typed'
  BY <1>1 DEF Typed, rq, dpa, sq
<1>3. Counted(r, c, t)'
  BY <1>1 DEF Stands, Counted, nic, rq, dpa, sq, Copied, Rung, Refilled, Working
<1>4. Owned(r, c)'
  BY <1>1 DEF Stands, Owned, rq, dpa
<1>5. Held(r, c, t)'
  BY <1>1 DEF Stands, Held, rq, sq, Copied, Rung
<1> QED BY <1>2, <1>3, <1>4, <1>5 DEF Stands

\* The frame processed is the one the completion is for, and its copy goes
\* where nothing waits to be sent.
LEMMA ProcessStands ==
  ASSUME Typed, NEW r \in Nat, NEW c \in Nat, NEW t \in Nat, Stands(r, c, t),
         Process, SenderKeepsUp
  PROVE  /\ Typed' /\ Stands(r, c, t)'
         /\ c < t + Depth /\ c < r /\ Rung(c) = c /\ Rung(c)' = c
         /\ sq_ring' = [sq_ring EXCEPT ![Slot(c)] = Slot(c)]
         /\ sq_data' = [sq_data EXCEPT ![Slot(c)] = swap_macs(rq_data[Slot(c)])]
<1> DEFINE s == Slot(c)
<1>1. /\ pc = "process" /\ pc' = "ring"
      /\ UNCHANGED <<nic, rq, wake, dpa, sq_pi>>
  BY DEF Process
<1>2. /\ Rung(c) = c /\ Copied(c) = c /\ c < r /\ r <= c + Depth
      /\ sq_wqe = Counter(c) /\ tx_buff_idx = Counter(c) /\ cq_idx = Counter(c)
      /\ t <= c /\ c <= t + Depth
  BY <1>1 DEF Stands, Counted, Rung, Copied, Refilled, Working
<1>3. s \in Slots /\ Slot(Counter(c)) = s
  BY SlotIn, CounterKeeps
<1>4. c < t + Depth
  <2>1. Gap(Counter(c), Counter(t)) < Depth
    BY <1>1, <1>2 DEF SenderKeepsUp, Stands, Counted
  <2>2. c - t \in 0 .. Width - 1
    BY <1>2, Depths
  <2>3. c - t < Depth
    BY <2>1, <2>2, CounterGap
  <2> QED BY <2>3, Depths
<1>5. cqe[cq_idx % Depth].wqe_counter % Depth = s
  <2>1. cq_idx % Depth = s
    BY <1>2, <1>3 DEF Slot
  <2>2. Slot(cqe[s].wqe_counter) = s
    BY <1>2 DEF Stands, Owned
  <2> QED BY <2>1, <2>2 DEF Slot
<1>6. /\ DataEntry = s /\ SendWqe = s
  BY <1>2, <1>3 DEF DataEntry, SendWqe, Slot
<1>7. /\ sq_data' = [sq_data EXCEPT ![s] = swap_macs(rq_data[s])]
      /\ sq_ring' = [sq_ring EXCEPT ![s] = s]
      /\ tx_buff_idx' = Counter(c + 1) /\ sq_wqe' = Counter(c + 1)
  <2>1. tx_buff_idx' = Counter(c + 1) /\ sq_wqe' = Counter(c + 1)
    BY <1>2, CounterUp DEF Process
  <2> HIDE DEF s
  <2>2. /\ sq_data' = [sq_data EXCEPT ![s] = swap_macs(rq_data[s])]
        /\ sq_ring' = [sq_ring EXCEPT ![s] = s]
    BY <1>5, <1>6 DEF Process
  <2> QED BY <2>1, <2>2
<1> HIDE DEF s
<1>8. Typed'
  BY <1>1, <1>3, <1>7 DEF Typed, rq, wake, dpa
<1>9. Counted(r, c, t)'
  BY <1>1, <1>2, <1>4, <1>7, Depths
  DEF Stands, Counted, nic, rq, dpa, Copied, Rung, Refilled, Working
<1>10. Owned(r, c)'
  BY <1>1 DEF Stands, Owned, rq, dpa
<1>11. Held(r, c, t)'
  <2>1. Rung(c)' = c /\ Copied(c)' = c + 1 /\ rq_data' = rq_data
    BY <1>1 DEF Rung, Copied, rq
  <2>2. \A n \in t .. c : sq_ring'[Slot(n)] = Slot(n)
    <3> SUFFICES ASSUME NEW n \in t .. c PROVE sq_ring'[Slot(n)] = Slot(n)
      OBVIOUS
    <3>0. Slot(n) \in Slots
      BY SlotIn
    <3>1. CASE Slot(n) = s
      BY <1>3, <1>7, <3>1 DEF Typed
    <3>2. CASE Slot(n) # s
      <4>1. n \in t .. c - 1
        BY <3>2 DEF s
      <4>2. sq_ring'[Slot(n)] = sq_ring[Slot(n)]
        BY <1>7, <3>0, <3>2 DEF Typed
      <4> QED BY <1>2, <4>1, <4>2 DEF Stands, Held
    <3> QED BY <3>1, <3>2
  <2>3. sq_data'[s] = swap_macs(rq_data[s])
    BY <1>3, <1>7 DEF Typed
  <2>4. c + 1 - 1 = c
    OBVIOUS
  <2> QED BY <1>2, <2>1, <2>2, <2>3, <2>4 DEF Stands, Held, s
<1> QED BY <1>1, <1>2, <1>4, <1>7, <1>8, <1>9, <1>10, <1>11 DEF Stands, Rung, s

LEMMA RingStands ==
  ASSUME Typed, NEW r \in Nat, NEW c \in Nat, NEW t \in Nat, Stands(r, c, t), Ring
  PROVE  Typed' /\ Stands(r, c, t)'
<1>1. /\ pc = "ring" /\ pc' = "refill" /\ sq_pi' = Up(sq_pi)
      /\ UNCHANGED <<nic, rq, wake, dpa, tx_buff_idx, sq_wqe, sq_ring, sq_data>>
  BY DEF Ring
<1>2. sq_pi' = Counter(c + 1)
  BY <1>1, CounterUp DEF Stands, Counted, Rung
<1>3. Typed'
  BY <1>1 DEF Typed, rq, wake, dpa
<1>4. Counted(r, c, t)'
  <2>1. /\ Rung(c) = c /\ Rung(c)' = c + 1 /\ Copied(c)' = Copied(c)
        /\ Refilled(c)' = Refilled(c) /\ Working /\ t <= c + 1
    BY <1>1 DEF Copied, Rung, Refilled, Working, Stands, Counted
  <2> QED BY <1>1, <1>2, <2>1 DEF Stands, Counted, nic, rq, dpa
<1>5. Owned(r, c)'
  BY <1>1 DEF Stands, Owned, rq, dpa
<1>6. Held(r, c, t)'
  BY <1>1 DEF Stands, Held, rq, Copied, Rung
<1> QED BY <1>3, <1>4, <1>5, <1>6 DEF Stands

LEMMA RefillStands ==
  ASSUME Typed, NEW r \in Nat, NEW c \in Nat, NEW t \in Nat, Stands(r, c, t), Refill
  PROVE  Typed' /\ Stands(r, c, t)'
<1>1. /\ pc = "refill" /\ pc' = "step" /\ rq_pi' = Up(rq_pi)
      /\ UNCHANGED <<nic, cqe, rq_data, cq_ci, wake, dpa, sq>>
  BY DEF Refill
<1>2. rq_pi' = Counter(c + Depth + 1)
  BY <1>1, CounterUp, Depths DEF Stands, Counted, Refilled
<1>3. Typed'
  BY <1>1 DEF Typed, wake, dpa, sq
<1>4. Counted(r, c, t)'
  BY <1>1, <1>2, Depths
  DEF Stands, Counted, nic, dpa, sq, Copied, Rung, Refilled, Working
<1>5. Owned(r, c)'
  BY <1>1 DEF Stands, Owned, dpa
<1>6. Held(r, c, t)'
  BY <1>1 DEF Stands, Held, sq, Copied, Rung
<1> QED BY <1>3, <1>4, <1>5, <1>6 DEF Stands

\* The owner bit turns with the round.
LEMMA StepStands ==
  ASSUME Typed, NEW r \in Nat, NEW c \in Nat, NEW t \in Nat, Stands(r, c, t), Step
  PROVE  Typed' /\ Stands(r, c + 1, t)' /\ Rung(c + 1)' = Rung(c)
<1>1. /\ pc = "step" /\ pc' = "poll" /\ cq_idx' = Up(cq_idx) /\ cq_ci' = Up(cq_idx)
      /\ UNCHANGED <<nic, cqe, rq_data, rq_pi, wake, not_first_run, sq>>
  BY DEF Step
<1>2. cq_idx' = Counter(c + 1) /\ cq_ci' = Counter(c + 1)
  BY <1>1, CounterUp DEF Stands, Counted
<1>3. not_first_run /\ cq_hw_owner_bit = 1 - Round(c)
  BY <1>1 DEF Stands, Owned
<1>4. cq_hw_owner_bit' = 1 - Round(c + 1) /\ cq_hw_owner_bit' \in {0, 1}
  <2>1. cq_idx' % Depth = Slot(c + 1)
    BY <1>2, CounterKeeps DEF Slot
  <2>2. Round(c + 1) = IF Slot(c + 1) = 0 THEN 1 - Round(c) ELSE Round(c)
    BY RoundEnds
  <2>3. Round(c) \in {0, 1}
    BY NextRound
  <2> QED BY <1>3, <2>1, <2>2, <2>3 DEF Step
<1>5. Typed'
  BY <1>1, <1>4 DEF Typed, wake, sq
<1>6. /\ Rung(c + 1)' = c + 1 /\ Rung(c) = c + 1 /\ Copied(c + 1)' = c + 1
      /\ Copied(c) = c + 1 /\ Refilled(c) = c + Depth + 1
      /\ Refilled(c + 1)' = c + 1 + Depth /\ c + Depth + 1 = c + 1 + Depth
  BY <1>1, Depths DEF Rung, Copied, Refilled
<1>7. Counted(r, c + 1, t)'
  BY <1>1, <1>2, <1>6, Depths DEF Stands, Counted, nic, sq, Working
<1>8. Owned(r, c + 1)'
  BY <1>1, <1>3, <1>4 DEF Stands, Owned
<1>9. Held(r, c + 1, t)'
  BY <1>1, <1>6 DEF Stands, Held, sq
<1> QED BY <1>5, <1>6, <1>7, <1>8, <1>9 DEF Stands

LEMMA NextStands ==
  ASSUME Typed, NEW r \in Nat, NEW c \in Nat, NEW t \in Nat, Stands(r, c, t),
         [Next]_vars
  PROVE  IInv'
<1>0. r + 1 \in Nat /\ c + 1 \in Nat /\ t + 1 \in Nat
  OBVIOUS
<1>1. ASSUME NEW f \in Frames, Receive(f) PROVE IInv'
  BY <1>0, <1>1, ReceiveStands DEF IInv
<1>2. ASSUME Transmit PROVE IInv'
  BY <1>0, <1>2, TransmitStands DEF IInv
<1>3. ASSUME HostRun \/ UNCHANGED vars PROVE IInv'
  BY <1>3, HostRunStands DEF IInv
<1>4. ASSUME Handler, SenderKeepsUp PROVE IInv'
  <2>1. ASSUME Typed', Stands(r, c, t)' PROVE IInv'
    BY <2>1 DEF IInv
  <2>2. ASSUME Typed', Stands(r, c + 1, t)' PROVE IInv'
    BY <1>0, <2>2 DEF IInv
  <2> QED
    BY <1>4, <2>1, <2>2, ActivateStands, PollStands, ArmStands, ProcessStands,
       RingStands, RefillStands, StepStands DEF Handler
<1> QED BY <1>1, <1>2, <1>3, <1>4 DEF Next, Quiet

LEMMA IInvHolds == Spec => []IInv
<1>1. Init => IInv
  BY InitStands DEF IInv
<1>2. IInv /\ [Next]_vars => IInv'
  BY NextStands DEF IInv
<1> QED BY <1>1, <1>2, PTL DEF Spec

\* Type correctness: the NIC never has more receive buffers than there are,
\* and is never more than one completion past a full CQ (process_packet,
\* com_step_cq).
THEOREM TypeCorrect == Spec => []TypeOK
<1>1. ASSUME Typed, NEW r \in Nat, NEW c \in Nat, NEW t \in Nat, Stands(r, c, t)
      PROVE  TypeOK
  <2>1. {received, sent, rq_pi, cq_ci, cq_idx, tx_buff_idx, sq_wqe, sq_pi}
           \subseteq Counters
    <3>1. Copied(c) \in Int /\ Rung(c) \in Int /\ Refilled(c) \in Int
      BY Depths DEF Copied, Rung, Refilled
    <3> QED BY <3>1, CounterKeeps, <1>1 DEF Stands, Counted
  <2>2. Gap(rq_pi, received) <= Depth
    <3>1. /\ Refilled(c) - r \in 0 .. Depth /\ Refilled(c) \in Int
          /\ Refilled(c) - r \in 0 .. Width - 1
      BY <1>1, Depths DEF Stands, Counted, Refilled, Working
    <3>2. Gap(rq_pi, received) = Refilled(c) - r
      <4>1. rq_pi = Counter(Refilled(c)) /\ received = Counter(r)
        BY <1>1 DEF Stands, Counted
      <4>2. r \in Int
        OBVIOUS
      <4> QED BY <3>1, <4>1, <4>2, CounterGap
    <3> QED BY <3>1, <3>2
  <2>3. Gap(received, cq_ci) <= Depth + 1
    <3>1. r - c \in 0 .. Depth + 1
      BY <1>1, Depths DEF Stands, Counted, Refilled
    <3>2. Gap(received, cq_ci) = (r - c) % Width
      <4>1. received = Counter(r) /\ cq_ci = Counter(c)
        BY <1>1 DEF Stands, Counted
      <4>2. r \in Int /\ c \in Int
        OBVIOUS
      <4> QED BY <4>1, <4>2, CounterGap
    <3>3. CASE r - c \in 0 .. Width - 1
      <4>1. Gap(received, cq_ci) = r - c
        BY <1>1, <3>3, CounterGap DEF Stands, Counted
      <4> QED BY <3>1, <4>1
    <3>4. CASE r - c \notin 0 .. Width - 1
      <4>1. Width <= Depth + 1
        BY <3>1, <3>4, Depths
      <4>2. (r - c) % Width \in 0 .. Width - 1
        BY Depths, DivMod
      <4> QED BY <3>2, <4>1, <4>2, Depths
    <3> QED BY <3>3, <3>4
  <2> QED BY <1>1, <2>1, <2>2, <2>3 DEF Typed, TypeOK
<1>2. IInv => TypeOK
  BY <1>1 DEF IInv
<1> QED BY <1>2, IInvHolds, PTL

-----------------------------------------------------------------------------
(* The line of replies *)

\* The values of f from lo up to before hi.
Cut(f, lo, hi) == [k \in 1 .. hi - lo |-> f[lo + k - 1]]

Agree(f, g, lo, hi) == \A n \in lo .. hi - 1 : g[n] = f[n]

LEMMA CutLength ==
  ASSUME NEW f, NEW lo \in Nat, NEW hi \in Nat, lo <= hi
  PROVE  /\ Len(Cut(f, lo, hi)) = hi - lo
         /\ \A k \in 1 .. hi - lo : Cut(f, lo, hi)[k] = f[lo + k - 1]
<1>1. hi - lo \in Nat
  OBVIOUS
<1> QED BY <1>1 DEF Cut

LEMMA CutIsSeq ==
  ASSUME NEW f, NEW lo \in Nat, NEW hi \in Nat, lo <= hi,
         NEW S, \A n \in lo .. hi - 1 : f[n] \in S
  PROVE  Cut(f, lo, hi) \in Seq(S)
<1>1. hi - lo \in Nat /\ \A k \in 1 .. hi - lo : lo + k - 1 \in lo .. hi - 1
  OBVIOUS
<1>2. \A k \in 1 .. hi - lo : f[lo + k - 1] \in S
  BY <1>1
<1> QED BY <1>1, <1>2 DEF Cut

LEMMA CutAppends ==
  ASSUME NEW f, NEW g, NEW lo \in Nat, NEW hi \in Nat, lo <= hi,
         Agree(f, g, lo, hi)
  PROVE  Cut(g, lo, hi + 1) = Append(Cut(f, lo, hi), g[hi])
<1> DEFINE S == {f[n] : n \in lo .. hi - 1} \cup {g[hi]}
           p == Cut(f, lo, hi)
           q == Cut(g, lo, hi + 1)
<1>0. \A n \in lo .. hi - 1 : g[n] = f[n]
  BY DEF Agree
<1>1. (\A n \in lo .. hi - 1 : f[n] \in S) /\ g[hi] \in S
  OBVIOUS
<1>2. hi + 1 \in Nat /\ lo <= hi + 1 /\ \A n \in lo .. (hi + 1) - 1 : g[n] \in S
  BY <1>0, <1>1
<1> HIDE DEF S
<1>3. /\ p \in Seq(S) /\ Len(p) = hi - lo
      /\ \A k \in 1 .. hi - lo : p[k] = f[lo + k - 1]
  BY <1>1, CutIsSeq, CutLength
<1>4. /\ q \in Seq(S) /\ Len(q) = (hi + 1) - lo
      /\ \A k \in 1 .. (hi + 1) - lo : q[k] = g[lo + k - 1]
  <2>1. /\ Cut(g, lo, hi + 1) \in Seq(S)
        /\ Len(Cut(g, lo, hi + 1)) = (hi + 1) - lo
        /\ \A k \in 1 .. (hi + 1) - lo : Cut(g, lo, hi + 1)[k] = g[lo + k - 1]
    <3>1. Cut(g, lo, hi + 1) \in Seq(S)
      BY <1>2, CutIsSeq
    <3> QED BY <1>2, <3>1, CutLength
  <2> QED BY <2>1
<1> HIDE DEF p, q
<1>5. /\ Append(p, g[hi]) \in Seq(S) /\ Len(Append(p, g[hi])) = hi - lo + 1
      /\ \A k \in 1 .. hi - lo : Append(p, g[hi])[k] = p[k]
      /\ Append(p, g[hi])[hi - lo + 1] = g[hi]
  BY <1>1, <1>3, AppendProperties
<1>6. \A k \in 1 .. (hi + 1) - lo : q[k] = Append(p, g[hi])[k]
  <2> SUFFICES ASSUME NEW k \in 1 .. (hi + 1) - lo PROVE q[k] = Append(p, g[hi])[k]
    OBVIOUS
  <2>1. CASE k = hi - lo + 1
    <3>1. lo + k - 1 = hi
      BY <2>1
    <3> QED BY <1>4, <1>5, <2>1, <3>1
  <2>2. CASE k # hi - lo + 1
    <3>1. k \in 1 .. hi - lo /\ lo + k - 1 \in lo .. hi - 1
      BY <2>2
    <3> QED BY <1>0, <1>3, <1>4, <1>5, <3>1
  <2> QED BY <2>1, <2>2
<1>7. q = Append(p, g[hi])
  BY <1>4, <1>5, <1>6, SeqEqual
<1> QED BY <1>7 DEF p, q

LEMMA CutLoses ==
  ASSUME NEW f, NEW g, NEW lo \in Nat, NEW hi \in Nat, lo < hi,
         \A n \in lo .. hi - 1 : g[n] = f[n]
  PROVE  Cut(f, lo, hi) # <<>> /\ Cut(g, lo + 1, hi) = Tail(Cut(f, lo, hi))
<1> DEFINE S == {f[n] : n \in lo .. hi - 1}
           p == Cut(f, lo, hi)
           q == Cut(g, lo + 1, hi)
<1>1. /\ lo <= hi /\ lo + 1 \in Nat /\ lo + 1 <= hi
      /\ \A n \in lo .. hi - 1 : f[n] \in S
      /\ \A n \in lo + 1 .. hi - 1 : g[n] \in S
  OBVIOUS
<1> HIDE DEF S
<1>2. /\ p \in Seq(S) /\ Len(p) = hi - lo
      /\ \A k \in 1 .. hi - lo : p[k] = f[lo + k - 1]
  BY <1>1, CutIsSeq, CutLength
<1>3. /\ q \in Seq(S) /\ Len(q) = hi - (lo + 1)
      /\ \A k \in 1 .. hi - (lo + 1) : q[k] = g[(lo + 1) + k - 1]
  <2>1. /\ Cut(g, lo + 1, hi) \in Seq(S)
        /\ Len(Cut(g, lo + 1, hi)) = hi - (lo + 1)
        /\ \A k \in 1 .. hi - (lo + 1) : Cut(g, lo + 1, hi)[k] = g[(lo + 1) + k - 1]
    <3>1. Cut(g, lo + 1, hi) \in Seq(S)
      BY <1>1, CutIsSeq
    <3>2. Len(Cut(g, lo + 1, hi)) = hi - (lo + 1)
      BY <1>1, CutLength
    <3>3. ASSUME NEW k \in 1 .. hi - (lo + 1)
          PROVE  Cut(g, lo + 1, hi)[k] = g[(lo + 1) + k - 1]
      BY <1>1, CutLength
    <3> QED BY <3>1, <3>2, <3>3
  <2> QED BY <2>1
<1> HIDE DEF p, q
<1>4. p # <<>>
  BY <1>2, EmptySeq
<1>5. /\ Tail(p) \in Seq(S) /\ Len(Tail(p)) = hi - lo - 1
      /\ \A k \in 1 .. hi - lo - 1 : Tail(p)[k] = p[k + 1]
  BY <1>2, <1>4, HeadTailProperties
<1>6. \A k \in 1 .. hi - (lo + 1) : q[k] = Tail(p)[k]
  <2> SUFFICES ASSUME NEW k \in 1 .. hi - (lo + 1) PROVE q[k] = Tail(p)[k]
    OBVIOUS
  <2>1. /\ k \in 1 .. hi - lo - 1 /\ k + 1 \in 1 .. hi - lo
        /\ (lo + 1) + k - 1 = lo + k /\ lo + (k + 1) - 1 = lo + k
        /\ lo + k \in lo .. hi - 1
    OBVIOUS
  <2>2. q[k] = g[lo + k] /\ p[k + 1] = f[lo + k] /\ Tail(p)[k] = p[k + 1]
    BY <1>2, <1>3, <1>5, <2>1
  <2> QED BY <2>1, <2>2
<1>7. q = Tail(p)
  BY <1>3, <1>5, <1>6, SeqEqual
<1> QED BY <1>4, <1>7 DEF p, q

LEMMA CutsJoin ==
  ASSUME NEW f, NEW lo \in Nat, NEW mid \in Nat, NEW hi \in Nat,
         lo <= mid, mid <= hi
  PROVE  Cut(f, lo, mid) \o Cut(f, mid, hi) = Cut(f, lo, hi)
<1> DEFINE S == {f[n] : n \in lo .. hi - 1}
           p == Cut(f, lo, mid)
           q == Cut(f, mid, hi)
           w == Cut(f, lo, hi)
<1>1. /\ lo <= hi
      /\ \A n \in lo .. hi - 1 : f[n] \in S
      /\ \A n \in lo .. mid - 1 : f[n] \in S
      /\ \A n \in mid .. hi - 1 : f[n] \in S
  OBVIOUS
<1> HIDE DEF S
<1>2. /\ p \in Seq(S) /\ Len(p) = mid - lo
      /\ \A k \in 1 .. mid - lo : p[k] = f[lo + k - 1]
  BY <1>1, CutIsSeq, CutLength
<1>3. /\ q \in Seq(S) /\ Len(q) = hi - mid
      /\ \A k \in 1 .. hi - mid : q[k] = f[mid + k - 1]
  BY <1>1, CutIsSeq, CutLength
<1>4. /\ w \in Seq(S) /\ Len(w) = hi - lo
      /\ \A k \in 1 .. hi - lo : w[k] = f[lo + k - 1]
  BY <1>1, CutIsSeq, CutLength
<1> HIDE DEF p, q, w
<1>5. /\ p \o q \in Seq(S) /\ Len(p \o q) = hi - lo
      /\ \A k \in 1 .. hi - lo : (p \o q)[k] = IF k <= mid - lo THEN p[k]
                                               ELSE q[k - (mid - lo)]
  <2>1. (mid - lo) + (hi - mid) = hi - lo
    OBVIOUS
  <2>2. /\ p \o q \in Seq(S) /\ Len(p \o q) = Len(p) + Len(q)
        /\ \A k \in 1 .. Len(p) + Len(q) :
              (p \o q)[k] = IF k <= Len(p) THEN p[k] ELSE q[k - Len(p)]
    BY <1>2, <1>3, ConcatProperties
  <2> QED BY <1>2, <1>3, <2>1, <2>2
<1>6. \A k \in 1 .. hi - lo : (p \o q)[k] = w[k]
  <2> SUFFICES ASSUME NEW k \in 1 .. hi - lo PROVE (p \o q)[k] = w[k]
    OBVIOUS
  <2>1. CASE k <= mid - lo
    <3>1. (p \o q)[k] = p[k]
      BY <1>5, <2>1
    <3>2. k \in 1 .. mid - lo
      BY <2>1
    <3>3. p[k] = f[lo + k - 1]
      BY <1>2, <3>2
    <3>4. w[k] = f[lo + k - 1]
      BY <1>4
    <3> QED BY <3>1, <3>3, <3>4
  <2>2. CASE k > mid - lo
    <3>1. /\ k - (mid - lo) \in 1 .. hi - mid
          /\ mid + (k - (mid - lo)) - 1 = lo + k - 1
      BY <2>2
    <3>2. w[k] = f[lo + k - 1]
      BY <1>4
    <3>4. (p \o q)[k] = q[k - (mid - lo)]
      BY <1>5, <2>2
    <3>3. q[k - (mid - lo)] = f[lo + k - 1]
      BY <1>3, <3>1
    <3> QED BY <3>2, <3>3, <3>4
  <2>3. k <= mid - lo \/ k > mid - lo
    OBVIOUS
  <2> QED BY <2>1, <2>2, <2>3
<1>7. p \o q = w
  BY <1>4, <1>5, <1>6, SeqEqual
<1> QED BY <1>7 DEF p, q, w

LEMMA CutSame ==
  ASSUME NEW f, NEW g, NEW lo \in Nat, NEW hi \in Nat,
         \A n \in lo .. hi - 1 : g[n] = f[n]
  PROVE  Cut(g, lo, hi) = Cut(f, lo, hi)
<1>1. \A k \in 1 .. hi - lo : lo + k - 1 \in lo .. hi - 1
  OBVIOUS
<1>2. \A k \in 1 .. hi - lo : g[lo + k - 1] = f[lo + k - 1]
  BY <1>1
<1> QED BY <1>2 DEF Cut

\* The reply to frame n: where it was copied to, or what it will be.
ReplyOf(c) == [n \in Nat |-> IF n < Rung(c) THEN sq_data[Slot(n)]
                             ELSE swap_macs(rq_data[Slot(n)])]

\* The replies under way are those to the frames t to r - 1.
InLine == \A r, c, t \in Nat :
             Stands(r, c, t) => Posted \o Pending = Cut(ReplyOf(c), t, r)

LEMMA LineIs == InLine
<1> SUFFICES ASSUME NEW r \in Nat, NEW c \in Nat, NEW t \in Nat, Stands(r, c, t)
             PROVE  Posted \o Pending = Cut(ReplyOf(c), t, r)
  BY DEF InLine
<1> DEFINE m == Rung(c)
<1>1. /\ m \in Nat /\ t <= m /\ m <= r /\ r - m \in 0 .. Width - 1
      /\ m <= Copied(c) /\ Copied(c) \in Nat
  BY Depths DEF Stands, Counted, Rung, Refilled, Copied, Working
<1>2. m - t \in 0 .. Width - 1
  BY <1>1, Depths DEF Stands, Counted
<1>3. /\ received = Counter(r) /\ sq_pi = Counter(m) /\ sent = Counter(t)
      /\ \A n \in t .. Copied(c) - 1 : sq_ring[Slot(n)] = Slot(n)
  BY DEF Stands, Counted, Held
<1> HIDE DEF m
<1>4. Gap(received, sq_pi) = r - m /\ Gap(sq_pi, sent) = m - t
  <2>1. Gap(Counter(r), Counter(m)) = r - m
    BY <1>1, CounterGap
  <2>2. Gap(Counter(m), Counter(t)) = m - t
    BY <1>1, <1>2, CounterGap
  <2> QED BY <1>3, <2>1, <2>2
<1>5. Posted = Cut(ReplyOf(c), t, m)
  <2>1. ASSUME NEW k \in 1 .. m - t
        PROVE  sq_data[sq_ring[(sent + k - 1) % Depth]] = ReplyOf(c)[t + k - 1]
    <3>1. /\ k - 1 \in Int /\ t + k - 1 \in Nat /\ t + k - 1 < m
          /\ t + k - 1 \in t .. Copied(c) - 1
      BY <1>1
    <3>2. (sent + k - 1) % Depth = Slot(t + k - 1)
      BY <1>3, <3>1, CounterKeeps
    <3>3. sq_ring[Slot(t + k - 1)] = Slot(t + k - 1)
      BY <1>3, <3>1
    <3>4. ReplyOf(c)[t + k - 1] = sq_data[Slot(t + k - 1)]
      BY <3>1 DEF ReplyOf, m
    <3> QED BY <3>2, <3>3, <3>4
  <2>2. Posted = [k \in 1 .. m - t |-> sq_data[sq_ring[(sent + k - 1) % Depth]]]
    BY <1>4 DEF Posted
  <2> QED BY <2>1, <2>2 DEF Cut
<1>6. Pending = Cut(ReplyOf(c), m, r)
  <2>1. ASSUME NEW k \in 1 .. r - m
        PROVE  [frame |-> rq_data[(sq_pi + k - 1) % Depth], swapped |-> TRUE]
                  = ReplyOf(c)[m + k - 1]
    <3>1. k - 1 \in Int /\ m + k - 1 \in Nat /\ ~(m + k - 1 < m)
      BY <1>1
    <3>2. (sq_pi + k - 1) % Depth = Slot(m + k - 1)
      BY <1>1, <1>3, <3>1, CounterKeeps
    <3>3. ReplyOf(c)[m + k - 1] = swap_macs(rq_data[Slot(m + k - 1)])
      BY <3>1 DEF ReplyOf, m
    <3> QED BY <3>2, <3>3 DEF swap_macs
  <2>2. Pending = [k \in 1 .. r - m |->
                     [frame |-> rq_data[(sq_pi + k - 1) % Depth], swapped |-> TRUE]]
    BY <1>4 DEF Pending
  <2> QED BY <2>1, <2>2 DEF Cut
<1> QED BY <1>1, <1>5, <1>6, CutsJoin

\* A new frame is last in the line.
LEMMA ReceivePuts ==
  ASSUME Typed, NEW r \in Nat, NEW c \in Nat, NEW t \in Nat, Stands(r, c, t),
         InLine, InLine', NEW f \in Frames, Receive(f)
  PROVE  Line!Put(swap_macs(f))
<1> DEFINE m == Rung(c)
           old == ReplyOf(c)
           new == ReplyOf(c)'
<1>1. /\ Stands(r + 1, c, t)' /\ r + 1 \in Nat /\ r < Refilled(c)
      /\ rq_data' = [rq_data EXCEPT ![Slot(r)] = f]
  BY ReceiveStands
<1>2. /\ m \in Nat /\ t <= m /\ m <= r /\ t <= r /\ r < m + Depth
      /\ r - t < 2 * Depth
  BY <1>1, Depths DEF Stands, Counted, Rung, Refilled, Copied, Working
<1>3. sq_data' = sq_data /\ pc' = pc /\ m' = m
  BY DEF Receive, sq, Rung
<1>4. new[r] = swap_macs(f)
  <2>1. ~(r < m) /\ rq_data'[Slot(r)] = f
    BY <1>1, <1>2, SlotIn DEF Typed
  <2> QED BY <1>3, <2>1 DEF ReplyOf
<1>5. ASSUME NEW n \in t .. r - 1 PROVE new[n] = old[n]
  <2>0. n \in Nat /\ Slot(n) \in Slots
    BY SlotIn
  <2>1. CASE n < m
    BY <1>3, <2>0, <2>1 DEF ReplyOf
  <2>2. CASE ~(n < m)
    <3>1. r - n \in 0 .. Depth - 1 /\ r # n
      BY <1>2, <2>0, <2>2, Depths
    <3>2. Slot(n) # Slot(r)
      BY <2>0, <3>1, SlotsApart
    <3>3. rq_data'[Slot(n)] = rq_data[Slot(n)]
      BY <1>1, <2>0, <3>2 DEF Typed
    <3> QED BY <1>3, <2>0, <2>2, <3>3 DEF ReplyOf
  <2> QED BY <2>1, <2>2
<1>6. /\ Posted \o Pending = Cut(ReplyOf(c), t, r)
      /\ Posted' \o Pending' = Cut(ReplyOf(c)', t, r + 1)
  BY <1>1 DEF InLine
<1> HIDE DEF m, old, new
<1>7. Cut(new, t, r + 1) = Append(Cut(old, t, r), new[r])
  <2>1. Agree(old, new, t, r)
    BY <1>5 DEF Agree
  <2> QED BY <1>2, <2>1, CutAppends
<1>8. Len(Cut(old, t, r)) = r - t
  BY <1>2, CutLength
<1> QED BY <1>2, <1>4, <1>6, <1>7, <1>8 DEF Line!Put, old, new

\* The reply that is sent is the first in the line.
LEMMA TransmitGets ==
  ASSUME Typed, NEW r \in Nat, NEW c \in Nat, NEW t \in Nat, Stands(r, c, t),
         InLine, InLine', Transmit
  PROVE  Line!Get
<1>1. Stands(r, c, t + 1)' /\ t + 1 \in Nat /\ t < Rung(c) /\ Rung(c) <= r
  BY TransmitStands, Depths DEF Stands, Counted, Rung, Working
<1>2. t < r /\ ReplyOf(c)' = ReplyOf(c)
  BY <1>1 DEF Transmit, rq, sq, ReplyOf, Rung
<1>3. /\ Posted \o Pending = Cut(ReplyOf(c), t, r)
      /\ Posted' \o Pending' = Cut(ReplyOf(c), t + 1, r)
  BY <1>1, <1>2 DEF InLine
<1>4. /\ Cut(ReplyOf(c), t, r) # <<>>
      /\ Cut(ReplyOf(c), t + 1, r) = Tail(Cut(ReplyOf(c), t, r))
  BY <1>2, CutLoses
<1> QED BY <1>3, <1>4 DEF Line!Get

\* No other step changes a reply: a frame is copied where no reply waits, and
\* its buffer is given back once the copy is the reply.
LEMMA HandlerKeeps ==
  ASSUME Typed, NEW r \in Nat, NEW c \in Nat, NEW t \in Nat, Stands(r, c, t),
         \/ Handler /\ SenderKeepsUp
         \/ HostRun \/ UNCHANGED vars
  PROVE  \E d \in Nat : /\ Stands(r, d, t)'
                        /\ \A n \in t .. r - 1 : ReplyOf(d)'[n] = ReplyOf(c)[n]
<1>1. ASSUME \/ HostRun \/ UNCHANGED vars \/ Activate \/ Poll \/ Arm \/ Refill
      PROVE  Stands(r, c, t)' /\ ReplyOf(c)' = ReplyOf(c)
  <2>1. Stands(r, c, t)'
    BY <1>1, HostRunStands, ActivateStands, PollStands, ArmStands, RefillStands
  <2>2. rq_data' = rq_data /\ sq_data' = sq_data
    BY <1>1
    DEF HostRun, vars, Activate, Initialised, Poll, Arm, Refill, rq, sq
  <2>3. Rung(c)' = Rung(c)
    BY <1>1 DEF HostRun, vars, Activate, Poll, Arm, Refill, Rung
  <2> QED BY <2>1, <2>2, <2>3 DEF ReplyOf
<1>2. ASSUME Process, SenderKeepsUp
      PROVE  /\ Stands(r, c, t)'
             /\ \A n \in t .. r - 1 : ReplyOf(c)'[n] = ReplyOf(c)[n]
  <2>1. /\ Stands(r, c, t)' /\ c < t + Depth /\ Rung(c) = c /\ Rung(c)' = c
        /\ sq_data' = [sq_data EXCEPT ![Slot(c)] = swap_macs(rq_data[Slot(c)])]
        /\ rq_data' = rq_data
    BY <1>2, ProcessStands DEF Process, rq
  <2>2. ASSUME NEW n \in t .. r - 1 PROVE ReplyOf(c)'[n] = ReplyOf(c)[n]
    <3>0. n \in Nat /\ Slot(n) \in Slots
      BY SlotIn
    <3>1. CASE n < c
      <4>1. c - n \in 0 .. Depth - 1 /\ c # n
        BY <2>1, <3>0, <3>1, Depths
      <4>2. Slot(n) # Slot(c)
        BY <3>0, <4>1, SlotsApart
      <4>3. sq_data'[Slot(n)] = sq_data[Slot(n)]
        BY <2>1, <3>0, <4>2 DEF Typed
      <4> QED BY <2>1, <3>0, <3>1, <4>3 DEF ReplyOf
    <3>2. CASE ~(n < c)
      BY <2>1, <3>0, <3>2 DEF ReplyOf
    <3> QED BY <3>1, <3>2
  <2> QED BY <2>1, <2>2
<1>3. ASSUME Ring
      PROVE  /\ Stands(r, c, t)'
             /\ \A n \in t .. r - 1 : ReplyOf(c)'[n] = ReplyOf(c)[n]
  <2>1. /\ Stands(r, c, t)' /\ Rung(c) = c /\ Rung(c)' = c + 1
        /\ sq_data' = sq_data /\ rq_data' = rq_data
        /\ sq_data[Slot(c)] = swap_macs(rq_data[Slot(c)])
    BY <1>3, RingStands DEF Ring, rq, Rung, Stands, Held
  <2>2. ASSUME NEW n \in t .. r - 1 PROVE ReplyOf(c)'[n] = ReplyOf(c)[n]
    <3>0. n \in Nat
      OBVIOUS
    <3>1. CASE n = c
      <4>1. n < c + 1 /\ ~(n < c)
        BY <3>1
      <4> QED BY <2>1, <3>0, <3>1, <4>1 DEF ReplyOf
    <3>2. CASE n # c
      <4>1. n < c + 1 <=> n < c
        BY <3>0, <3>2
      <4> QED BY <2>1, <3>0, <4>1 DEF ReplyOf
    <3> QED BY <3>1, <3>2
  <2> QED BY <2>1, <2>2
<1>4. ASSUME Step
      PROVE  /\ c + 1 \in Nat /\ Stands(r, c + 1, t)'
             /\ ReplyOf(c + 1)' = ReplyOf(c)
  <2>1. /\ Stands(r, c + 1, t)' /\ Rung(c + 1)' = Rung(c)
        /\ sq_data' = sq_data /\ rq_data' = rq_data
    BY <1>4, StepStands DEF Step, sq
  <2> QED BY <2>1 DEF ReplyOf
<1> QED BY <1>1, <1>2, <1>3, <1>4 DEF Handler

\* Every step is one of the line, or none.
LEMMA StepInLine == IInv /\ InLine /\ InLine' /\ [Next]_vars => [Line!Next]_(Line!vars)
<1> SUFFICES ASSUME Typed, NEW r \in Nat, NEW c \in Nat, NEW t \in Nat,
                    Stands(r, c, t), InLine, InLine', [Next]_vars
             PROVE  [Line!Next]_(Line!vars)
  BY DEF IInv
<1>1. ASSUME NEW f \in Frames, Receive(f) PROVE Line!Next
  <2>1. swap_macs(f) \in Replies
    BY DEF swap_macs, Replies
  <2>2. Line!Put(swap_macs(f))
    BY <1>1, ReceivePuts
  <2> QED BY <2>1, <2>2 DEF Line!Next
<1>2. ASSUME Transmit PROVE Line!Next
  BY <1>2, TransmitGets DEF Line!Next
<1>3. ASSUME \/ Handler /\ SenderKeepsUp
             \/ HostRun \/ UNCHANGED vars
      PROVE  UNCHANGED Line!vars
  <2>1. PICK d \in Nat : /\ Stands(r, d, t)'
                         /\ \A n \in t .. r - 1 : ReplyOf(d)'[n] = ReplyOf(c)[n]
    BY <1>3, HandlerKeeps
  <2>2. /\ Posted \o Pending = Cut(ReplyOf(c), t, r)
        /\ Posted' \o Pending' = Cut(ReplyOf(d)', t, r)
    BY <2>1 DEF InLine
  <2>3. Cut(ReplyOf(d)', t, r) = Cut(ReplyOf(c), t, r)
    BY <2>1, CutSame
  <2> QED BY <2>2, <2>3 DEF Line!vars
<1> QED BY <1>1, <1>2, <1>3 DEF Next, Quiet

LEMMA InitInLine == Init => Line!Init
<1> SUFFICES ASSUME Init PROVE Line!Init
  OBVIOUS
<1>1. Posted \o Pending = Cut(ReplyOf(0), 0, 0)
  BY InitStands, LineIs DEF InLine
<1>2. Cut(ReplyOf(0), 0, 0) = <<>>
  BY DEF Cut
<1> QED BY <1>1, <1>2 DEF Line!Init

\* NIC and handler are a first-in first-out line of replies: each frame is
\* answered once, in the order of arrival, with its own bytes and swapped
\* addresses (flexio_pp_dev, process_packet).
THEOREM RepliesInOrder == Spec => AnswersInOrder
<1>1. Spec => []InLine
  BY LineIs, PTL
<1> QED
  BY <1>1, InitInLine, StepInLine, IInvHolds, PTL DEF Spec, AnswersInOrder, Line!Spec

-----------------------------------------------------------------------------
(* The forest of the flows *)

\* One comparison, and the votes from each node with so many left.
NextNode(tree, feat, i) ==
  IF feat[tree[i + 1].feature] < tree[i + 1].value THEN tree[i + 1].left ELSE tree[i + 1].right

Nodes == 0 .. NodesPerTree - 1

VoteFrom(w, tree, feat, left, i) ==
  IF left = 0 THEN 0
  ELSE IF tree[i + 1].feature = "LEAF" THEN tree[i + 1].value
  ELSE w[left - 1][NextNode(tree, feat, i)]

VotesFrom(w, tree, feat, left) == [i \in Nodes |-> VoteFrom(w, tree, feat, left, i)]

IsWalk(w, tree, feat, n) == w = [left \in 0 .. n |-> VotesFrom(w, tree, feat, left)]

Walk(tree, feat) == CHOOSE w : IsWalk(w, tree, feat, NodesPerTree)

LEMMA InferIs ==
  ASSUME NEW tree, NEW feat
  PROVE  TreeInfer(tree, feat) = Walk(tree, feat)[NodesPerTree][0]
BY DEF TreeInfer, Walk, IsWalk, VotesFrom, VoteFrom, NextNode, Nodes

LEMMA WalkIs ==
  ASSUME NEW tree, NEW feat
  PROVE  IsWalk(Walk(tree, feat), tree, feat, NodesPerTree)
<1> DEFINE T == {n \in Nat : \E w : IsWalk(w, tree, feat, n)}
<1>1. 0 \in T
  <2> DEFINE w == [left \in 0 .. 0 |-> [i \in Nodes |-> 0]]
  <2>1. \A left \in 0 .. 0 : VotesFrom(w, tree, feat, left) = [i \in Nodes |-> 0]
    BY DEF VotesFrom, VoteFrom
  <2>2. w = [left \in 0 .. 0 |-> VotesFrom(w, tree, feat, left)]
    BY <2>1
  <2> QED BY <2>2 DEF IsWalk
<1>2. ASSUME NEW n \in T PROVE n + 1 \in T
  <2>1. n \in Nat
    OBVIOUS
  <2>2. PICK u : IsWalk(u, tree, feat, n)
    OBVIOUS
  <2> DEFINE w == [left \in 0 .. n + 1 |-> VotesFrom(u, tree, feat, left)]
             a(left) == VotesFrom(u, tree, feat, left)
             b(left) == VotesFrom(w, tree, feat, left)
  <2>3. \A left \in 0 .. n : u[left] = VotesFrom(u, tree, feat, left)
    BY <2>2 DEF IsWalk
  <2>4. \A left \in 0 .. n : w[left] = u[left]
    BY <2>1, <2>3
  <2>5. w = [left \in 0 .. n + 1 |-> a(left)]
    OBVIOUS
  <2> HIDE DEF w
  <2>6. ASSUME NEW left \in 0 .. n + 1 PROVE a(left) = b(left)
    <3>1. left # 0 => w[left - 1] = u[left - 1]
      BY <2>1, <2>4
    <3>2. \A i : VoteFrom(u, tree, feat, left, i) = VoteFrom(w, tree, feat, left, i)
      BY <3>1 DEF VoteFrom
    <3> QED BY <3>2 DEF VotesFrom
  <2> HIDE DEF a, b
  <2>7. w = [left \in 0 .. n + 1 |-> b(left)]
    BY <2>5, <2>6
  <2>8. IsWalk(w, tree, feat, n + 1)
    BY <2>7 DEF IsWalk, b
  <2> QED BY <2>1, <2>8
<1>3. NodesPerTree \in T
  <2>1. T \in SUBSET Nat /\ NodesPerTree \in Nat
    BY DEF NodesPerTree
  <2> HIDE DEF T
  <2> QED BY <1>1, <1>2, <2>1, Inductive
<1> QED BY <1>3 DEF Walk

\* What a node votes: a leaf its value, another what the next node votes.
LEMMA NodeVotes ==
  ASSUME NEW tree, NEW feat, NEW left \in 1 .. NodesPerTree, NEW i \in Nodes
  PROVE  Walk(tree, feat)[left][i] =
           IF tree[i + 1].feature = "LEAF" THEN tree[i + 1].value
           ELSE Walk(tree, feat)[left - 1][NextNode(tree, feat, i)]
<1> DEFINE w == Walk(tree, feat)
<1>1. IsWalk(w, tree, feat, NodesPerTree)
  BY WalkIs
<1> HIDE DEF w
<1>2. left \in 0 .. NodesPerTree /\ left # 0
  BY DEF NodesPerTree
<1>3. w[left] = VotesFrom(w, tree, feat, left)
  BY <1>1, <1>2 DEF IsWalk
<1>4. w[left][i] = VoteFrom(w, tree, feat, left, i)
  BY <1>3 DEF VotesFrom
<1> QED BY <1>2, <1>4 DEF VoteFrom, w

LEMMA OneComparison ==
  ASSUME NEW tree, NEW feat, NEW j \in Nodes,
         tree[1].feature # "LEAF", NextNode(tree, feat, 0) = j, tree[j + 1].feature = "LEAF"
  PROVE  TreeInfer(tree, feat) = tree[j + 1].value
<1> DEFINE w == Walk(tree, feat)
<1>1. /\ NodesPerTree \in 1 .. NodesPerTree /\ NodesPerTree - 1 \in 1 .. NodesPerTree
      /\ 0 \in Nodes /\ 0 + 1 = 1
  BY DEF NodesPerTree, Nodes
<1>2. w[NodesPerTree][0] = w[NodesPerTree - 1][j]
  BY <1>1, NodeVotes
<1>3. w[NodesPerTree - 1][j] = tree[j + 1].value
  BY <1>1, NodeVotes
<1> QED BY <1>2, <1>3, InferIs

LEMMA TwoComparisons ==
  ASSUME NEW tree, NEW feat, NEW j \in Nodes, NEW k \in Nodes,
         tree[1].feature # "LEAF", NextNode(tree, feat, 0) = j,
         tree[j + 1].feature # "LEAF", NextNode(tree, feat, j) = k,
         tree[k + 1].feature = "LEAF"
  PROVE  TreeInfer(tree, feat) = tree[k + 1].value
<1> DEFINE w == Walk(tree, feat)
<1>1. /\ NodesPerTree \in 1 .. NodesPerTree /\ NodesPerTree - 1 \in 1 .. NodesPerTree
      /\ NodesPerTree - 2 \in 1 .. NodesPerTree /\ NodesPerTree - 1 - 1 = NodesPerTree - 2
      /\ 0 \in Nodes /\ 0 + 1 = 1
  BY DEF NodesPerTree, Nodes
<1>2. w[NodesPerTree][0] = w[NodesPerTree - 1][j]
  BY <1>1, NodeVotes
<1>3. w[NodesPerTree - 1][j] = w[NodesPerTree - 2][k]
  <2>1. w[NodesPerTree - 1][j] = w[NodesPerTree - 1 - 1][k]
    BY <1>1, NodeVotes
  <2> QED BY <1>1, <2>1
<1>4. w[NodesPerTree - 2][k] = tree[k + 1].value
  BY <1>1, NodeVotes
<1> QED BY <1>2, <1>3, <1>4, InferIs

\* A tree of two inner nodes, and one of one.
IsDeep(tree, f, s, g, t, a, b, c) ==
  /\ f # "LEAF" /\ tree[1] = Node(f, 1, 2, s)
  /\ g # "LEAF" /\ tree[2] = Node(g, 3, 4, t)
  /\ tree[3] = Leaf(c) /\ tree[4] = Leaf(a) /\ tree[5] = Leaf(b)

DeepVote(feat, f, s, g, t, a, b, c) ==
  IF feat[f] < s THEN IF feat[g] < t THEN a ELSE b ELSE c

IsFlat(tree, f, s, a, b) ==
  f # "LEAF" /\ tree[1] = Node(f, 1, 2, s) /\ tree[2] = Leaf(a) /\ tree[3] = Leaf(b)

LEMMA DeepTree ==
  ASSUME NEW tree, NEW feat, NEW f, NEW s, NEW g, NEW t, NEW a, NEW b, NEW c,
         IsDeep(tree, f, s, g, t, a, b, c)
  PROVE  TreeInfer(tree, feat) = DeepVote(feat, f, s, g, t, a, b, c)
<1>1. NextNode(tree, feat, 0) = IF feat[f] < s THEN 1 ELSE 2
  BY DEF NextNode, Node, IsDeep
<1>2. NextNode(tree, feat, 1) = IF feat[g] < t THEN 3 ELSE 4
  BY DEF NextNode, Node, IsDeep
<1>3. /\ tree[1].feature # "LEAF" /\ tree[1 + 1].feature # "LEAF"
      /\ tree[2 + 1].feature = "LEAF" /\ tree[2 + 1].value = c
      /\ tree[3 + 1].feature = "LEAF" /\ tree[3 + 1].value = a
      /\ tree[4 + 1].feature = "LEAF" /\ tree[4 + 1].value = b
  BY DEF Node, Leaf, IsDeep
<1>4. 1 \in Nodes /\ 2 \in Nodes /\ 3 \in Nodes /\ 4 \in Nodes
  BY DEF Nodes, NodesPerTree
<1>5. CASE ~(feat[f] < s)
  BY <1>1, <1>3, <1>4, <1>5, OneComparison DEF DeepVote
<1>6. CASE feat[f] < s /\ feat[g] < t
  BY <1>1, <1>2, <1>3, <1>4, <1>6, TwoComparisons DEF DeepVote
<1>7. CASE feat[f] < s /\ ~(feat[g] < t)
  BY <1>1, <1>2, <1>3, <1>4, <1>7, TwoComparisons DEF DeepVote
<1> QED BY <1>5, <1>6, <1>7

LEMMA FlatTree ==
  ASSUME NEW tree, NEW feat, NEW f, NEW s, NEW a, NEW b, IsFlat(tree, f, s, a, b)
  PROVE  TreeInfer(tree, feat) = IF feat[f] < s THEN a ELSE b
<1>1. NextNode(tree, feat, 0) = IF feat[f] < s THEN 1 ELSE 2
  BY DEF NextNode, Node, IsFlat
<1>2. /\ tree[1].feature # "LEAF"
      /\ tree[1 + 1].feature = "LEAF" /\ tree[1 + 1].value = a
      /\ tree[2 + 1].feature = "LEAF" /\ tree[2 + 1].value = b
  BY DEF Node, Leaf, IsFlat
<1>3. 1 \in Nodes /\ 2 \in Nodes
  BY DEF Nodes, NodesPerTree
<1>4. CASE feat[f] < s
  BY <1>1, <1>2, <1>3, <1>4, OneComparison
<1>5. CASE ~(feat[f] < s)
  BY <1>1, <1>2, <1>3, <1>5, OneComparison
<1> QED BY <1>4, <1>5

\* What each tree votes.
LEMMA FirstTree ==
  ASSUME NEW feat
  PROVE  TreeInfer(flow_ml_forest[1], feat) =
           IF feat.PKT_COUNT < 1 THEN IF feat.PKT_SIZE < 1200 THEN 6554 ELSE 60000
           ELSE 3277
<1> DEFINE tree == flow_ml_forest[1]
<1>1. IsDeep(tree, "PKT_COUNT", 1, "PKT_SIZE", 1200, 6554, 60000, 3277)
  BY DEF flow_ml_forest, IsDeep
<1> HIDE DEF tree
<1>2. TreeInfer(tree, feat) =
        DeepVote(feat, "PKT_COUNT", 1, "PKT_SIZE", 1200, 6554, 60000, 3277)
  BY <1>1, DeepTree
<1> QED BY <1>2 DEF tree, DeepVote

LEMMA SecondTree ==
  ASSUME NEW feat
  PROVE  TreeInfer(flow_ml_forest[2], feat) =
           IF feat.SIZE_DELTA < 800 THEN IF feat.EWMA_SIZE < Fxp(200) THEN 13107 ELSE 39321
           ELSE 6554
<1> DEFINE tree == flow_ml_forest[2]
<1>1. IsDeep(tree, "SIZE_DELTA", 800, "EWMA_SIZE", Fxp(200), 13107, 39321, 6554)
  BY DEF flow_ml_forest, IsDeep
<1> HIDE DEF tree
<1>2. TreeInfer(tree, feat) =
        DeepVote(feat, "SIZE_DELTA", 800, "EWMA_SIZE", Fxp(200), 13107, 39321, 6554)
  BY <1>1, DeepTree
<1> QED BY <1>2 DEF tree, DeepVote

LEMMA ThirdTree ==
  ASSUME NEW feat
  PROVE  TreeInfer(flow_ml_forest[3], feat) = IF feat.PKT_SIZE < 1500 THEN 9830 ELSE 32768
<1>1. IsFlat(flow_ml_forest[3], "PKT_SIZE", 1500, 9830, 32768)
  BY DEF flow_ml_forest, IsFlat
<1> QED BY <1>1, FlatTree

LEMMA FourthTree ==
  ASSUME NEW feat
  PROVE  TreeInfer(flow_ml_forest[4], feat) =
           IF feat.PKT_COUNT < 3 THEN IF feat.SIZE_DELTA < 400 THEN 6554 ELSE 26214
           ELSE 13107
<1> DEFINE tree == flow_ml_forest[4]
<1>1. IsDeep(tree, "PKT_COUNT", 3, "SIZE_DELTA", 400, 6554, 26214, 13107)
  BY DEF flow_ml_forest, IsDeep
<1> HIDE DEF tree
<1>2. TreeInfer(tree, feat) =
        DeepVote(feat, "PKT_COUNT", 3, "SIZE_DELTA", 400, 6554, 26214, 13107)
  BY <1>1, DeepTree
<1> QED BY <1>2 DEF tree, DeepVote

\* An entry as a frame of this size finds it: restarted, or with a history.
Found(entry, size) ==
  /\ entry.pkt_count \in Nat /\ entry.last_size \in Int /\ entry.ewma_size \in Int
  /\ entry.pkt_count = 0 => entry.last_size = size /\ entry.ewma_size = Fxp(size)

\* The forest flags a first frame of 1500 bytes and more, and no other.
LEMMA Verdict ==
  ASSUME NEW size \in Nat, NEW entry, Found(entry, size)
  PROVE  Anomalous(Features(entry, size)) <=> size >= 1500 /\ entry.pkt_count = 0
<1> DEFINE feat == Features(entry, size)
           v1 == TreeInfer(flow_ml_forest[1], feat)
           v2 == TreeInfer(flow_ml_forest[2], feat)
           v3 == TreeInfer(flow_ml_forest[3], feat)
           v4 == TreeInfer(flow_ml_forest[4], feat)
<1>1. /\ feat.PKT_SIZE = size
      /\ feat.PKT_COUNT = IF entry.pkt_count > 255 THEN 255 ELSE entry.pkt_count
      /\ feat.EWMA_SIZE = entry.ewma_size /\ feat.SIZE_DELTA = Abs(size - entry.last_size)
  BY DEF Features
<1> HIDE DEF feat
<1>2. feat.PKT_COUNT < 1 <=> entry.pkt_count = 0
  BY <1>1 DEF Found
<1>3. v1 = IF feat.PKT_COUNT < 1 THEN IF size < 1200 THEN 6554 ELSE 60000 ELSE 3277
  BY <1>1, FirstTree
<1>4. v2 \in {13107, 39321, 6554}
  BY SecondTree
<1>5. v3 = IF size < 1500 THEN 9830 ELSE 32768
  BY <1>1, ThirdTree
<1>6. v4 \in {6554, 26214, 13107}
  BY FourthTree
<1>7. Anomalous(feat) <=> (v1 + v2 + v3 + v4) \div 4 > 32768
  BY DEF Anomalous, ForestInfer
<1>8. CASE entry.pkt_count # 0
  <2>1. v1 = 3277
    BY <1>2, <1>3, <1>8
  <2> HIDE DEF v1, v2, v3, v4
  <2> QED BY <1>4, <1>5, <1>6, <1>7, <1>8, <2>1 DEF feat
<1>9. CASE entry.pkt_count = 0
  <2>1. feat.SIZE_DELTA = 0 /\ feat.EWMA_SIZE = Fxp(size)
    BY <1>1, <1>9 DEF Found, Abs
  <2>2. v4 = 6554
    BY <1>1, <1>9, <2>1, FourthTree
  <2>3. v2 = IF Fxp(size) < Fxp(200) THEN 13107 ELSE 39321
    BY <2>1, SecondTree
  <2>4. Fxp(size) < Fxp(200) <=> size < 200
    BY DEF Fxp
  <2> HIDE DEF v1, v2, v3, v4
  <2>5. CASE size < 1500
    <3>1. v1 \in {6554, 60000}
      BY <1>2, <1>3, <1>9
    <3> QED BY <1>5, <1>7, <2>2, <2>3, <2>5, <3>1 DEF feat
  <2>6. CASE ~(size < 1500)
    <3>1. v1 = 60000 /\ v2 = 39321 /\ v3 = 32768 /\ v4 = 6554
      BY <1>2, <1>3, <1>5, <1>9, <2>2, <2>3, <2>4, <2>6
    <3> QED BY <1>7, <1>9, <2>6, <3>1 DEF feat
  <2> QED BY <2>5, <2>6
<1> QED BY <1>8, <1>9

-----------------------------------------------------------------------------
(* The average *)

EwmaStep(g, fs, s) == (Fxp(fs[Max(s)].size) + 3 * g[s \ {Max(s)}]) \div 4
EwmaValue(g, fs, b, s) == IF s = {} THEN b ELSE EwmaStep(g, fs, s)
IsEwma(g, fs, b, S) == g = [s \in SUBSET S |-> EwmaValue(g, fs, b, s)]

LEMMA EwmaIs ==
  ASSUME NEW fs, NEW ns
  PROVE  Ewma(fs, ns) = (CHOOSE g : IsEwma(g, fs, Fxp(fs[Min(ns)].size), ns))[ns]
BY DEF Ewma, MapThenFoldSet, IsEwma, EwmaValue, EwmaStep

EwmaUpto(g, fs, b, S, n) == g = [s \in Upto(S, n) |-> EwmaValue(g, fs, b, s)]

LEMMA EwmaExists ==
  ASSUME NEW m \in Nat, NEW S \in SUBSET (1 .. m), NEW fs, NEW b
  PROVE  \E g : IsEwma(g, fs, b, S)
<1> DEFINE T == {n \in Nat : \E g : EwmaUpto(g, fs, b, S, n)}
<1>0. IsFiniteSet(S)
  BY LastPlace
<1>1. 0 \in T
  <2> DEFINE g == [s \in Upto(S, 0) |-> b]
  <2>1. \A s \in Upto(S, 0) : EwmaValue(g, fs, b, s) = b
    BY <1>0, UptoMore DEF EwmaValue
  <2>2. g = [s \in Upto(S, 0) |-> EwmaValue(g, fs, b, s)]
    BY <2>1
  <2> HIDE DEF g
  <2>3. EwmaUpto(g, fs, b, S, 0)
    BY <2>2 DEF EwmaUpto
  <2> QED BY <2>3
<1>2. ASSUME NEW n \in T PROVE n + 1 \in T
  <2>1. PICK g : EwmaUpto(g, fs, b, S, n)
    BY <1>2
  <2>2. g = [s \in Upto(S, n) |-> EwmaValue(g, fs, b, s)]
    BY <2>1 DEF EwmaUpto
  <2> DEFINE h == [s \in Upto(S, n + 1) |-> EwmaValue(g, fs, b, s)]
  <2>3. /\ Upto(S, n) \subseteq Upto(S, n + 1)
        /\ \A s \in Upto(S, n + 1) : s # {} => s \ {Max(s)} \in Upto(S, n)
    BY <1>0, UptoMore, WithoutLast
  <2>4. \A s \in Upto(S, n) : h[s] = g[s]
    BY <2>2, <2>3
  <2> DEFINE p(s) == EwmaValue(g, fs, b, s)
             q(s) == EwmaValue(h, fs, b, s)
  <2>5. \A s \in Upto(S, n + 1) : p(s) = q(s)
    <3> HIDE DEF h
    <3> QED BY <2>3, <2>4 DEF EwmaValue, EwmaStep
  <2>6. h = [s \in Upto(S, n + 1) |-> p(s)]
    OBVIOUS
  <2> HIDE DEF p, q
  <2>7. h = [s \in Upto(S, n + 1) |-> q(s)]
    <3> HIDE DEF h
    <3> QED BY <2>5, <2>6
  <2> HIDE DEF h
  <2>8. EwmaUpto(h, fs, b, S, n + 1)
    BY <2>7 DEF EwmaUpto, q
  <2> QED BY <2>8
<1>3. T = Nat
  <2>1. T \subseteq Nat
    OBVIOUS
  <2> HIDE DEF T
  <2> QED BY <1>1, <1>2, <2>1, Inductive
<1>4. Cardinality(S) \in Nat
  BY <1>0, FS_CardinalityType
<1>5. PICK g : EwmaUpto(g, fs, b, S, Cardinality(S))
  BY <1>3, <1>4
<1>6. Upto(S, Cardinality(S)) = SUBSET S
  BY <1>0, <1>4, UptoMore
<1> QED BY <1>5, <1>6 DEF IsEwma, EwmaUpto

Places(S) == \E m \in Nat : S \in SUBSET (1 .. m)

\* The same frames in these places.
Alike(gs, fs, S) == \A n \in S : gs[n] = fs[n]

\* It depends on the frames that are averaged only.
LEMMA EwmaAgrees ==
  ASSUME NEW S, Places(S), NEW P, S \in SUBSET P,
         NEW fs, NEW gs, Alike(gs, fs, S), NEW b,
         NEW g, IsEwma(g, gs, b, P), NEW h, IsEwma(h, fs, b, S)
  PROVE  g[S] = h[S]
<1> DEFINE N == {n \in Nat : \A s \in Upto(S, n) : g[s] = h[s]}
<1>0. PICK m \in Nat : S \in SUBSET (1 .. m)
  BY DEF Places
<1>1. IsFiniteSet(S)
  BY <1>0, LastPlace
<1>2. \A s \in SUBSET S : /\ g[s] = EwmaValue(g, gs, b, s)
                          /\ h[s] = EwmaValue(h, fs, b, s)
  BY DEF IsEwma
<1>3. 0 \in N
  <2>1. \A s \in Upto(S, 0) : s = {} /\ s \in SUBSET S
    BY <1>1, UptoMore DEF Upto
  <2> QED BY <1>2, <2>1 DEF EwmaValue
<1>4. ASSUME NEW n \in N PROVE n + 1 \in N
  <2>1. ASSUME NEW s \in Upto(S, n + 1) PROVE g[s] = h[s]
    <3>1. s \in SUBSET S /\ n \in Nat
      BY DEF Upto
    <3>2. CASE s = {}
      BY <1>2, <3>1, <3>2 DEF EwmaValue
    <3>3. CASE s # {}
      <4>1. s \ {Max(s)} \in Upto(S, n) /\ Max(s) \in s
        BY <1>0, <3>1, <3>3, WithoutLast
      <4>2. g[s \ {Max(s)}] = h[s \ {Max(s)}] /\ gs[Max(s)] = fs[Max(s)]
        BY <3>1, <4>1 DEF Alike
      <4> QED BY <1>2, <3>1, <3>3, <4>2 DEF EwmaValue, EwmaStep
    <3> QED BY <3>2, <3>3
  <2>2. n + 1 \in Nat
    OBVIOUS
  <2> QED BY <2>1, <2>2
<1>5. Cardinality(S) \in N /\ S \in Upto(S, Cardinality(S))
  <2>1. N \subseteq Nat
    OBVIOUS
  <2> HIDE DEF N
  <2> QED BY <1>0, <1>1, <1>3, <1>4, <2>1, EverySize
<1> QED BY <1>5

\* The first and the last of some places.
LEMMA EndsOf ==
  ASSUME NEW m \in Nat, NEW S \in SUBSET (1 .. m), S # {}
  PROVE  /\ Min(S) \in S /\ \A n \in S : Min(S) <= n
         /\ Max(S) \in S /\ \A n \in S : n <= Max(S)
<1>1. /\ S \in SUBSET Int /\ 1 \in Int /\ m \in Int
      /\ \A n \in S : 1 <= n /\ n <= m
  OBVIOUS
<1> QED BY <1>1, MinIs, MaxIs

LEMMA EwmaSame ==
  ASSUME NEW S, Places(S), S # {}, NEW fs, NEW gs, Alike(gs, fs, S)
  PROVE  Ewma(gs, S) = Ewma(fs, S)
<1> DEFINE b == Fxp(fs[Min(S)].size)
           g == CHOOSE u : IsEwma(u, gs, b, S)
           h == CHOOSE u : IsEwma(u, fs, b, S)
<1>1. gs[Min(S)] = fs[Min(S)]
  BY EndsOf DEF Places, Alike
<1>2. Ewma(gs, S) = g[S] /\ Ewma(fs, S) = h[S]
  BY <1>1, EwmaIs
<1> HIDE DEF b
<1>3. IsEwma(g, gs, b, S) /\ IsEwma(h, fs, b, S)
  BY EwmaExists DEF Places
<1> HIDE DEF g, h
<1>4. g[S] = h[S]
  <2>1. S \in SUBSET S
    OBVIOUS
  <2> QED BY <1>3, <2>1, EwmaAgrees
<1> QED BY <1>2, <1>4

\* The average of one frame, and with one more, the last.
LEMMA EwmaFirst ==
  ASSUME NEW x \in Nat \ {0}, NEW fs, fs[x].size \in Nat
  PROVE  Ewma(fs, {x}) = Fxp(fs[x].size)
<1> DEFINE S == {x}
           b == Fxp(fs[x].size)
           g == CHOOSE u : IsEwma(u, fs, b, S)
<1>1. S \in SUBSET (1 .. x) /\ S # {}
  OBVIOUS
<1>2. Min(S) = x /\ Max(S) = x
  BY <1>1, EndsOf
<1>3. Ewma(fs, S) = g[S]
  BY <1>2, EwmaIs
<1>4. b \in Nat /\ (b + 3 * b) \div 4 = b
  BY DEF Fxp
<1> HIDE DEF S, b
<1>5. IsEwma(g, fs, b, S)
  BY <1>1, EwmaExists
<1> HIDE DEF g
<1>6. g[S] = EwmaValue(g, fs, b, S) /\ g[{}] = EwmaValue(g, fs, b, {})
  BY <1>5 DEF IsEwma
<1>7. g[{}] = b /\ S \ {Max(S)} = {}
  BY <1>2, <1>6 DEF EwmaValue, S
<1>8. g[S] = (b + 3 * b) \div 4
  BY <1>1, <1>2, <1>6, <1>7 DEF EwmaValue, EwmaStep, b
<1> QED BY <1>3, <1>4, <1>8 DEF S, b

\* Places, and one after them.
Precede(S, x) == \E m \in Nat : S \in SUBSET (1 .. m) /\ x \in Nat /\ m < x

LEMMA EwmaAdds ==
  ASSUME NEW S, NEW x, Precede(S, x), S # {}, NEW fs, NEW gs, Alike(gs, fs, S)
  PROVE  Ewma(gs, S \cup {x}) = (Fxp(gs[x].size) + 3 * Ewma(fs, S)) \div 4
<1> DEFINE R == S \cup {x}
           b == Fxp(fs[Min(S)].size)
           g == CHOOSE u : IsEwma(u, gs, b, R)
           h == CHOOSE u : IsEwma(u, fs, b, S)
<1>0. PICK m \in Nat : S \in SUBSET (1 .. m) /\ x \in Nat /\ m < x
  BY DEF Precede
<1>1. R \in SUBSET (1 .. x) /\ R # {} /\ R \ {x} = S /\ S \in SUBSET R
  BY <1>0
<1>2. /\ Min(S) \in S /\ \A n \in S : Min(S) <= n
      /\ Min(R) \in R /\ \A n \in R : Min(R) <= n
      /\ Max(R) \in R /\ \A n \in R : n <= Max(R)
  BY <1>0, <1>1, EndsOf
<1>3. Min(R) = Min(S) /\ Max(R) = x
  <2> DEFINE a == Min(R)
             c == Min(S)
             d == Max(R)
  <2>1. /\ a \in R /\ c \in R /\ d \in R /\ x \in R
        /\ c \in S /\ \A n \in R : n \in Int /\ a <= n /\ n <= d
        /\ \A n \in S : n < x /\ c <= n
        /\ \A n \in R : n \in S \/ n = x
    BY <1>0, <1>1, <1>2
  <2> HIDE DEF a, c, d, R
  <2>2. a <= c /\ x <= d /\ c < x
    BY <2>1
  <2>3. a \in Int /\ c \in Int /\ d \in Int /\ x \in Int
    BY <2>1
  <2>4. a \in S /\ d = x
    BY <2>1, <2>2, <2>3
  <2>5. a = c
    BY <2>1, <2>2, <2>3, <2>4
  <2> QED BY <2>4, <2>5 DEF a, c, d
<1>4. Ewma(gs, R) = g[R] /\ Ewma(fs, S) = h[S]
  <2>1. Fxp(gs[Min(R)].size) = b
    BY <1>2, <1>3 DEF Alike
  <2> QED BY <2>1, EwmaIs
<1> HIDE DEF R, b
<1>5. IsEwma(g, gs, b, R) /\ IsEwma(h, fs, b, S)
  BY <1>0, <1>1, EwmaExists
<1> HIDE DEF g, h
<1>6. g[S] = h[S]
  <2>1. Places(S)
    BY <1>0 DEF Places
  <2> QED BY <1>1, <1>5, <2>1, EwmaAgrees
<1>7. g[R] = EwmaValue(g, gs, b, R)
  BY <1>5 DEF IsEwma
<1>8. g[R] = (Fxp(gs[x].size) + 3 * g[S]) \div 4
  BY <1>0, <1>1, <1>3, <1>7 DEF EwmaValue, EwmaStep
<1> QED BY <1>4, <1>6, <1>8 DEF R

-----------------------------------------------------------------------------
(* The flows *)

LEMMA FrameIs ==
  ASSUME NEW f \in Frames
  PROVE  /\ f.src \in Nat /\ f.dst \in Nat /\ f.proto \in Nat
         /\ f.size \in Nat /\ Fxp(f.size) <= Fxp(MaxSize)
<1>1. f \in [src : Nat, dst : Nat, proto : Nat, ihl : 0 .. 60, size : 0 .. MaxSize]
  BY FlowAssumption
<1>2. f.size \in 0 .. MaxSize /\ MaxSize \in Nat
  BY <1>1 DEF MaxSize
<1>3. Fxp(f.size) <= Fxp(MaxSize)
  BY <1>2 DEF Fxp
<1> QED BY <1>1, <1>2, <1>3

\* Both directions have one canonical form, and nothing else has it.
LEMMA OneForm ==
  ASSUME NEW f \in Frames, NEW g \in Frames
  PROVE  /\ SameFlow(f, g) <=> Canonical(f) = Canonical(g)
         /\ Place(f) = FlowIndex(Canonical(f))
         /\ Canonical(f) # <<>>
<1>1. /\ f.src \in Nat /\ f.dst \in Nat /\ g.src \in Nat /\ g.dst \in Nat
  BY FrameIs
<1>2. Place(f) = FlowIndex(Canonical(f))
  <2>1. CASE f.src > f.dst
    BY <1>1, <2>1 DEF Place, Canonical
  <2>2. CASE ~(f.src > f.dst)
    BY <1>1, <2>2 DEF Place, Canonical
  <2> QED BY <2>1, <2>2
<1>3. Canonical(f) # <<>>
  BY DEF Canonical
<1>4. SameFlow(f, g) <=> Canonical(f) = Canonical(g)
  <2>1. {f.src, f.dst} = {g.src, g.dst} <=>
          \/ f.src = g.src /\ f.dst = g.dst
          \/ f.src = g.dst /\ f.dst = g.src
    OBVIOUS
  <2> QED BY <1>1, <2>1 DEF SameFlow, Canonical
<1> QED BY <1>2, <1>3, <1>4

LEMMA AtGrows ==
  ASSUME NEW fs \in Seq(Frames), NEW f \in Frames, NEW i
  PROVE  At(Append(fs, f), i) = IF Parses(f) /\ Place(f) = i THEN At(fs, i) \cup {Len(fs) + 1}
                                ELSE At(fs, i)
<1> DEFINE gs == Append(fs, f)
<1>1. Len(fs) \in Nat /\ DOMAIN fs = 1 .. Len(fs)
  OBVIOUS
<1>2. DOMAIN gs = (DOMAIN fs) \cup {Len(fs) + 1}
  <2>1. Len(gs) = Len(fs) + 1 /\ gs \in Seq(Frames)
    OBVIOUS
  <2>2. DOMAIN gs = 1 .. Len(gs)
    BY <2>1
  <2> QED BY <1>1, <2>1, <2>2
<1>3. gs[Len(fs) + 1] = f /\ \A n \in DOMAIN fs : gs[n] = fs[n]
  BY <1>1
<1>4. Len(fs) + 1 \notin DOMAIN fs
  BY <1>1
<1> HIDE DEF gs
<1>5. At(gs, i) = IF Parses(f) /\ Place(f) = i THEN At(fs, i) \cup {Len(fs) + 1}
                  ELSE At(fs, i)
  BY <1>2, <1>3, <1>4 DEF At
<1> QED BY <1>5 DEF gs

-----------------------------------------------------------------------------
(* The last frames of one flow *)

LEMMA EpisodeIn ==
  ASSUME NEW m \in Nat, NEW S \in SUBSET (1 .. m), S # {}, NEW fs
  PROVE  LastEpisode(fs, S) \in SUBSET S /\ Max(S) \in LastEpisode(fs, S)
<1>1. Max(S) \in S /\ \A n \in S : n <= Max(S)
  BY EndsOf
<1>2. \A n \in S : n \in Int
  OBVIOUS
<1>3. \A n \in S : n >= Max(S) => n = Max(S)
  <2> DEFINE d == Max(S)
  <2>1. d \in Int /\ \A n \in S : n \in Int /\ n <= d
    BY <1>1, <1>2
  <2> HIDE DEF d
  <2>2. \A n \in S : n >= d => n = d
    BY <2>1
  <2> QED BY <2>2 DEF d
<1>4. SameFlow(fs[Max(S)], fs[Max(S)])
  BY DEF SameFlow
<1> QED BY <1>1, <1>3, <1>4 DEF LastEpisode

LEMMA EpisodeSame ==
  ASSUME NEW m \in Nat, NEW S \in SUBSET (1 .. m), S # {}, NEW fs, NEW gs, Alike(gs, fs, S)
  PROVE  LastEpisode(gs, S) = LastEpisode(fs, S)
<1>1. Max(S) \in S
  BY EndsOf
<1> QED BY <1>1 DEF LastEpisode, Alike

LEMMA NewLast ==
  ASSUME NEW S, NEW x, Precede(S, x)
  PROVE  Max(S \cup {x}) = x /\ \A n \in S : n \in Nat /\ n < x
<1>1. PICK m \in Nat : S \in SUBSET (1 .. m) /\ x \in Nat /\ m < x
  BY DEF Precede
<1> DEFINE R == S \cup {x}
           d == Max(R)
<1>2. R \in SUBSET (1 .. x) /\ R # {}
  BY <1>1
<1>3. d \in R /\ \A n \in R : n <= d
  BY <1>1, <1>2, EndsOf
<1>4. \A n \in S : n \in Nat /\ n < x
  BY <1>1
<1> HIDE DEF d
<1>5. d = x
  BY <1>1, <1>3, <1>4
<1> QED BY <1>4, <1>5 DEF d

\* A frame of the flow of the last one belongs with it.
LEMMA EpisodeGrows ==
  ASSUME NEW S, NEW x, Precede(S, x), S # {}, NEW fs, NEW gs, Alike(gs, fs, S),
         SameFlow(fs[Max(S)], gs[x])
  PROVE  LastEpisode(gs, S \cup {x}) = LastEpisode(fs, S) \cup {x}
<1> DEFINE R == S \cup {x}
           last == Max(S)
<1>1. PICK m \in Nat : S \in SUBSET (1 .. m) /\ x \in Nat /\ m < x
  BY DEF Precede
<1>2. Max(R) = x /\ \A n \in S : n \in Nat /\ n < x
  BY NewLast
<1>3. \A n \in S : gs[n] = fs[n] /\ (SameFlow(gs[n], gs[x]) <=> SameFlow(fs[n], fs[last]))
  BY DEF Alike, SameFlow
<1>4. SameFlow(gs[x], gs[x])
  BY DEF SameFlow
<1> HIDE DEF last
<1>5. ASSUME NEW n \in S
      PROVE  (\A k \in R : k >= n => SameFlow(gs[k], gs[x])) <=>
             (\A k \in S : k >= n => SameFlow(fs[k], fs[last]))
  BY <1>3, <1>4
<1>6. \A k \in R : k >= x => SameFlow(gs[k], gs[x])
  BY <1>1, <1>2, <1>4
<1>7. LastEpisode(gs, R) = {n \in R : \A k \in R : k >= n => SameFlow(gs[k], gs[x])}
  BY <1>2 DEF LastEpisode
<1>8. LastEpisode(fs, S) = {n \in S : \A k \in S : k >= n => SameFlow(fs[k], fs[last])}
  BY DEF LastEpisode, last
<1> QED BY <1>5, <1>6, <1>7, <1>8

\* A frame of another flow, or the first one, starts anew.
LEMMA EpisodeStarts ==
  ASSUME NEW S, NEW x, Precede(S, x), NEW fs, NEW gs, Alike(gs, fs, S),
         S = {} \/ ~SameFlow(fs[Max(S)], gs[x])
  PROVE  LastEpisode(gs, S \cup {x}) = {x}
<1> DEFINE R == S \cup {x}
<1>1. PICK m \in Nat : S \in SUBSET (1 .. m) /\ x \in Nat /\ m < x
  BY DEF Precede
<1>2. Max(R) = x /\ \A n \in S : n \in Nat /\ n < x
  BY NewLast
<1>3. SameFlow(gs[x], gs[x])
  BY DEF SameFlow
<1>4. \A k \in R : k >= x => SameFlow(gs[k], gs[x])
  BY <1>1, <1>2, <1>3
<1>5. ASSUME NEW n \in S PROVE \E k \in R : k >= n /\ ~SameFlow(gs[k], gs[x])
  <2>1. Max(S) \in S /\ n <= Max(S) /\ n \in Nat /\ Max(S) \in Nat
    BY <1>1, <1>2, EndsOf
  <2>2. ~SameFlow(gs[Max(S)], gs[x])
    BY <2>1 DEF Alike
  <2> QED BY <2>1, <2>2
<1>6. LastEpisode(gs, R) = {n \in R : \A k \in R : k >= n => SameFlow(gs[k], gs[x])}
  BY <1>2 DEF LastEpisode
<1> QED BY <1>4, <1>5, <1>6
-----------------------------------------------------------------------------
(* An entry, and the frames at its index *)

Saturated(n) == IF n < MaxCount THEN n ELSE MaxCount

Described(fs, ns) ==
  [flow |-> Canonical(fs[Max(ns)]), pkt_count |-> Saturated(Cardinality(LastEpisode(fs, ns))),
   last_size |-> fs[Max(ns)].size, ewma_size |-> Ewma(fs, LastEpisode(fs, ns))]

Numbers(entry) ==
  /\ entry.pkt_count \in Nat \ {0} /\ entry.last_size \in Nat
  /\ entry.ewma_size \in Nat /\ entry.ewma_size <= Fxp(MaxSize)

EntryIs(entry, fs, ns) ==
  IF ns = {} THEN entry = NoEntry ELSE entry = Described(fs, ns) /\ Numbers(entry)

\* Frames elsewhere do not matter.
LEMMA EntryStays ==
  ASSUME NEW m \in Nat, NEW S \in SUBSET (1 .. m), NEW fs, NEW gs, Alike(gs, fs, S),
         NEW entry, EntryIs(entry, fs, S)
  PROVE  EntryIs(entry, gs, S)
<1>1. CASE S = {}
  BY <1>1 DEF EntryIs
<1>2. CASE S # {}
  <2>1. gs[Max(S)] = fs[Max(S)]
    BY <1>2, EndsOf DEF Alike
  <2>2. LastEpisode(gs, S) = LastEpisode(fs, S)
    BY <1>2, EpisodeSame
  <2> DEFINE E == LastEpisode(fs, S)
  <2>3. E \in SUBSET S /\ E # {}
    BY <1>2, EpisodeIn
  <2> HIDE DEF E
  <2>4. Ewma(gs, E) = Ewma(fs, E)
    <3>1. Places(E) /\ Alike(gs, fs, E)
      BY <2>3 DEF Places, Alike
    <3> QED BY <2>3, <3>1, EwmaSame
  <2>5. Described(gs, S) = Described(fs, S)
    BY <2>1, <2>2, <2>4 DEF Described, E
  <2> QED BY <1>2, <2>5 DEF EntryIs
<1> QED BY <1>1, <1>2

\* The frame that restarts an entry.
LEMMA EntryRestarts ==
  ASSUME NEW S, NEW x, Precede(S, x), NEW fs, NEW gs, Alike(gs, fs, S), gs[x] \in Frames,
         S = {} \/ ~SameFlow(fs[Max(S)], gs[x])
  PROVE  EntryIs(After(Fresh(Canonical(gs[x]), gs[x].size), gs[x].size), gs, S \cup {x})
<1> DEFINE R == S \cup {x}
           size == gs[x].size
           e == Fresh(Canonical(gs[x]), size)
           d == After(e, size)
<1>0. PICK m \in Nat : x \in Nat /\ m < x
  BY DEF Precede
<1>1. x \in Nat \ {0} /\ Max(R) = x /\ R # {}
  BY <1>0, NewLast
<1>2. LastEpisode(gs, R) = {x}
  BY EpisodeStarts
<1>3. /\ size \in Nat /\ Fxp(size) \in Nat /\ Fxp(size) <= Fxp(MaxSize)
      /\ (Fxp(size) + 3 * Fxp(size)) \div 4 = Fxp(size)
  BY FrameIs DEF Fxp
<1>4. Ewma(gs, {x}) = Fxp(size)
  BY <1>1, <1>3, EwmaFirst
<1>5. Cardinality({x}) = 1 /\ Saturated(1) = 1 /\ 0 < MaxCount
  <2>1. MaxCount \in Nat \ {0}
    BY FlowAssumption
  <2>2. Cardinality({x}) = 1
    BY FS_Singleton
  <2> QED BY <2>1, <2>2 DEF Saturated
<1>6. d = [flow |-> Canonical(gs[x]), pkt_count |-> 1, last_size |-> size,
           ewma_size |-> Fxp(size)]
  <2> HIDE DEF size
  <2>1. e = [flow |-> Canonical(gs[x]), pkt_count |-> 0, last_size |-> size,
             ewma_size |-> Fxp(size)]
    BY DEF Fresh
  <2> HIDE DEF e
  <2>2. /\ e.ewma_size = Fxp(size) /\ e.pkt_count = 0
    BY <2>1
  <2>3. /\ (Fxp(size) + 3 * e.ewma_size) \div 4 = Fxp(size)
        /\ (IF e.pkt_count < MaxCount THEN e.pkt_count + 1 ELSE e.pkt_count) = 1
    BY <1>3, <1>5, <2>2
  <2>4. d = [e EXCEPT !.ewma_size = Fxp(size), !.last_size = size, !.pkt_count = 1]
    BY <2>1, <2>3 DEF After
  <2> HIDE DEF d
  <2> QED BY <2>1, <2>4
<1>7. Described(gs, R) = [flow |-> Canonical(gs[x]), pkt_count |-> 1, last_size |-> size,
                          ewma_size |-> Fxp(size)]
  BY <1>1, <1>2, <1>4, <1>5 DEF Described
<1> HIDE DEF d, R, size
<1>8. Numbers(d)
  BY <1>3, <1>6 DEF Numbers
<1> QED BY <1>1, <1>6, <1>7, <1>8 DEF EntryIs, d, R, size

\* The frame that continues it.
LEMMA EntryContinues ==
  ASSUME NEW S, NEW x, Precede(S, x), S # {}, NEW fs, NEW gs, Alike(gs, fs, S),
         fs[Max(S)] \in Frames, gs[x] \in Frames, SameFlow(fs[Max(S)], gs[x]),
         NEW entry, EntryIs(entry, fs, S)
  PROVE  EntryIs(After(entry, gs[x].size), gs, S \cup {x})
<1> DEFINE R == S \cup {x}
           E == LastEpisode(fs, S)
           size == gs[x].size
           d == After(entry, size)
           a == Ewma(fs, E)
           b == (Fxp(size) + 3 * a) \div 4
<1>0. PICK m \in Nat : S \in SUBSET (1 .. m) /\ x \in Nat /\ m < x
  BY DEF Precede
<1>1. Max(R) = x /\ R # {} /\ x \notin S
  BY <1>0, NewLast
<1>2. LastEpisode(gs, R) = E \cup {x}
  BY EpisodeGrows
<1>3. E \in SUBSET S /\ E \in SUBSET (1 .. m) /\ E # {} /\ x \notin E
  BY <1>0, <1>1, EpisodeIn
<1>4. entry = Described(fs, S) /\ Numbers(entry)
  BY DEF EntryIs
<1>5. /\ entry = [flow |-> Canonical(fs[Max(S)]), pkt_count |-> Saturated(Cardinality(E)),
                  last_size |-> fs[Max(S)].size, ewma_size |-> a]
      /\ Saturated(Cardinality(E)) \in Nat \ {0} /\ a \in Nat /\ a <= Fxp(MaxSize)
  BY <1>4 DEF Described, Numbers
<1>6. size \in Nat /\ b \in Nat /\ b <= Fxp(MaxSize)
  <2>1. size \in Nat /\ Fxp(size) <= Fxp(MaxSize)
    BY FrameIs
  <2> DEFINE p == Fxp(size)
             q == Fxp(MaxSize)
  <2>2. p \in Nat /\ q \in Nat /\ p <= q /\ a \in Nat /\ a <= q
    BY <1>5, <2>1 DEF Fxp, MaxSize
  <2>3. b = (p + 3 * a) \div 4
    OBVIOUS
  <2> HIDE DEF a, b, p, q
  <2> DEFINE n == p + 3 * a
  <2>4. n \in Nat /\ n <= 4 * q
    BY <2>2
  <2>5. b = n \div 4
    BY <2>3
  <2> HIDE DEF n
  <2>6. b \in Nat /\ b <= q
    BY <2>2, <2>4, <2>5
  <2> QED BY <2>1, <2>6 DEF q
<1> HIDE DEF E
<1>7. Precede(E, x) /\ Alike(gs, fs, E)
  BY <1>0, <1>3 DEF Precede, Alike
<1>8. Ewma(gs, E \cup {x}) = b
  BY <1>3, <1>7, EwmaAdds
<1>9. IsFiniteSet(E) /\ Cardinality(E) \in Nat /\ Cardinality(E \cup {x}) = Cardinality(E) + 1
  BY <1>0, <1>3, LastPlace, FS_CardinalityType, FS_AddElement
<1> DEFINE c == Cardinality(E)
           k == IF Saturated(c) < MaxCount THEN Saturated(c) + 1 ELSE Saturated(c)
<1>10. k = Saturated(Cardinality(E \cup {x})) /\ k \in Nat \ {0}
  <2>1. c \in Nat /\ Cardinality(E \cup {x}) = c + 1 /\ MaxCount \in Nat \ {0}
    BY <1>9, FlowAssumption
  <2> HIDE DEF c
  <2> QED BY <2>1 DEF Saturated
<1>11. d = [flow |-> Canonical(fs[Max(S)]), pkt_count |-> k, last_size |-> size,
            ewma_size |-> b]
  <2> HIDE DEF a, b, c, size
  <2>1. d = [entry EXCEPT !.ewma_size = (Fxp(size) + 3 * entry.ewma_size) \div 4,
                          !.last_size = size,
                          !.pkt_count = IF @ < MaxCount THEN @ + 1 ELSE @]
    BY DEF After
  <2> QED BY <1>5, <2>1 DEF b, c
<1>12. Canonical(fs[Max(S)]) = Canonical(gs[x])
  BY OneForm
<1> HIDE DEF a, b, c, d, k, size, R
<1>13. Described(gs, R) = [flow |-> Canonical(gs[x]), pkt_count |-> k, last_size |-> size,
                           ewma_size |-> b]
  BY <1>1, <1>2, <1>8, <1>10 DEF Described, size
<1>14. Numbers(d)
  BY <1>6, <1>10, <1>11 DEF Numbers
<1> QED BY <1>1, <1>11, <1>12, <1>13, <1>14 DEF EntryIs, d, R, size

-----------------------------------------------------------------------------
(* The flow table *)

\* Each entry describes the frames that were tracked at its index.
FlowInv ==
  /\ tracked \in Seq(Frames) /\ anomaly_count \in Nat
  /\ not_first_run \/ tracked = <<>>
  /\ DOMAIN flow_table = FlowIndices
  /\ \A i \in FlowIndices : EntryIs(flow_table[i], tracked, At(tracked, i))

LEMMA NothingAt == \A i : At(<<>>, i) = {}
BY DEF At

LEMMA InitFlowInv == Init => FlowInv
<1> SUFFICES ASSUME Init PROVE FlowInv
  OBVIOUS
<1>1. tracked = <<>> /\ tracked \in Seq(Frames) /\ anomaly_count \in Nat
  BY DEF Init
<1>2. flow_table = [i \in FlowIndices |-> NoEntry]
  BY DEF Init
<1> QED BY <1>1, <1>2, NothingAt DEF FlowInv, EntryIs

\* What is processed is a frame that came, and the table was initialised.
LEMMA FrameArrives ==
  ASSUME IInv, Process, SenderKeepsUp
  PROVE  rq_data[cqe[cq_idx % Depth].wqe_counter % Depth] \in Frames /\ not_first_run
<1>1. PICK r, c, t \in Nat : Typed /\ Stands(r, c, t)
  BY DEF IInv
<1>2. c < r /\ Rung(c) = c /\ pc = "process"
  BY <1>1, ProcessStands DEF Process
<1>3. cq_idx = Counter(c) /\ r <= c + Depth
  BY <1>1, <1>2 DEF Stands, Counted, Refilled
<1>4. cq_idx % Depth = Slot(c)
  BY <1>3, CounterKeeps DEF Slot
<1>5. Slot(cqe[Slot(c)].wqe_counter) = Slot(c)
  BY <1>1, <1>2, <1>3 DEF Stands, Owned
<1>6. rq_data[Slot(c)] \in Frames
  BY <1>1, <1>2 DEF Stands, Held
<1>7. not_first_run
  BY <1>1, <1>2 DEF Stands, Owned
<1> QED BY <1>4, <1>5, <1>6, <1>7 DEF Slot

\* The entry a frame finds, and what it leaves.
LEMMA TrackKeeps ==
  ASSUME FlowInv, NEW f \in Frames, Parses(f), Track(f), not_first_run'
  PROVE  FlowInv' /\ (anomaly_count' > anomaly_count <=> StartsLarge(f, tracked))
<1> DEFINE fs == tracked
           gs == Append(tracked, f)
           x == Len(tracked) + 1
           i == Place(f)
           S == At(fs, i)
           flow == Canonical(f)
           e == Looked(flow_table[i], flow, f.size)
<1>1. fs \in Seq(Frames) /\ Len(fs) \in Nat /\ DOMAIN fs = 1 .. Len(fs)
  BY DEF FlowInv
<1>2. i = FlowIndex(flow) /\ i \in FlowIndices
  BY OneForm, FlowAssumption
<1>3. /\ flow_table' = [flow_table EXCEPT ![i] = After(e, f.size)]
      /\ anomaly_count' = anomaly_count + (IF Anomalous(Features(e, f.size)) THEN 1 ELSE 0)
      /\ tracked' = gs
  BY <1>2 DEF Track
<1>4. gs \in Seq(Frames) /\ gs[x] = f /\ \A n \in 1 .. Len(fs) : gs[n] = fs[n]
  BY <1>1
<1>5. \A j : At(fs, j) \in SUBSET (1 .. Len(fs)) /\ Alike(gs, fs, At(fs, j))
  BY <1>1, <1>4 DEF At, Alike
<1>6. \A j : At(gs, j) = IF j = i THEN At(fs, j) \cup {x} ELSE At(fs, j)
  BY <1>1, AtGrows
<1>7. EntryIs(flow_table[i], fs, S)
  BY <1>2 DEF FlowInv
<1> HIDE DEF gs, x, i
<1>8. Precede(S, x)
  BY <1>1, <1>5 DEF Precede, x
<1>9. S # {} => fs[Max(S)] \in Frames
  <2> SUFFICES ASSUME S # {} PROVE fs[Max(S)] \in Frames
    OBVIOUS
  <2>1. S \in SUBSET (1 .. Len(fs))
    BY <1>5
  <2>2. Max(S) \in 1 .. Len(fs)
    BY <1>1, <2>1, EndsOf
  <2> QED BY <1>1, <2>2
<1> DEFINE New == S = {} \/ ~SameFlow(fs[Max(S)], f)
<1>10. New <=> flow_table[i].flow # flow
  <2>1. CASE S = {}
    BY <1>7, <2>1, OneForm DEF EntryIs, NoEntry
  <2>2. CASE S # {}
    <3>1. flow_table[i].flow = Canonical(fs[Max(S)])
      BY <1>7, <2>2 DEF EntryIs, Described
    <3> QED BY <1>9, <2>2, <3>1, OneForm
  <2> QED BY <2>1, <2>2
<1>11. f.size \in Nat
  BY FrameIs
<1> HIDE DEF S
<1>12. /\ EntryIs(After(e, f.size), gs, S \cup {x})
       /\ Found(e, f.size) /\ (e.pkt_count = 0 <=> New)
  <2>1. CASE New
    <3>1. e = Fresh(Canonical(gs[x]), gs[x].size)
      BY <1>4, <1>10, <2>1 DEF Looked
    <3>2. Alike(gs, fs, S) /\ gs[x] \in Frames
      BY <1>4, <1>5 DEF S
    <3>3. EntryIs(After(e, f.size), gs, S \cup {x})
      BY <1>4, <1>8, <2>1, <3>1, <3>2, EntryRestarts
    <3>4. Found(e, f.size) /\ e.pkt_count = 0
      BY <1>4, <1>11, <3>1 DEF Found, Fresh, Fxp
    <3> QED BY <2>1, <3>3, <3>4
  <2>2. CASE ~New
    <3>1. e = flow_table[i] /\ S # {}
      BY <1>10, <2>2 DEF Looked
    <3>2. Alike(gs, fs, S) /\ gs[x] \in Frames
      BY <1>4, <1>5 DEF S
    <3>3. EntryIs(After(e, f.size), gs, S \cup {x})
      BY <1>4, <1>7, <1>8, <1>9, <2>2, <3>1, <3>2, EntryContinues
    <3>4. Numbers(e)
      BY <1>7, <3>1 DEF EntryIs
    <3>5. Found(e, f.size) /\ e.pkt_count # 0
      BY <3>4 DEF Numbers, Found
    <3> QED BY <2>2, <3>3, <3>5
  <2> QED BY <2>1, <2>2
<1> HIDE DEF e, New
<1>13. \A j \in FlowIndices : EntryIs(flow_table'[j], gs, At(gs, j))
  <2> SUFFICES ASSUME NEW j \in FlowIndices PROVE EntryIs(flow_table'[j], gs, At(gs, j))
    OBVIOUS
  <2>1. CASE j = i
    BY <1>3, <1>6, <1>12, <2>1 DEF FlowInv, S
  <2>2. CASE j # i
    <3>1. flow_table'[j] = flow_table[j] /\ At(gs, j) = At(fs, j)
      BY <1>3, <1>6, <2>2 DEF FlowInv
    <3>2. EntryIs(flow_table[j], fs, At(fs, j))
      BY DEF FlowInv
    <3> QED BY <1>1, <1>5, <3>1, <3>2, EntryStays
  <2> QED BY <2>1, <2>2
<1>14. anomaly_count' > anomaly_count <=> Anomalous(Features(e, f.size))
  BY <1>3 DEF FlowInv
<1>15. Anomalous(Features(e, f.size)) <=> f.size >= 1500 /\ New
  BY <1>11, <1>12, Verdict
<1>16. StartsLarge(f, tracked) <=> f.size >= 1500 /\ New
  BY DEF StartsLarge, New, S, i
<1>17. FlowInv'
  BY <1>3, <1>4, <1>13 DEF FlowInv
<1> QED BY <1>14, <1>15, <1>16, <1>17

\* A frame that is not tracked.
LEMMA OtherKeeps ==
  ASSUME FlowInv, NEW f \in Frames, ~Parses(f), tracked' = Append(tracked, f),
         UNCHANGED <<flow_table, anomaly_count>>, not_first_run'
  PROVE  FlowInv'
<1>1. tracked \in Seq(Frames) /\ Len(tracked) \in Nat /\ DOMAIN tracked = 1 .. Len(tracked)
  BY DEF FlowInv
<1>2. tracked' \in Seq(Frames) /\ \A n \in 1 .. Len(tracked) : tracked'[n] = tracked[n]
  BY <1>1
<1>3. \A j : At(tracked', j) = At(tracked, j)
  BY <1>1, AtGrows
<1>4. \A j : /\ At(tracked, j) \in SUBSET (1 .. Len(tracked))
             /\ Alike(tracked', tracked, At(tracked, j))
  BY <1>1, <1>2 DEF At, Alike
<1>5. \A j \in FlowIndices : EntryIs(flow_table'[j], tracked', At(tracked', j))
  BY <1>1, <1>3, <1>4, EntryStays DEF FlowInv
<1> QED BY <1>2, <1>5 DEF FlowInv

\* A step tracks one frame, or leaves the table alone.
LEMMA FlowStep ==
  ASSUME IInv, FlowInv, [Next]_vars
  PROVE  /\ FlowInv'
         /\ tracked' # tracked =>
              (anomaly_count' > anomaly_count <=> StartsLarge(Last(tracked'), tracked))
<1>1. ASSUME UNCHANGED <<flow_table, anomaly_count, tracked>>,
             not_first_run \/ tracked = <<>> => not_first_run' \/ tracked = <<>>
      PROVE  FlowInv' /\ tracked' = tracked
  BY <1>1 DEF FlowInv
<1>2. CASE Activate
  <2>1. CASE not_first_run
    BY <1>1, <1>2, <2>1 DEF Activate, dpa, ml
  <2>2. CASE ~not_first_run
    <3>1. /\ flow_table' = [i \in FlowIndices |-> NoEntry] /\ anomaly_count' = 0
          /\ tracked' = tracked /\ tracked = <<>>
      BY <1>2, <2>2 DEF Activate, Initialised, FlowInv
    <3>2. tracked' \in Seq(Frames)
      BY <3>1 DEF FlowInv
    <3> QED BY <3>1, <3>2, NothingAt DEF FlowInv, EntryIs
  <2> QED BY <2>1, <2>2
<1>3. CASE Process /\ SenderKeepsUp
  <2> DEFINE f == rq_data[cqe[cq_idx % Depth].wqe_counter % Depth]
  <2>1. f \in Frames /\ not_first_run /\ not_first_run' = not_first_run
    BY <1>3, FrameArrives DEF Process, dpa
  <2>2. IF Parses(f) THEN Track(f)
        ELSE tracked' = Append(tracked, f) /\ UNCHANGED <<flow_table, anomaly_count>>
    BY <1>3 DEF Process
  <2>3. tracked' = Append(tracked, f)
    BY <2>2 DEF Track
  <2>4. Last(tracked') = f
    BY <2>1, <2>3 DEF Last, FlowInv
  <2> HIDE DEF f
  <2>5. CASE Parses(f)
    BY <2>1, <2>2, <2>4, <2>5, TrackKeeps
  <2>6. CASE ~Parses(f)
    <3>1. FlowInv'
      BY <2>1, <2>2, <2>6, OtherKeeps
    <3>2. ~(anomaly_count' > anomaly_count) /\ ~StartsLarge(f, tracked)
      BY <2>2, <2>6 DEF StartsLarge, FlowInv
    <3> QED BY <2>4, <3>1, <3>2
  <2> QED BY <2>5, <2>6
<1>4. CASE (\E f \in Frames : Receive(f)) \/ Transmit \/ HostRun \/ Poll \/ Arm
  BY <1>1, <1>4 DEF Receive, Transmit, HostRun, Poll, Arm, dpa, ml
<1>5. CASE Ring \/ Refill \/ Step \/ UNCHANGED vars
  BY <1>1, <1>5 DEF Ring, Refill, Step, vars, dpa, ml
<1> QED BY <1>2, <1>3, <1>4, <1>5 DEF Next, Handler, Quiet

LEMMA FlowInvHolds == Spec => []FlowInv
BY InitFlowInv, FlowStep, IInvHolds, PTL DEF Spec

\* An entry describes the frames of exactly one flow since that flow last took
\* the entry, both directions together: their number, the last size and the
\* average; nothing of an evicted flow is left in it (flow_track_update).
THEOREM FlowsApart == Spec => []FlowsNeverMix
<1>1. FlowInv => FlowsNeverMix
  BY DEF FlowInv, EntryIs, Described, Saturated, FlowsNeverMix
<1> QED BY <1>1, FlowInvHolds, PTL

INT32_MAX == 2147483647

AverageFits ==
  \A i \in FlowIndices : \A size \in 0 .. MaxSize :
    /\ Fxp(size) + 3 * flow_table[i].ewma_size >= 0
    /\ Fxp(size) + 3 * flow_table[i].ewma_size <= INT32_MAX

\* The weighted sum of the average is cut to 32 bits before it is divided, and
\* always fits, because no average exceeds the largest frame's size
\* (flow_track_update).
THEOREM AverageInWord == Spec => []AverageFits
<1> DEFINE q == Fxp(MaxSize)
<1>1. q \in Nat
  BY DEF Fxp, MaxSize
<1>2. 4 * q <= INT32_MAX
  BY SMT DEF Fxp, MaxSize, INT32_MAX
<1>3. \A size \in 0 .. MaxSize : Fxp(size) \in Nat /\ Fxp(size) <= q
  BY DEF Fxp, MaxSize
<1> HIDE DEF q
<1>4. FlowInv => AverageFits
  <2> SUFFICES ASSUME FlowInv, NEW i \in FlowIndices, NEW size \in 0 .. MaxSize
               PROVE  /\ Fxp(size) + 3 * flow_table[i].ewma_size >= 0
                      /\ Fxp(size) + 3 * flow_table[i].ewma_size <= INT32_MAX
    BY DEF AverageFits
  <2> DEFINE e == flow_table[i].ewma_size
             s == Fxp(size)
  <2>1. e \in Nat /\ e <= q
    <3>1. EntryIs(flow_table[i], tracked, At(tracked, i))
      BY DEF FlowInv
    <3> QED BY <1>1, <3>1 DEF EntryIs, NoEntry, Numbers, q
  <2>2. s \in Nat /\ s <= q
    BY <1>3
  <2> HIDE DEF e, s
  <2>3. s + 3 * e >= 0 /\ s + 3 * e <= 4 * q
    BY <1>1, <2>1, <2>2
  <2>4. s + 3 * e <= INT32_MAX
    BY <1>1, <1>2, <2>1, <2>2, <2>3, SMT DEF INT32_MAX
  <2> QED BY <2>3, <2>4 DEF e, s
<1> QED BY <1>4, FlowInvHolds, PTL

\* The forest counts exactly the frames of 1500 bytes and more with which
\* tracking of a flow starts, whatever came before (flow_ml_forest_infer over
\* the features of flow_track_update).
THEOREM LargeStartsFlagged == Spec => FlagsLargeStarts
BY FlowStep, FlowInvHolds, IInvHolds, PTL DEF Spec, FlagsLargeStarts

-----------------------------------------------------------------------------
(* The congestion control *)


FeatureVectors ==
    [RELATIVE_RTT : Int, EWMA_RTT : Int, CUR_RATE : Int, WAS_CNP : Int,
     WAS_NACK : Int, CNP_STREAK : Int]

\* A forest votes a number, whatever numbers it is given.
VotesAreNumbers ==
    \A f \in Forests : \A feat \in FeatureVectors : ml_cc_forest_infer(f, feat) \in Int

-------------------------------------------------------------------------------
(* The fixed-point product *)

Weighed(q, h, l, b) == q * b + (h * b + (l * b) \div 256) \div 256

\* (Where a range ends in One, its value is left out of sight: the provers would
\* list the range.)
LEMMA OneIs == One = 65536 /\ One \in Nat
BY DEF One

LEMMA OneIsNat == One \in Nat
BY OneIs

\* It is taken of the upper bytes, the second and the first byte in turn.
LEMMA Bytes ==
  ASSUME NEW a \in Nat
  PROVE  \E q, h, l \in Nat :
             /\ h < 256 /\ l < 256
             /\ a = q * 65536 + h * 256 + l
             /\ \A b : FxpMult(a, b) = Weighed(q, h, l, b)
<1> DEFINE q == a \div One
           h == (a % One) \div 256
           l == a % 256
<1>1. q \in Nat /\ h \in Nat /\ l \in Nat /\ h < 256 /\ l < 256
  BY OneIs
<1>2. a = q * 65536 + h * 256 + l
  BY OneIs
<1>3. \A b : FxpMult(a, b) = Weighed(q, h, l, b)
  BY DEF FxpMult, Weighed
<1> HIDE DEF q, h, l
<1> QED BY <1>1, <1>2, <1>3

LEMMA ProductOrdered ==
  ASSUME NEW x \in Nat, NEW y \in Nat, NEW c \in Nat, y <= c
  PROVE  x * y \in 0 .. x * c
<1>1. PICK d \in Nat : c = y + d
  <2>1. c - y \in Nat /\ c = y + (c - y)
    OBVIOUS
  <2> QED BY <2>1
<1>2. x * c = x * y + x * d
  BY <1>1
<1>3. x * y \in Nat /\ x * d \in Nat
  BY <1>1
<1> QED BY <1>2, <1>3

\* A factor of at most one does not make a number larger, or negative.
LEMMA ProductBounded ==
  ASSUME NEW a \in Nat, NEW b \in Nat, b <= One
  PROVE  FxpMult(a, b) \in 0 .. a
<1>0. PICK q, h, l \in Nat :
             /\ h < 256 /\ l < 256
             /\ a = q * 65536 + h * 256 + l
             /\ \A c : FxpMult(a, c) = Weighed(q, h, l, c)
  BY Bytes
<1>1. /\ a = q * 65536 + h * 256 + l
      /\ FxpMult(a, b) = Weighed(q, h, l, b)
  BY <1>0
<1>2. b \in Nat /\ b <= 65536 /\ 65536 \in Nat
  BY OneIs
<1>3. q * b \in 0 .. q * 65536
  BY <1>2, ProductOrdered
<1>4. l * b \in 0 .. l * 65536
  BY <1>2, ProductOrdered
<1> DEFINE low == (l * b) \div 256
           mid == (h * b + low) \div 256
<1>5. low \in 0 .. l * 256
  BY <1>4
<1> HIDE DEF low
<1>6. h * b \in 0 .. h * 65536
  BY <1>2, ProductOrdered
<1>7. mid \in 0 .. h * 256 + l
  BY <1>5, <1>6
<1> HIDE DEF mid
<1>8. q * b + mid \in 0 .. a
  BY <1>1, <1>3, <1>7
<1> QED BY <1>1, <1>8 DEF Weighed, low, mid

LEMMA ProductIsInt ==
  ASSUME NEW a \in Int, NEW b \in Int PROVE FxpMult(a, b) \in Int
BY OneIs DEF FxpMult

LEMMA HalfIsAtMostHalf ==
  ASSUME NEW a \in Nat PROVE FxpMult(a, One \div 2) \in 0 .. a \div 2
<1>1. PICK q, h, l \in Nat :
             /\ h < 256 /\ l < 256
             /\ a = q * 65536 + h * 256 + l
             /\ \A b : FxpMult(a, b) = Weighed(q, h, l, b)
  BY Bytes
<1>2. One \div 2 = 32768
  BY OneIs
<1> DEFINE low == (l * 32768) \div 256
           mid == (h * 32768 + low) \div 256
<1>3. low \in Int /\ low = 128 * l
  OBVIOUS
<1> HIDE DEF low
<1>4. mid \in Nat /\ 2 * mid <= h * 256 + l
  BY <1>3
<1> HIDE DEF mid
<1>5. q * 32768 + mid \in Nat /\ 2 * (q * 32768 + mid) <= a
  BY <1>1, <1>4
<1>6. q * 32768 + mid \in 0 .. a \div 2
  BY <1>5
<1>7. FxpMult(a, 32768) = Weighed(q, h, l, 32768)
  BY <1>1
<1>8. Weighed(q, h, l, 32768) = q * 32768 + mid
  BY DEF Weighed, low, mid
<1> QED BY <1>2, <1>6, <1>7, <1>8

LEMMA ProductWithZero ==
  ASSUME NEW a \in Nat PROVE FxpMult(a, 0) = 0
<1>1. PICK q, h, l \in Nat :
             FxpMult(a, 0) = Weighed(q, h, l, 0)
  BY Bytes
<1>2. q * 0 = 0 /\ h * 0 = 0 /\ l * 0 = 0
  OBVIOUS
<1>3. FxpMult(a, 0) = 0 + (0 + 0 \div 256) \div 256
  BY <1>1, <1>2 DEF Weighed
<1> QED BY <1>3

-------------------------------------------------------------------------------
(* The rate after an answer *)

LEMMA LimitedVote ==
  ASSUME NEW v \in Int
  PROVE  /\ Limited(v) \in -One .. One
         /\ v >= 0 => Limited(v) >= 0
         /\ v <= 0 => Limited(v) <= 0
<1>1. One \in Nat
  BY OneIsNat
<1> QED BY <1>1 DEF Limited

LEMMA ConstantsOK ==
  ASSUME MlCcAssumption
  PROVE  Word \in Nat \ {0} /\ MaxRate \in Nat \ {0} /\ Word > 2 * MaxRate
BY DEF MlCcAssumption

LEMMA ScaledRate ==
  ASSUME MlCcAssumption, NEW r \in 1 .. MaxRate, NEW v \in -One .. One
  PROVE  /\ Scaled(r, v) \in 0 .. 2 * r
         /\ v >= 0 => Scaled(r, v) >= r
         /\ v <= 0 => Scaled(r, v) <= r
<1>1. /\ Word \in Nat \ {0} /\ MaxRate \in Nat /\ Word > MaxRate
      /\ r \in Nat /\ r < Word
  <2>1. Word \in Nat \ {0} /\ MaxRate \in Nat /\ Word > 2 * MaxRate
    BY ConstantsOK
  <2> QED BY <2>1
<1>0. One \in Nat
  BY OneIsNat
<1>v. v \in Int /\ -One <= v /\ v <= One
  BY <1>0
<1>2. CASE v >= 0
  <2>1. v \in Nat /\ v <= One
    BY <1>0, <1>v, <1>2
  <2> DEFINE p == FxpMult(r, v)
  <2>2. p \in 0 .. r
    BY <1>1, <2>1, ProductBounded
  <2>3. Scaled(r, v) = r + p
    BY <1>2 DEF Scaled
  <2>4. v = 0 => p = 0
    BY <1>1, ProductWithZero
  <2> HIDE DEF p
  <2>5. v <= 0 => p = 0
    BY <1>v, <1>2, <2>4
  <2> QED BY <1>1, <2>2, <2>3, <2>5
<1>3. CASE v < 0
  <2>1. -v \in Nat /\ -v <= One
    BY <1>0, <1>v, <1>3
  <2> DEFINE p == FxpMult(r, -v)
  <2>2. p \in 0 .. r
    BY <1>1, <2>1, ProductBounded
  <2>3. ~(v >= 0)
    BY <1>v, <1>3
  <2>4. Scaled(r, v) = (r - p) % Word
    BY <2>3 DEF Scaled
  <2> HIDE DEF p
  <2>5. r - p \in 0 .. Word - 1
    BY <1>1, <2>2
  <2>6. (r - p) % Word = r - p
    BY <1>1, <2>5
  <2> QED BY <1>1, <2>2, <2>3, <2>4, <2>6
<1> QED BY <1>v, <1>2, <1>3

LEMMA SafeRate ==
  ASSUME NEW x \in Nat, NEW s
  PROVE  Safe(x, s) \in {x, FxpMult(x, One \div 2)} /\ Safe(x, s) \in 0 .. x
<1>1. One \div 2 \in 0 .. One
  BY OneIsNat
<1>2. FxpMult(x, One \div 2) \in 0 .. x
  BY <1>1, ProductBounded
<1> QED BY <1>2 DEF Safe

LEMMA ClampedRate ==
  ASSUME MlCcAssumption, param \in Params, NEW x \in Nat
  PROVE  /\ Clamped(x) \in 1 .. MaxRate
         /\ param.MIN_RATE \in 1 .. MaxRate
         /\ Clamped(x) <= AtLeast(x, param.MIN_RATE)
         /\ x <= MaxRate => Clamped(x) >= x
<1>1. MaxRate \in Nat \ {0} /\ param.MIN_RATE \in 1 .. MaxRate
  BY DEF MlCcAssumption, ml_cc_init
<1> QED BY <1>1 DEF Clamped, AtLeast

\* All three in a row, as an answer changes the rate.
NewRate(v, sample) == Clamped(Safe(Scaled(cur_rate, Limited(v)), sample))

LEMMA AnswerRate ==
  ASSUME MlCcAssumption, param \in Params, cur_rate \in 1 .. MaxRate,
         NEW v \in Int, NEW sample
  PROVE  /\ NewRate(v, sample) \in 1 .. MaxRate
         /\ NewRate(v, sample) <= AtLeast(2 * cur_rate, param.MIN_RATE)
         /\ v <= 0 => NewRate(v, sample) <= AtLeast(cur_rate, param.MIN_RATE)
<1> DEFINE d == Scaled(cur_rate, Limited(v))
           n == Safe(d, sample)
           r == NewRate(v, sample)
<1>0. /\ cur_rate \in Nat /\ MaxRate \in Nat /\ param.MIN_RATE \in 1 .. MaxRate
      /\ 2 * cur_rate \in Nat
  BY DEF MlCcAssumption, ml_cc_init
<1>1. Limited(v) \in -One .. One /\ (v <= 0 => Limited(v) <= 0)
  BY LimitedVote
<1>2. d \in 0 .. 2 * cur_rate /\ (v <= 0 => d <= cur_rate)
  BY <1>1, ScaledRate
<1>3. d \in Nat
  BY <1>2
<1>4. n \in 0 .. d
  BY <1>3, SafeRate
<1>5. n \in Nat
  BY <1>3, <1>4
<1>6. r \in 1 .. MaxRate /\ r <= AtLeast(n, param.MIN_RATE)
  BY <1>5, ClampedRate DEF NewRate
<1> HIDE DEF d, n, r
<1>7. r <= AtLeast(2 * cur_rate, param.MIN_RATE)
  BY <1>0, <1>2, <1>4, <1>6 DEF AtLeast
<1>8. v <= 0 => r <= AtLeast(cur_rate, param.MIN_RATE)
  BY <1>0, <1>2, <1>4, <1>6 DEF AtLeast
<1> QED BY <1>6, <1>7, <1>8 DEF r

\* With the net off, a vote for the rate never lowers it.
LEMMA NetOff ==
  ASSUME MlCcAssumption, param \in Params, cur_rate \in 1 .. MaxRate,
         NEW v \in Int, v >= 0, NEW sample \in 0 .. Word - 1,
         sample < param.MAX_DELAY, param.MAX_DELAY < Word \div 2
  PROVE  NewRate(v, sample) >= cur_rate
<1> DEFINE d == Scaled(cur_rate, Limited(v))
<1>1. /\ cur_rate \in Nat /\ MaxRate \in Nat /\ param.MAX_DELAY \in Nat
      /\ Word \in Nat \ {0}
  BY DEF MlCcAssumption, ml_cc_init
<1>2. d \in Nat /\ d >= cur_rate
  BY LimitedVote, ScaledRate
<1>3. Signed(sample) = sample /\ Signed(param.MAX_DELAY) = param.MAX_DELAY
  BY <1>1 DEF Signed
<1>4. Safe(d, sample) = d
  BY <1>1, <1>3 DEF Safe
<1> HIDE DEF d
<1>5. NewRate(v, sample) = Clamped(d)
  BY <1>4 DEF NewRate, d
<1>6. d <= MaxRate => Clamped(d) >= d
  BY <1>2, ClampedRate
<1>7. d > MaxRate => Clamped(d) = MaxRate
  BY DEF Clamped
<1>8. Clamped(d) \in 1 .. MaxRate
  BY <1>2, ClampedRate
<1> QED BY <1>1, <1>2, <1>5, <1>6, <1>7, <1>8

\* With the net on, at least half of the vote's result is taken away.
LEMMA NetOn ==
  ASSUME MlCcAssumption, param \in Params, cur_rate \in 1 .. MaxRate,
         NEW v \in Int, NEW sample \in 0 .. Word - 1,
         sample >= param.MAX_DELAY, sample < Word \div 2
  PROVE  NewRate(v, sample) <= AtLeast(param.MIN_RATE,
                                       IF v > 0 THEN cur_rate ELSE cur_rate \div 2)
<1> DEFINE d == Scaled(cur_rate, Limited(v))
           n == FxpMult(d, One \div 2)
<1>1. /\ cur_rate \in Nat /\ MaxRate \in Nat /\ param.MAX_DELAY \in Nat
      /\ Word \in Nat \ {0} /\ param.MIN_RATE \in 1 .. MaxRate
  BY DEF MlCcAssumption, ml_cc_init
<1>2. Limited(v) \in -One .. One /\ (v <= 0 => Limited(v) <= 0)
  BY LimitedVote
<1>3. d \in Nat /\ d <= 2 * cur_rate /\ (v <= 0 => d <= cur_rate)
  BY <1>1, <1>2, ScaledRate
<1>4. Signed(sample) = sample /\ Signed(param.MAX_DELAY) = param.MAX_DELAY
  BY <1>1 DEF Signed
<1>5. Safe(d, sample) = n
  BY <1>1, <1>4 DEF Safe
<1>6. n \in Nat /\ n <= d \div 2
  BY <1>3, HalfIsAtMostHalf
<1>7. NewRate(v, sample) = Clamped(n)
  BY <1>5 DEF NewRate
<1> HIDE DEF d, n
<1>8. Clamped(n) \in Nat /\ Clamped(n) <= AtLeast(n, param.MIN_RATE)
  BY <1>6, ClampedRate
<1>9. n <= cur_rate /\ (v <= 0 => n <= cur_rate \div 2)
  <2>1. 2 * n <= d
    BY <1>3, <1>6
  <2> QED BY <1>1, <1>3, <1>6, <2>1
<1>10. cur_rate \div 2 \in Nat
  BY <1>1
<1> QED BY <1>1, <1>6, <1>7, <1>8, <1>9, <1>10 DEF AtLeast

-------------------------------------------------------------------------------
(* The inductive invariant *)

CcInv == /\ CcTypeOK
        /\ param \in Params /\ forest \in Forests
        /\ answers \in Nat

LEMMA ElapsedInWord ==
  ASSUME MlCcAssumption, NEW from \in 0 .. Word - 1, NEW to \in 0 .. Word - 1
  PROVE  Elapsed(from, to) \in 0 .. Word - 1
<1>1. Word \in Nat \ {0}
  BY DEF MlCcAssumption
<1>2. CASE from > to
  <2> DEFINE n == to - from + Word - 1
  <2>1. n \in Int
    BY <1>1
  <2>2. Elapsed(from, to) = n % Word
    BY <1>2 DEF Elapsed
  <2> HIDE DEF n
  <2> QED BY <1>1, <2>1, <2>2
<1>3. CASE ~(from > to)
  <2>1. Elapsed(from, to) = to - from
    BY <1>3 DEF Elapsed
  <2> QED BY <1>1, <1>3, <2>1
<1> QED BY <1>2, <1>3

LEMMA EwmaInWord ==
  ASSUME MlCcAssumption, CcInv, NEW sample \in 0 .. Word - 1
  PROVE  NewEwma(sample) % Word \in 0 .. Word - 1
<1>1. One \in Nat
  BY OneIsNat
<1>2. /\ Word \in Nat \ {0} /\ param.ALPHA \in Int
      /\ ewma_rtt \in Int /\ sample \in Int
  BY <1>1 DEF MlCcAssumption, CcInv, CcTypeOK, ml_cc_init
<1> DEFINE old == One - param.ALPHA
           x == FxpMult(sample, param.ALPHA)
           y == FxpMult(ewma_rtt, old)
<1>3. old \in Int
  BY <1>1, <1>2
<1> HIDE DEF old
<1>4. x \in Int
  BY <1>2, ProductIsInt
<1>5. y \in Int
  BY <1>2, <1>3, ProductIsInt
<1>6. NewEwma(sample) = x + y
  BY DEF NewEwma, old
<1> HIDE DEF x, y
<1> QED BY <1>2, <1>4, <1>5, <1>6

LEMMA VoteIsNumber ==
  ASSUME MlCcAssumption, VotesAreNumbers, CcInv, NEW sample \in 0 .. Word - 1,
         NEW min \in 0 .. Word - 1
  PROVE  ml_cc_forest_infer(forest, RttFeatures(sample, min)) \in Int
<1>1. \A n \in Int : Signed(n) \in Int
  BY DEF Signed, MlCcAssumption
<1>2. NewEwma(sample) % Word \in Int
  BY EwmaInWord
<1>3. /\ cur_rate \in Int /\ was_cnp \in Int /\ was_nack \in Int
      /\ cnp_streak \in Int /\ Word \in Nat
  BY DEF CcInv, CcTypeOK, MlCcAssumption
<1>4. (IF sample >= min THEN sample - min ELSE sample) \in Int
  BY <1>3
<1>5. /\ Signed(IF sample >= min THEN sample - min ELSE sample) \in Int
      /\ Signed(NewEwma(sample) % Word) \in Int
  BY <1>1, <1>2, <1>4
<1>6. RttFeatures(sample, min) \in FeatureVectors
  BY <1>3, <1>5 DEF RttFeatures, FeatureVectors
<1> QED BY <1>6 DEF VotesAreNumbers, CcInv

LEMMA InitIInv == MlCcAssumption /\ CcInit => CcInv
BY DEF MlCcAssumption, CcInit, CcInv, CcTypeOK

LEMMA StepIInv ==
  ASSUME MlCcAssumption, VotesAreNumbers, CcInv, [CcNext]_cc_vars
  PROVE  CcInv'
<1> USE DEF CcInv, CcTypeOK
<1>0. /\ Word \in Nat \ {0} /\ CountWord \in Nat \ {0} /\ MaxRate \in Nat \ {0}
      /\ InitialMinRtt \in 0 .. Word - 1 /\ MaxStreak \in Nat
      /\ param \in ml_cc_init
  BY DEF MlCcAssumption
<1>1. ASSUME NEW now \in Times, NewFlow(now) PROVE CcInv'
  <2>1. now \in 0 .. Word - 1 /\ param.NEW_RATE \in 1 .. MaxRate
    BY <1>0 DEF MlCcAssumption, ml_cc_init
  <2> QED BY <1>0, <1>1, <2>1 DEF NewFlow, built
<1>2. ASSUME NEW now \in Times, TxRequestSent(now) PROVE CcInv'
  <2>1. now \in 0 .. Word - 1
    BY DEF MlCcAssumption
  <2> QED BY <1>0, <1>2, <2>1 DEF TxRequestSent, built, delay, flags, history
<1>3. ASSUME NEW now \in Times, TxOther(now) PROVE CcInv'
  <2>1. abort_cnt' \in 0 .. CountWord - 1
    BY <1>0, <1>3 DEF TxOther
  <2>2. rtt_req_to_rtt_sent' \in 0 .. 2 /\ rtt_req' \in {0, 1}
    BY <1>3 DEF TxOther
  <2>3. UNCHANGED <<built, cur_rate, start_delay, rtt_meas_psn, delay, flags, history>>
    BY <1>3 DEF TxOther
  <2> QED BY <2>1, <2>2, <2>3 DEF built, delay, flags, history
<1>4. CASE Cnp
  BY <1>0, <1>4 DEF Cnp, built, probe, delay, history
<1>5. CASE Nack
  BY <1>0, <1>5 DEF Nack, built, probe, delay, history
<1>6. CASE Ignored
  BY <1>0, <1>6 DEF Ignored, built, probe, delay, flags, history
<1>7. ASSUME NEW a \in Answers, RttAnswer(a[1], a[2]) PROVE CcInv'
  <2> DEFINE sample == Elapsed(a[1], a[2])
             min == MinBefore(a[2])
             v == ml_cc_forest_infer(forest, RttFeatures(sample, min))
  <2>1. a[1] \in 0 .. Word - 1 /\ a[2] \in 0 .. Word - 1
    BY DEF MlCcAssumption
  <2>2. sample \in 0 .. Word - 1
    BY <2>1, ElapsedInWord
  <2>3. min \in 0 .. Word - 1
    BY <1>0 DEF MinBefore
  <2>4. v \in Int
    BY <2>2, <2>3, VoteIsNumber
  <2>5. cur_rate \in 1 .. MaxRate /\ known
    BY <1>7 DEF RttAnswer
  <2>6. cur_rate' = NewRate(v, sample)
    BY <1>7 DEF RttAnswer, NewRate
  <2>7. NewRate(v, sample) \in 1 .. MaxRate
    BY <2>4, <2>5, AnswerRate
  <2>8. ewma_rtt' \in 0 .. Word - 1
    BY <1>7, <2>2, EwmaInWord DEF RttAnswer
  <2>9. rtt' = sample /\ min_rtt' \in {sample, min}
    BY <1>7 DEF RttAnswer
  <2>10. /\ rtt_meas_psn' = 0 /\ abort_cnt' = 0 /\ rtt_req_to_rtt_sent' = 1
         /\ was_cnp' = 0 /\ was_nack' = 0 /\ rtt_req' = 1
         /\ answers' = answers + 1
         /\ UNCHANGED <<built, start_delay, cnp_streak, known>>
    BY <1>7 DEF RttAnswer
  <2> HIDE DEF sample, min, v
  <2> QED BY <1>0, <2>2, <2>3, <2>5, <2>6, <2>7, <2>8, <2>9, <2>10 DEF built
<1>8. ASSUME NEW p \in Params, SetParams(p) PROVE CcInv'
  BY <1>8 DEF SetParams, probe, delay, flags, history
<1>9. CASE UNCHANGED cc_vars
  BY <1>9 DEF cc_vars, built, probe, delay, flags, history
<1> QED BY <1>1, <1>2, <1>3, <1>4, <1>5, <1>6, <1>7, <1>8, <1>9 DEF CcNext, Tx

LEMMA InvariantIInv ==
  ASSUME VotesAreNumbers PROVE CcSpec => []CcInv
<1>1. CcInit => CcInv
  BY InitIInv, MlCcAssumption
<1>2. CcInv /\ [CcNext]_cc_vars => CcInv'
  BY StepIInv, MlCcAssumption
<1> QED BY <1>1, <1>2, PTL DEF CcSpec

(***************************************************************************)
(* A flow's rate is never 0 again, whatever it meets.                      *)
(***************************************************************************)
THEOREM TypeInvariant ==
  ASSUME VotesAreNumbers PROVE CcSpec => []CcTypeOK
<1>1. CcInv => CcTypeOK
  BY DEF CcInv
<1> QED BY <1>1, InvariantIInv, PTL

-------------------------------------------------------------------------------
(* What an answer does to the rate *)

LEMMA AnswerTaken ==
  ASSUME MlCcAssumption, VotesAreNumbers, CcInv, [CcNext]_cc_vars, answers' # answers
  PROVE  /\ param \in Params /\ cur_rate \in 1 .. MaxRate
         /\ vote' \in Int /\ rtt' \in 0 .. Word - 1
         /\ cur_rate' = NewRate(vote', rtt')
         /\ \E a \in Answers : rtt' = Elapsed(a[1], a[2])
<1>1. PICK a \in Answers : RttAnswer(a[1], a[2])
  BY DEF CcNext, NewFlow, Tx, TxRequestSent, TxOther, Cnp, Nack, Ignored, SetParams,
         cc_vars, history
<1> DEFINE min == MinBefore(a[2])
<1>2. a[1] \in 0 .. Word - 1 /\ a[2] \in 0 .. Word - 1
  BY DEF MlCcAssumption
<1>3. rtt' = Elapsed(a[1], a[2])
  BY <1>1 DEF RttAnswer
<1>4. rtt' \in 0 .. Word - 1
  BY <1>2, <1>3, ElapsedInWord
<1>5. min \in 0 .. Word - 1
  BY DEF MlCcAssumption, CcInv, CcTypeOK, MinBefore
<1>6. vote' = ml_cc_forest_infer(forest, RttFeatures(rtt', min))
  BY <1>1 DEF RttAnswer
<1>7. cur_rate' = NewRate(vote', rtt')
  BY <1>1 DEF RttAnswer, NewRate
<1> HIDE DEF min
<1>8. \A s \in 0 .. Word - 1 : ml_cc_forest_infer(forest, RttFeatures(s, min)) \in Int
  BY <1>5, VoteIsNumber
<1>9. param \in Params /\ cur_rate \in 1 .. MaxRate
  BY <1>1 DEF RttAnswer, CcInv, CcTypeOK
<1> QED BY <1>3, <1>4, <1>6, <1>7, <1>8, <1>9

(***************************************************************************)
(* A vote against the rate never raises it above the floor, a vote for it  *)
(* at most doubles it and, while delays are in bounds, never lowers it.    *)
(***************************************************************************)
THEOREM VoteIsFollowed ==
  ASSUME VotesAreNumbers, \A p \in Params : p.MAX_DELAY < Word \div 2
  PROVE  CcSpec => RateFollowsVote
<1> DEFINE Follows == answers' # answers =>
          /\ cur_rate' <= AtLeast(2 * cur_rate, param.MIN_RATE)
          /\ vote' < 0 => cur_rate' <= AtLeast(cur_rate, param.MIN_RATE)
          /\ vote' >= 0 /\ rtt' < param.MAX_DELAY => cur_rate' >= cur_rate
<1>1. CcInv /\ [CcNext]_cc_vars => [Follows]_cc_vars
  <2> SUFFICES ASSUME CcInv, [CcNext]_cc_vars, answers' # answers
               PROVE  /\ cur_rate' <= AtLeast(2 * cur_rate, param.MIN_RATE)
                      /\ vote' < 0 => cur_rate' <= AtLeast(cur_rate, param.MIN_RATE)
                      /\ vote' >= 0 /\ rtt' < param.MAX_DELAY => cur_rate' >= cur_rate
    OBVIOUS
  <2>1. /\ param \in Params /\ cur_rate \in 1 .. MaxRate
        /\ vote' \in Int /\ rtt' \in 0 .. Word - 1
        /\ cur_rate' = NewRate(vote', rtt')
    BY AnswerTaken, MlCcAssumption
  <2>2. /\ cur_rate' <= AtLeast(2 * cur_rate, param.MIN_RATE)
        /\ vote' <= 0 => cur_rate' <= AtLeast(cur_rate, param.MIN_RATE)
    BY <2>1, AnswerRate, MlCcAssumption
  <2>3. vote' >= 0 /\ rtt' < param.MAX_DELAY => cur_rate' >= cur_rate
    BY <2>1, NetOff, MlCcAssumption
  <2>4. vote' < 0 => vote' <= 0
    BY <2>1
  <2> QED BY <2>2, <2>3, <2>4
<1> QED BY <1>1, InvariantIInv, PTL DEF CcSpec, RateFollowsVote

(***************************************************************************)
(* An answer later than MAX_DELAY never raises the rate, and halves it     *)
(* down to the floor unless the vote is for it.                            *)
(***************************************************************************)
THEOREM NetHolds ==
  ASSUME VotesAreNumbers,
         \A a \in Answers : Elapsed(a[1], a[2]) < Word \div 2
  PROVE  CcSpec => SafetyNetHolds
<1> DEFINE Holds == answers' # answers /\ rtt' >= param.MAX_DELAY =>
          cur_rate' <= AtLeast(param.MIN_RATE,
                               IF vote' > 0 THEN cur_rate ELSE cur_rate \div 2)
<1>1. CcInv /\ [CcNext]_cc_vars => [Holds]_cc_vars
  <2> SUFFICES ASSUME CcInv, [CcNext]_cc_vars, answers' # answers, rtt' >= param.MAX_DELAY
               PROVE  cur_rate' <= AtLeast(param.MIN_RATE,
                               IF vote' > 0 THEN cur_rate ELSE cur_rate \div 2)
    OBVIOUS
  <2>1. /\ param \in Params /\ cur_rate \in 1 .. MaxRate
        /\ vote' \in Int /\ rtt' \in 0 .. Word - 1
        /\ cur_rate' = NewRate(vote', rtt')
        /\ rtt' < Word \div 2
    BY AnswerTaken, MlCcAssumption
  <2> QED BY <2>1, NetOn, MlCcAssumption
<1> QED BY <1>1, InvariantIInv, PTL DEF CcSpec, SafetyNetHolds
===============================================================================
