----------------------------- MODULE DataLemmas -----------------------------
(***************************************************************************)
(* Lemmas about the data the proofs meet: what taking the first element of *)
(* a queue, adding one at its end and cutting it in two do to the set of   *)
(* its elements and to their order; the least and the greatest of a set of *)
(* integers; the sum over a finite set, in whatever order it is taken, and *)
(* with one summand more.                                                  *)
(***************************************************************************)
EXTENDS Integers, FiniteSets, FiniteSetsExt, FiniteSetTheorems,
        SequenceTheorems, WellFoundedInduction, TLAPS

Elems(q) == {q[j] : j \in 1 .. Len(q)}
Distinct(q) == \A i, j \in 1 .. Len(q) : q[i] = q[j] => i = j

LEMMA FirstTaken ==
  ASSUME NEW S, NEW q \in Seq(S), q # <<>>
  PROVE  /\ Len(q) \in Nat \ {0} /\ Len(Tail(q)) = Len(q) - 1
         /\ Head(q) \in S /\ Tail(q) \in Seq(S)
         /\ Len(q) = 1 => Tail(q) = <<>>
         /\ Len(q) # 1 => Tail(q) # <<>>
         /\ Distinct(q) => /\ Distinct(Tail(q)) /\ Head(q) \in Elems(q)
                           /\ Elems(Tail(q)) = Elems(q) \ {Head(q)}
<1>1. /\ Len(q) \in Nat \ {0} /\ Head(q) \in S /\ Tail(q) \in Seq(S)
      /\ Len(Tail(q)) = Len(q) - 1
  BY HeadTailProperties, EmptySeq
<1>2. Len(q) = 1 => Tail(q) = <<>>
  <2>1. Tail(q) # <<>> => Len(Tail(q)) \in Nat \ {0}
    BY <1>1, EmptySeq
  <2> QED BY <1>1, <2>1
<1>3. Len(q) # 1 => Tail(q) # <<>>
  BY <1>1, EmptySeq
<1>4. \A j \in 1 .. Len(q) - 1 : Tail(q)[j] = q[j + 1]
  BY <1>1, HeadTailProperties
<1>5. Head(q) = q[1]
  OBVIOUS
<1>6. ASSUME Distinct(q)
      PROVE  /\ Distinct(Tail(q)) /\ Head(q) \in Elems(q)
             /\ Elems(Tail(q)) = Elems(q) \ {Head(q)}
  <2>1. Distinct(Tail(q))
    BY <1>1, <1>4, <1>6 DEF Distinct
  <2>2. Head(q) \in Elems(q)
    BY <1>1, <1>5 DEF Elems
  <2>3. Elems(Tail(q)) \subseteq Elems(q) \ {Head(q)}
    BY <1>1, <1>4, <1>5, <1>6 DEF Elems, Distinct
  <2>4. ASSUME NEW x \in Elems(q) \ {Head(q)} PROVE x \in Elems(Tail(q))
    <3>1. PICK j \in 1 .. Len(q) : x = q[j]
      BY DEF Elems
    <3>2. j - 1 \in 1 .. Len(q) - 1
      BY <1>1, <1>5, <3>1
    <3>3. x = Tail(q)[j - 1]
      BY <1>1, <1>4, <3>1, <3>2
    <3> QED BY <1>1, <3>2, <3>3 DEF Elems
  <2> QED BY <2>1, <2>2, <2>3, <2>4
<1> QED BY <1>1, <1>2, <1>3, <1>6

LEMMA LastAdded ==
  ASSUME NEW S, NEW q \in Seq(S), NEW x \in S
  PROVE  /\ Len(q) \in Nat
         /\ Append(q, x) \in Seq(S) /\ Len(Append(q, x)) = Len(q) + 1
         /\ Elems(Append(q, x)) = Elems(q) \cup {x}
         /\ Distinct(q) /\ x \notin Elems(q) => Distinct(Append(q, x))
<1> DEFINE r == Append(q, x)
<1>1. /\ Len(q) \in Nat /\ r \in Seq(S) /\ Len(r) = Len(q) + 1
      /\ \A i \in 1 .. Len(q) : r[i] = q[i]
      /\ r[Len(q) + 1] = x
  BY AppendProperties, LenProperties
<1> HIDE DEF r
<1>2. \A i \in 1 .. Len(r) : i \in 1 .. Len(q) \/ i = Len(q) + 1
  BY <1>1
<1>3. \A i \in 1 .. Len(q) : i \in 1 .. Len(r)
  BY <1>1
<1>4. Len(q) + 1 \in 1 .. Len(r)
  BY <1>1
<1>5. Elems(r) = Elems(q) \cup {x}
  BY <1>1, <1>2, <1>3, <1>4 DEF Elems
<1>6. Distinct(q) /\ x \notin Elems(q) => Distinct(r)
  BY <1>1, <1>2 DEF Elems, Distinct
<1> QED BY <1>1, <1>5, <1>6 DEF r

LEMMA CutInTwo ==
  ASSUME NEW S, NEW q \in Seq(S), NEW n \in 0 .. Len(q)
  PROVE  /\ SubSeq(q, 1, n) \in Seq(S) /\ Len(SubSeq(q, 1, n)) = n
         /\ n # 0 => SubSeq(q, 1, n) # <<>>
         /\ SubSeq(q, n + 1, Len(q)) \in Seq(S)
         /\ Len(SubSeq(q, n + 1, Len(q))) = Len(q) - n
         /\ Elems(q) = Elems(SubSeq(q, 1, n)) \cup Elems(SubSeq(q, n + 1, Len(q)))
         /\ Distinct(q) =>
               /\ Distinct(SubSeq(q, 1, n)) /\ Distinct(SubSeq(q, n + 1, Len(q)))
               /\ Elems(SubSeq(q, 1, n)) \cap Elems(SubSeq(q, n + 1, Len(q))) = {}
<1> DEFINE a == SubSeq(q, 1, n)
           b == SubSeq(q, n + 1, Len(q))
<1>1. Len(q) \in Nat /\ \A i \in 1 .. Len(q) : q[i] \in S
  BY LenProperties, ElementOfSeq
<1>2. /\ a \in Seq(S) /\ Len(a) = n
      /\ \A i \in 1 .. n : a[i] = q[i]
  BY <1>1, SubSeqProperties
<1>3. /\ b \in Seq(S) /\ Len(b) = Len(q) - n
      /\ \A i \in 1 .. Len(q) - n : b[i] = q[i + n]
  <2>1. n + 1 \in Int /\ \A i \in n + 1 .. Len(q) : q[i] \in S
    BY <1>1
  <2>2. /\ b \in Seq(S)
        /\ Len(b) = IF n + 1 <= Len(q) THEN Len(q) - (n + 1) + 1 ELSE 0
        /\ \A i \in 1 .. Len(q) - (n + 1) + 1 : b[i] = q[n + 1 + i - 1]
    BY <1>1, <2>1, SubSeqProperties
  <2> QED BY <1>1, <2>2
<1> HIDE DEF a, b
<1>4. n # 0 => a # <<>>
  BY <1>2, EmptySeq
<1>5. Elems(a) \subseteq Elems(q)
  BY <1>1, <1>2 DEF Elems
<1>6. Elems(b) \subseteq Elems(q)
  <2>1. \A j \in 1 .. Len(q) - n : j + n \in 1 .. Len(q)
    BY <1>1
  <2> QED BY <1>1, <1>3, <2>1 DEF Elems
<1>7. ASSUME NEW x \in Elems(q) PROVE x \in Elems(a) \/ x \in Elems(b)
  <2>1. PICK j \in 1 .. Len(q) : x = q[j]
    BY DEF Elems
  <2>2. CASE j <= n
    BY <1>1, <1>2, <2>1, <2>2 DEF Elems
  <2>3. CASE j > n
    <3>1. j - n \in 1 .. Len(q) - n
      BY <1>1, <2>3
    <3>2. b[j - n] = x
      BY <1>1, <1>3, <2>1, <3>1
    <3> QED BY <1>3, <3>1, <3>2 DEF Elems
  <2> QED BY <1>1, <2>2, <2>3
<1>8. ASSUME Distinct(q) PROVE Distinct(a) /\ Distinct(b) /\ Elems(a) \cap Elems(b) = {}
  <2>1. Distinct(a)
    BY <1>1, <1>2, <1>8 DEF Distinct
  <2>2. Distinct(b)
    <3> SUFFICES ASSUME NEW i \in 1 .. Len(q) - n, NEW j \in 1 .. Len(q) - n, b[i] = b[j]
                 PROVE  i = j
      BY <1>3 DEF Distinct
    <3>1. q[i + n] = q[j + n]
      BY <1>3
    <3>2. i + n \in 1 .. Len(q) /\ j + n \in 1 .. Len(q)
      BY <1>1
    <3>3. i + n = j + n
      BY <1>8, <3>1, <3>2 DEF Distinct
    <3> QED BY <3>3
  <2>3. ASSUME NEW i \in 1 .. n, NEW j \in 1 .. Len(q) - n PROVE a[i] # b[j]
    <3>1. i \in 1 .. Len(q) /\ j + n \in 1 .. Len(q) /\ i # j + n
      BY <1>1
    <3>2. a[i] = q[i] /\ b[j] = q[j + n]
      BY <1>2, <1>3
    <3> QED BY <1>8, <3>1, <3>2 DEF Distinct
  <2>4. Elems(a) \cap Elems(b) = {}
    BY <1>2, <1>3, <2>3 DEF Elems
  <2> QED BY <2>1, <2>2, <2>4
<1> QED BY <1>2, <1>3, <1>4, <1>5, <1>6, <1>7, <1>8 DEF a, b

LEMMA ElemsInSet ==
  ASSUME NEW S, NEW q \in Seq(S) PROVE Elems(q) \subseteq S /\ Len(q) \in Nat
BY ElementOfSeq, LenProperties DEF Elems

LEMMA Joined ==
  ASSUME NEW S, NEW a \in Seq(S), NEW b \in Seq(S)
  PROVE  /\ a \o b \in Seq(S)
         /\ Elems(a \o b) = Elems(a) \cup Elems(b)
         /\ Distinct(a) /\ Distinct(b) /\ Elems(a) \cap Elems(b) = {}
              => Distinct(a \o b)
<1> DEFINE c == a \o b
<1>1. /\ c \in Seq(S) /\ Len(a) \in Nat /\ Len(b) \in Nat /\ Len(c) = Len(a) + Len(b)
      /\ \A i \in 1 .. Len(a) + Len(b) : c[i] = IF i <= Len(a) THEN a[i] ELSE b[i - Len(a)]
  BY ConcatProperties, LenProperties
<1> HIDE DEF c
<1>2. \A i \in 1 .. Len(a) : i \in 1 .. Len(c) /\ c[i] = a[i]
  BY <1>1
<1>3. \A i \in 1 .. Len(b) : i + Len(a) \in 1 .. Len(c) /\ c[i + Len(a)] = b[i]
  <2> SUFFICES ASSUME NEW i \in 1 .. Len(b)
               PROVE  i + Len(a) \in 1 .. Len(c) /\ c[i + Len(a)] = b[i]
    OBVIOUS
  <2>1. /\ i + Len(a) \in 1 .. Len(a) + Len(b)
        /\ ~(i + Len(a) <= Len(a)) /\ (i + Len(a)) - Len(a) = i
    BY <1>1
  <2> QED BY <1>1, <2>1
<1>4. \A i \in 1 .. Len(c) : \/ i \in 1 .. Len(a) /\ c[i] = a[i]
                             \/ i - Len(a) \in 1 .. Len(b) /\ c[i] = b[i - Len(a)]
  BY <1>1
<1>5. Elems(c) = Elems(a) \cup Elems(b)
  <2>1. Elems(c) \subseteq Elems(a) \cup Elems(b)
    BY <1>4 DEF Elems
  <2>2. Elems(a) \subseteq Elems(c)
    BY <1>2 DEF Elems
  <2>3. Elems(b) \subseteq Elems(c)
    BY <1>3 DEF Elems
  <2> QED BY <2>1, <2>2, <2>3
<1>6. ASSUME Distinct(a), Distinct(b), Elems(a) \cap Elems(b) = {}
      PROVE  Distinct(c)
  <2>1. \A i \in 1 .. Len(a) : \A j \in 1 .. Len(b) : a[i] # b[j]
    BY <1>6 DEF Elems
  <2> SUFFICES ASSUME NEW i \in 1 .. Len(c), NEW j \in 1 .. Len(c), c[i] = c[j]
               PROVE  i = j
    BY DEF Distinct
  <2>2. CASE i \in 1 .. Len(a) /\ c[i] = a[i]
    <3>1. j \in 1 .. Len(a) /\ c[j] = a[j]
      BY <1>4, <2>1, <2>2
    <3> QED BY <1>6, <2>2, <3>1 DEF Distinct
  <2>3. CASE i - Len(a) \in 1 .. Len(b) /\ c[i] = b[i - Len(a)]
    <3>1. j - Len(a) \in 1 .. Len(b) /\ c[j] = b[j - Len(a)]
      BY <1>4, <2>1, <2>3
    <3>2. i - Len(a) = j - Len(a)
      BY <1>6, <2>3, <3>1 DEF Distinct
    <3> QED BY <1>1, <3>2
  <2> QED BY <1>4, <2>2, <2>3
<1> QED BY <1>1, <1>5, <1>6 DEF c

\* How often an element occurs in a queue without repetition.
LEMMA OccursOnce ==
  ASSUME NEW S, NEW q \in Seq(S), Distinct(q), NEW s
  PROVE  /\ IsFiniteSet({j \in DOMAIN q : q[j] = s})
         /\ Cardinality({j \in DOMAIN q : q[j] = s}) = IF s \in Elems(q) THEN 1 ELSE 0
<1> DEFINE D == {j \in DOMAIN q : q[j] = s}
<1>1. DOMAIN q = 1 .. Len(q)
  BY LenProperties
<1>2. CASE s \in Elems(q)
  <2>1. PICK j \in 1 .. Len(q) : q[j] = s
    BY <1>2 DEF Elems
  <2>2. D = {j}
    BY <1>1, <2>1 DEF Distinct
  <2> HIDE DEF D
  <2>3. IsFiniteSet(D) /\ Cardinality(D) = 1
    BY <2>2, FS_Singleton
  <2> QED BY <1>2, <2>3 DEF D
<1>3. CASE s \notin Elems(q)
  <2>1. D = {}
    BY <1>1, <1>3 DEF Elems
  <2> HIDE DEF D
  <2>2. IsFiniteSet(D) /\ Cardinality(D) = 0
    BY <2>1, FS_EmptySet
  <2> QED BY <1>3, <2>2 DEF D
<1> QED BY <1>2, <1>3

\* The rest of a queue from its i-th element on is taken one by one.
LEMMA RestTaken ==
  ASSUME NEW S, NEW q \in Seq(S), NEW i \in 0 .. Len(q), i < Len(q)
  PROVE  /\ q[i + 1] \in S
         /\ SubSeq(q, i + 1, Len(q)) \in Seq(S)
         /\ SubSeq(q, i + 2, Len(q)) \in Seq(S)
         /\ Distinct(SubSeq(q, i + 1, Len(q))) =>
               /\ Distinct(SubSeq(q, i + 2, Len(q)))
               /\ q[i + 1] \in Elems(SubSeq(q, i + 1, Len(q)))
               /\ Elems(SubSeq(q, i + 2, Len(q)))
                    = Elems(SubSeq(q, i + 1, Len(q))) \ {q[i + 1]}
<1> DEFINE r == SubSeq(q, i + 1, Len(q))
<1>1. Len(q) \in Nat /\ \A j \in 1 .. Len(q) : q[j] \in S
  BY LenProperties, ElementOfSeq
<1>2. i + 1 \in 1 .. Len(q) /\ Len(q) \in i + 1 .. Len(q) /\ (i + 1) + 1 = i + 2
  BY <1>1
<1>3. q[i + 1] \in S
  BY <1>1, <1>2
<1>4. Head(r) = q[i + 1] /\ Tail(r) = SubSeq(q, i + 2, Len(q))
  BY <1>2, HeadTailOfSubSeq
<1>5. /\ r \in Seq(S)
      /\ Len(r) = IF i + 1 <= Len(q) THEN Len(q) - (i + 1) + 1 ELSE 0
  <2>1. \A j \in i + 1 .. Len(q) : q[j] \in S
    BY <1>1, <1>2
  <2> QED BY <1>1, <1>2, <2>1, SubSeqProperties
<1>6. Len(r) # 0
  BY <1>1, <1>2, <1>5
<1> HIDE DEF r
<1>7. r # <<>>
  BY <1>6, EmptySeq
<1>8. /\ Tail(r) \in Seq(S)
      /\ Distinct(r) => /\ Distinct(Tail(r)) /\ Head(r) \in Elems(r)
                        /\ Elems(Tail(r)) = Elems(r) \ {Head(r)}
  BY <1>5, <1>7, FirstTaken
<1> QED BY <1>3, <1>4, <1>5, <1>8 DEF r

-------------------------------------------------------------------------------
(* Queues in the order of a key *)

Sorted(q, f) == \A j, k \in 1 .. Len(q) : j < k => f[q[j]] < f[q[k]]
Before(A, B, f) == \A x \in A, y \in B : f[x] < f[y]

LEMMA SortedBySame ==
  ASSUME NEW S, NEW q \in Seq(S), NEW f, NEW g, Sorted(q, f),
         \A x \in Elems(q) : g[x] = f[x]
  PROVE  Sorted(q, g)
BY DEF Sorted, Elems

LEMMA SortedFirstTaken ==
  ASSUME NEW S, NEW q \in Seq(S), q # <<>>, NEW f, Sorted(q, f)
  PROVE  Sorted(Tail(q), f) /\ Before({Head(q)}, Elems(Tail(q)), f)
<1>1. /\ Len(q) \in Nat \ {0} /\ Len(Tail(q)) = Len(q) - 1 /\ Head(q) = q[1]
      /\ \A j \in 1 .. Len(q) - 1 : Tail(q)[j] = q[j + 1]
  BY HeadTailProperties, EmptySeq
<1>2. \A j \in 1 .. Len(q) - 1 : j + 1 \in 1 .. Len(q) /\ 1 < j + 1
  BY <1>1
<1>3. 1 \in 1 .. Len(q)
  BY <1>1
<1>4. Before({Head(q)}, Elems(Tail(q)), f)
  BY <1>1, <1>2, <1>3 DEF Sorted, Before, Elems
<1>5. Sorted(Tail(q), f)
  <2> SUFFICES ASSUME NEW j \in 1 .. Len(q) - 1, NEW k \in 1 .. Len(q) - 1, j < k
               PROVE  f[Tail(q)[j]] < f[Tail(q)[k]]
    BY <1>1 DEF Sorted
  <2>1. j + 1 \in 1 .. Len(q) /\ k + 1 \in 1 .. Len(q) /\ j + 1 < k + 1
    BY <1>1
  <2>2. f[q[j + 1]] < f[q[k + 1]]
    BY <2>1 DEF Sorted
  <2> QED BY <1>1, <2>2
<1> QED BY <1>4, <1>5

LEMMA SortedLastAdded ==
  ASSUME NEW S, NEW q \in Seq(S), NEW x \in S, NEW f, Sorted(q, f),
         Before(Elems(q), {x}, f)
  PROVE  Sorted(Append(q, x), f)
<1> DEFINE r == Append(q, x)
<1>1. /\ Len(q) \in Nat /\ Len(r) = Len(q) + 1
      /\ \A j \in 1 .. Len(q) : r[j] = q[j]
      /\ r[Len(q) + 1] = x
  BY AppendProperties, LenProperties
<1> HIDE DEF r
<1> SUFFICES ASSUME NEW j \in 1 .. Len(q) + 1, NEW k \in 1 .. Len(q) + 1, j < k
             PROVE  f[r[j]] < f[r[k]]
  BY <1>1 DEF Sorted, r
<1>2. j \in 1 .. Len(q) /\ r[j] = q[j]
  BY <1>1
<1>3. CASE k = Len(q) + 1
  BY <1>1, <1>2, <1>3 DEF Before, Elems
<1>4. CASE k # Len(q) + 1
  <2>1. k \in 1 .. Len(q) /\ r[k] = q[k]
    BY <1>1, <1>4
  <2> QED BY <1>2, <2>1 DEF Sorted
<1> QED BY <1>3, <1>4

LEMMA SortedCutInTwo ==
  ASSUME NEW S, NEW q \in Seq(S), NEW n \in 0 .. Len(q), NEW f, Sorted(q, f)
  PROVE  /\ Sorted(SubSeq(q, 1, n), f) /\ Sorted(SubSeq(q, n + 1, Len(q)), f)
         /\ Before(Elems(SubSeq(q, 1, n)), Elems(SubSeq(q, n + 1, Len(q))), f)
<1> DEFINE a == SubSeq(q, 1, n)
           b == SubSeq(q, n + 1, Len(q))
<1>1. Len(q) \in Nat /\ \A j \in 1 .. Len(q) : q[j] \in S
  BY LenProperties, ElementOfSeq
<1>2. Len(a) = n /\ \A j \in 1 .. n : a[j] = q[j]
  BY <1>1, SubSeqProperties
<1>3. /\ Len(b) = Len(q) - n
      /\ \A j \in 1 .. Len(q) - n : b[j] = q[j + n]
  <2>1. n + 1 \in Int /\ \A j \in n + 1 .. Len(q) : q[j] \in S
    BY <1>1
  <2>2. /\ Len(b) = IF n + 1 <= Len(q) THEN Len(q) - (n + 1) + 1 ELSE 0
        /\ \A j \in 1 .. Len(q) - (n + 1) + 1 : b[j] = q[n + 1 + j - 1]
    BY <1>1, <2>1, SubSeqProperties
  <2> QED BY <1>1, <2>2
<1> HIDE DEF a, b
<1>4. \A j \in 1 .. n : j \in 1 .. Len(q)
  BY <1>1
<1>5. \A j \in 1 .. Len(q) - n : j + n \in 1 .. Len(q)
  BY <1>1
<1>6. Sorted(a, f)
  BY <1>2, <1>4 DEF Sorted
<1>7. Sorted(b, f)
  <2> SUFFICES ASSUME NEW j \in 1 .. Len(q) - n, NEW k \in 1 .. Len(q) - n, j < k
               PROVE  f[b[j]] < f[b[k]]
    BY <1>3 DEF Sorted
  <2>1. j + n < k + n
    OBVIOUS
  <2>2. f[q[j + n]] < f[q[k + n]]
    BY <1>5, <2>1 DEF Sorted
  <2> QED BY <1>3, <2>2
<1>8. Before(Elems(a), Elems(b), f)
  <2> SUFFICES ASSUME NEW j \in 1 .. n, NEW k \in 1 .. Len(q) - n
               PROVE  f[a[j]] < f[b[k]]
    BY <1>2, <1>3 DEF Before, Elems
  <2>1. j < k + n
    BY <1>1
  <2>2. f[q[j]] < f[q[k + n]]
    BY <1>4, <1>5, <2>1 DEF Sorted
  <2> QED BY <1>2, <1>3, <2>2
<1> QED BY <1>6, <1>7, <1>8 DEF a, b

LEMMA SortedJoined ==
  ASSUME NEW S, NEW a \in Seq(S), NEW b \in Seq(S), NEW f, Sorted(a, f), Sorted(b, f),
         Before(Elems(a), Elems(b), f)
  PROVE  Sorted(a \o b, f)
<1> DEFINE c == a \o b
<1>1. /\ Len(a) \in Nat /\ Len(b) \in Nat /\ Len(c) = Len(a) + Len(b)
      /\ \A j \in 1 .. Len(a) + Len(b) : c[j] = IF j <= Len(a) THEN a[j] ELSE b[j - Len(a)]
  BY ConcatProperties, LenProperties
<1> HIDE DEF c
<1> SUFFICES ASSUME NEW j \in 1 .. Len(c), NEW k \in 1 .. Len(c), j < k
             PROVE  f[c[j]] < f[c[k]]
  BY DEF Sorted, c
<1>2. CASE k <= Len(a)
  <2>1. j \in 1 .. Len(a) /\ k \in 1 .. Len(a) /\ c[j] = a[j] /\ c[k] = a[k]
    BY <1>1, <1>2
  <2> QED BY <2>1 DEF Sorted
<1>3. CASE ~(k <= Len(a)) /\ j <= Len(a)
  <2>1. /\ j \in 1 .. Len(a) /\ k - Len(a) \in 1 .. Len(b)
        /\ c[j] = a[j] /\ c[k] = b[k - Len(a)]
    BY <1>1, <1>3
  <2> QED BY <2>1 DEF Before, Elems
<1>4. CASE ~(k <= Len(a)) /\ ~(j <= Len(a))
  <2>1. /\ j - Len(a) \in 1 .. Len(b) /\ k - Len(a) \in 1 .. Len(b)
        /\ c[j] = b[j - Len(a)] /\ c[k] = b[k - Len(a)]
        /\ j - Len(a) < k - Len(a)
    BY <1>1, <1>4
  <2> QED BY <2>1 DEF Sorted
<1> QED BY <1>2, <1>3, <1>4

LEMMA SortedRestTaken ==
  ASSUME NEW S, NEW q \in Seq(S), NEW i \in 0 .. Len(q), i < Len(q), NEW f,
         Sorted(SubSeq(q, i + 1, Len(q)), f)
  PROVE  /\ Sorted(SubSeq(q, i + 2, Len(q)), f)
         /\ Before({q[i + 1]}, Elems(SubSeq(q, i + 2, Len(q))), f)
<1> DEFINE r == SubSeq(q, i + 1, Len(q))
<1>1. Len(q) \in Nat /\ \A j \in 1 .. Len(q) : q[j] \in S
  BY LenProperties, ElementOfSeq
<1>2. i + 1 \in 1 .. Len(q) /\ Len(q) \in i + 1 .. Len(q) /\ (i + 1) + 1 = i + 2
  BY <1>1
<1>3. Head(r) = q[i + 1] /\ Tail(r) = SubSeq(q, i + 2, Len(q))
  BY <1>2, HeadTailOfSubSeq
<1>4. /\ r \in Seq(S)
      /\ Len(r) = IF i + 1 <= Len(q) THEN Len(q) - (i + 1) + 1 ELSE 0
  <2>1. \A j \in i + 1 .. Len(q) : q[j] \in S
    BY <1>1, <1>2
  <2> QED BY <1>1, <1>2, <2>1, SubSeqProperties
<1>5. Len(r) # 0
  BY <1>1, <1>2, <1>4
<1> HIDE DEF r
<1>6. r # <<>> /\ Sorted(r, f)
  BY <1>5, EmptySeq DEF r
<1>7. Sorted(Tail(r), f) /\ Before({Head(r)}, Elems(Tail(r)), f)
  BY <1>4, <1>6, SortedFirstTaken
<1> QED BY <1>3, <1>7

-----------------------------------------------------------------------------
(* Induction over the natural numbers, for a set of them: a smallest one   *)
(* outside the set is not 0, and the one below it is inside.               *)

LEMMA Smallest ==
  ASSUME NEW T \in SUBSET Nat, T # {}
  PROVE  \E m \in T : \A n \in T : m <= n
<1> DEFINE Less == {p \in Nat \X Nat : p[1] < p[2]}
<1>1. IsWellFoundedOn(Less, Nat)
  BY NatLessThanWellFounded, Zenon DEF OpToRel
<1>2. PICK m \in T : \A n \in T : <<n, m>> \notin Less
  <2> HIDE DEF Less
  <2> QED BY <1>1, WFMin, Zenon
<1>3. ASSUME NEW n \in T PROVE m <= n
  <2>1. m \in Nat /\ n \in Nat
    OBVIOUS
  <2>2. ~(n < m)
    BY <1>2, <2>1
  <2> QED BY <2>1, <2>2
<1> QED BY <1>3

LEMMA Inductive ==
  ASSUME NEW T \in SUBSET Nat, 0 \in T, \A n \in T : n + 1 \in T
  PROVE  T = Nat
<1> SUFFICES ASSUME Nat \ T # {} PROVE FALSE
  OBVIOUS
<1>1. PICK m \in Nat \ T : \A n \in Nat \ T : m <= n
  <2>1. Nat \ T \in SUBSET Nat
    OBVIOUS
  <2> QED BY <2>1, Smallest
<1>2. m - 1 \in T
  BY <1>1
<1>3. (m - 1) + 1 \in T
  BY <1>2
<1> QED BY <1>3

-----------------------------------------------------------------------------
(* The least and the greatest element of a bounded set of integers. *)

LEMMA MinIs ==
  ASSUME NEW V \in SUBSET Int, V # {}, NEW lo \in Int, \A v \in V : lo <= v
  PROVE  Min(V) \in V /\ \A v \in V : Min(V) <= v
<1> DEFINE T == {v - lo : v \in V}
<1>1. T \subseteq Nat /\ T # {}
  <2>1. \A v \in V : v - lo \in Nat
    OBVIOUS
  <2>2. PICK v \in V : TRUE
    OBVIOUS
  <2>3. v - lo \in T
    BY <2>2
  <2> QED BY <2>1, <2>3
<1>2. PICK m \in T : \A n \in T : m <= n
  <2> HIDE DEF T
  <2> QED BY <1>1, Smallest
<1>3. PICK x \in V : m = x - lo
  <2>1. \A n \in T : \E v \in V : n = v - lo
    OBVIOUS
  <2> HIDE DEF T
  <2> QED BY <2>1
<1>4. \A v \in V : x <= v
  <2> TAKE v \in V
  <2>1. m <= v - lo
    BY <1>2
  <2> QED BY <1>3, <2>1
<1> QED BY <1>3, <1>4 DEF Min

LEMMA MaxIs ==
  ASSUME NEW V \in SUBSET Int, V # {}, NEW hi \in Int, \A v \in V : v <= hi
  PROVE  Max(V) \in V /\ \A v \in V : v <= Max(V)
<1> DEFINE W == {-v : v \in V}
<1>1. W \in SUBSET Int /\ W # {} /\ -hi \in Int /\ \A w \in W : -hi <= w
  <2>1. \A v \in V : v \in Int /\ -v \in Int /\ -hi <= -v
    OBVIOUS
  <2>2. PICK v \in V : TRUE
    OBVIOUS
  <2>3. -v \in W
    BY <2>2
  <2> QED BY <2>1, <2>3
<1>2. Min(W) \in W /\ \A w \in W : Min(W) <= w
  <2> HIDE DEF W
  <2> QED BY <1>1, MinIs
<1>3. PICK x \in V : Min(W) = -x
  BY <1>2
<1>4. \A v \in V : x >= v
  <2> TAKE v \in V
  <2>1. -v \in W
    OBVIOUS
  <2>2. Min(W) <= -v
    BY <1>2, <2>1
  <2> QED BY <1>3, <2>2
<1>5. PICK y \in V : y = Max(V) /\ \A v \in V : y >= v
  BY <1>4 DEF Max
<1> QED BY <1>5

-----------------------------------------------------------------------------
(* The sum over a finite set is a function on its subsets, each step of    *)
(* which takes one element away.  That there is such a function, and what  *)
(* bounds it, are shown by induction on the size of the subset.            *)

Pick(s) == CHOOSE x \in s : TRUE
SumStep(g, f, s) == IF s = {} THEN 0 ELSE f[Pick(s)] + g[s \ {Pick(s)}]
IsSum(g, f, S) == g = [s \in SUBSET S |-> SumStep(g, f, s)]

SumOver(f, S) == MapThenSumSet(LAMBDA j : f[j], S)

LEMMA SumIs ==
  ASSUME NEW f, NEW S
  PROVE  SumOver(f, S) = (CHOOSE g : IsSum(g, f, S))[S]
BY DEF SumOver, MapThenSumSet, MapThenFoldSet, IsSum, SumStep, Pick

LEMMA SubsetSize ==
  ASSUME NEW S, IsFiniteSet(S), NEW s \in SUBSET S
  PROVE  /\ IsFiniteSet(s) /\ Cardinality(s) \in Nat /\ Cardinality(S) \in Nat
         /\ Cardinality(s) <= Cardinality(S)
         /\ Cardinality(s) = 0 => s = {}
         /\ s # {} => /\ Pick(s) \in s
                      /\ s \ {Pick(s)} \in SUBSET S
                      /\ Cardinality(s) # 0
                      /\ Cardinality(s \ {Pick(s)}) = Cardinality(s) - 1
<1>1. /\ IsFiniteSet(s) /\ Cardinality(s) \in Nat /\ Cardinality(S) \in Nat
      /\ Cardinality(s) <= Cardinality(S)
  BY FS_Subset, FS_CardinalityType
<1>2. Cardinality(s) = 0 <=> s = {}
  BY <1>1, FS_EmptySet
<1>3. ASSUME s # {}
      PROVE  /\ Pick(s) \in s /\ s \ {Pick(s)} \in SUBSET S
             /\ Cardinality(s \ {Pick(s)}) = Cardinality(s) - 1
  <2>1. Pick(s) \in s
    BY <1>3 DEF Pick
  <2>2. s \ {Pick(s)} \in SUBSET S
    OBVIOUS
  <2>3. Cardinality(s \ {Pick(s)})
          = IF Pick(s) \in s THEN Cardinality(s) - 1 ELSE Cardinality(s)
    BY <1>1, FS_RemoveElement
  <2> QED BY <2>1, <2>2, <2>3
<1> QED BY <1>1, <1>2, <1>3

\* The subsets of S with at most n elements.
Upto(S, n) == {s \in SUBSET S : Cardinality(s) <= n}

LEMMA UptoMore ==
  ASSUME NEW S, IsFiniteSet(S), NEW n \in Nat
  PROVE  /\ Upto(S, n) \subseteq Upto(S, n + 1)
         /\ Upto(S, Cardinality(S)) = SUBSET S
         /\ \A s \in Upto(S, n + 1) : s # {} => s \ {Pick(s)} \in Upto(S, n)
         /\ \A s \in Upto(S, 0) : s = {}
<1>1. ASSUME NEW m \in Nat, NEW s \in Upto(S, m)
      PROVE  /\ s \in SUBSET S /\ Cardinality(s) \in Nat /\ Cardinality(s) <= m
             /\ Cardinality(s) = 0 => s = {}
  <2>1. s \in SUBSET S /\ Cardinality(s) <= m
    BY DEF Upto
  <2> QED BY <2>1, SubsetSize
<1>2. ASSUME NEW s \in Upto(S, n) PROVE s \in Upto(S, n + 1)
  <2>1. s \in SUBSET S /\ Cardinality(s) \in Nat /\ Cardinality(s) <= n
    BY <1>1
  <2>2. Cardinality(s) <= n + 1
    BY <2>1
  <2> QED BY <2>1, <2>2 DEF Upto
<1>3. ASSUME NEW s \in Upto(S, n + 1), s # {}
      PROVE  s \ {Pick(s)} \in Upto(S, n)
  <2>1. s \in SUBSET S /\ Cardinality(s) \in Nat /\ Cardinality(s) <= n + 1
    <3>1. n + 1 \in Nat
      OBVIOUS
    <3> QED BY <1>1, <3>1
  <2>2. /\ s \ {Pick(s)} \in SUBSET S
        /\ Cardinality(s \ {Pick(s)}) = Cardinality(s) - 1
    BY <1>3, <2>1, SubsetSize
  <2>3. Cardinality(s \ {Pick(s)}) <= n
    BY <2>1, <2>2
  <2> QED BY <2>2, <2>3 DEF Upto
<1>4. ASSUME NEW s \in SUBSET S PROVE s \in Upto(S, Cardinality(S))
  <2>1. Cardinality(s) <= Cardinality(S)
    BY SubsetSize
  <2> QED BY <2>1 DEF Upto
<1>5. ASSUME NEW s \in Upto(S, 0) PROVE s = {}
  <2>1. Cardinality(s) \in Nat /\ Cardinality(s) <= 0
    BY <1>1
  <2>2. Cardinality(s) = 0
    BY <2>1
  <2> QED BY <1>1, <2>2
<1>6. Upto(S, Cardinality(S)) \subseteq SUBSET S
  BY DEF Upto
<1> QED BY <1>2, <1>3, <1>4, <1>5, <1>6

SumUpto(g, f, S, n) == g = [s \in Upto(S, n) |-> SumStep(g, f, s)]

LEMMA SumExists ==
  ASSUME NEW S, IsFiniteSet(S), NEW f
  PROVE  \E g : IsSum(g, f, S)
<1> DEFINE T == {n \in Nat : \E g : SumUpto(g, f, S, n)}
<1>1. 0 \in T
  <2> DEFINE g == [s \in Upto(S, 0) |-> 0]
  <2>1. \A s \in Upto(S, 0) : SumStep(g, f, s) = 0
    BY UptoMore DEF SumStep
  <2>2. g = [s \in Upto(S, 0) |-> SumStep(g, f, s)]
    BY <2>1
  <2> HIDE DEF g
  <2>3. SumUpto(g, f, S, 0)
    BY <2>2 DEF SumUpto
  <2> QED BY <2>3
<1>2. ASSUME NEW n \in T PROVE n + 1 \in T
  <2>1. PICK g : SumUpto(g, f, S, n)
    BY <1>2
  <2>2. g = [s \in Upto(S, n) |-> SumStep(g, f, s)]
    BY <2>1 DEF SumUpto
  <2> DEFINE h == [s \in Upto(S, n + 1) |-> SumStep(g, f, s)]
  <2>3. /\ Upto(S, n) \subseteq Upto(S, n + 1)
        /\ \A s \in Upto(S, n + 1) : s # {} => s \ {Pick(s)} \in Upto(S, n)
    BY UptoMore
  <2>4. \A s \in Upto(S, n) : h[s] = g[s]
    BY <2>2, <2>3
  <2> DEFINE a(s) == SumStep(g, f, s)
             b(s) == SumStep(h, f, s)
  <2>5. \A s \in Upto(S, n + 1) : a(s) = b(s)
    <3> HIDE DEF h
    <3> QED BY <2>3, <2>4 DEF SumStep
  <2>6. h = [s \in Upto(S, n + 1) |-> a(s)]
    OBVIOUS
  <2> HIDE DEF a, b
  <2>7. h = [s \in Upto(S, n + 1) |-> b(s)]
    <3> HIDE DEF h
    <3> QED BY <2>5, <2>6
  <2> HIDE DEF h
  <2>8. SumUpto(h, f, S, n + 1)
    BY <2>7 DEF SumUpto, b
  <2> QED BY <2>8
<1>3. T = Nat
  <2>1. T \subseteq Nat
    OBVIOUS
  <2> HIDE DEF T
  <2> QED BY <1>1, <1>2, <2>1, Inductive
<1>4. Cardinality(S) \in Nat
  BY FS_CardinalityType
<1>5. PICK g : SumUpto(g, f, S, Cardinality(S))
  BY <1>3, <1>4
<1>6. Upto(S, Cardinality(S)) = SUBSET S
  BY <1>4, UptoMore
<1> QED BY <1>5, <1>6 DEF IsSum, SumUpto

\* A sum of integers lies between as many times the least and the greatest.
LEMMA SumBounds ==
  ASSUME NEW S, IsFiniteSet(S), NEW f, NEW lo \in Int, NEW hi \in Int,
         \A x \in S : f[x] \in lo .. hi
  PROVE  /\ SumOver(f, S) \in Int
         /\ lo * Cardinality(S) <= SumOver(f, S)
         /\ SumOver(f, S) <= hi * Cardinality(S)
<1> DEFINE g == CHOOSE h : IsSum(h, f, S)
<1>1. IsSum(g, f, S)
  BY SumExists
<1> HIDE DEF g
<1>2. \A s \in SUBSET S : g[s] = SumStep(g, f, s)
  BY <1>1 DEF IsSum
<1> DEFINE Good(s) == /\ g[s] \in Int /\ lo * Cardinality(s) <= g[s]
                      /\ g[s] <= hi * Cardinality(s)
           T == {n \in Nat : \A s \in Upto(S, n) : Good(s)}
<1>3. 0 \in T
  <2>1. ASSUME NEW s \in Upto(S, 0) PROVE Good(s)
    <3>1. s = {} /\ s \in SUBSET S
      BY UptoMore DEF Upto
    <3>2. g[s] = 0 /\ Cardinality(s) = 0
      BY <1>2, <3>1, FS_EmptySet DEF SumStep
    <3> QED BY <3>2
  <2> QED BY <2>1
<1>4. ASSUME NEW n \in T PROVE n + 1 \in T
  <2>1. ASSUME NEW s \in Upto(S, n + 1) PROVE Good(s)
    <3>0. s \in SUBSET S
      BY DEF Upto
    <3>1. CASE s = {}
      <4>1. g[s] = 0 /\ Cardinality(s) = 0
        BY <1>2, <3>0, <3>1, FS_EmptySet DEF SumStep
      <4> QED BY <4>1
    <3>2. CASE s # {}
      <4> DEFINE r == s \ {Pick(s)}
                 x == Pick(s)
                 c == Cardinality(r)
      <4>1. /\ x \in s /\ r \in Upto(S, n) /\ Cardinality(s) \in Nat
            /\ c = Cardinality(s) - 1 /\ Cardinality(s) # 0
        BY <3>0, <3>2, UptoMore, SubsetSize
      <4>2. g[s] = f[x] + g[r]
        BY <1>2, <3>0, <3>2 DEF SumStep
      <4>3. Good(r)
        BY <4>1
      <4>4. f[x] \in lo .. hi /\ x \in S
        BY <3>0, <4>1
      <4>5. c \in Nat /\ Cardinality(s) = c + 1
        BY <4>1
      <4>6. /\ lo * (c + 1) = lo * c + lo
            /\ hi * (c + 1) = hi * c + hi
            /\ lo * c \in Int /\ hi * c \in Int
        <5> HIDE DEF c
        <5> QED BY <4>5
      <4> HIDE DEF r, x, c
      <4>7. /\ g[r] \in Int /\ lo * c <= g[r] /\ g[r] <= hi * c
        BY <4>3 DEF c
      <4> QED BY <4>2, <4>4, <4>5, <4>6, <4>7
    <3> QED BY <3>1, <3>2
  <2> QED BY <2>1
<1>5. T = Nat
  <2>1. T \subseteq Nat
    OBVIOUS
  <2> HIDE DEF T
  <2> QED BY <1>3, <1>4, <2>1, Inductive
<1>6. Cardinality(S) \in Nat /\ S \in Upto(S, Cardinality(S))
  BY FS_CardinalityType DEF Upto
<1>7. Good(S)
  BY <1>5, <1>6
<1>8. SumOver(f, S) = g[S]
  BY SumIs DEF g
<1> QED BY <1>7, <1>8

\* What holds of the subsets of S, one size after the other, holds of S.
LEMMA EverySize ==
  ASSUME NEW S, IsFiniteSet(S), NEW T \in SUBSET Nat, 0 \in T,
         \A n \in T : n + 1 \in T
  PROVE  Cardinality(S) \in T /\ S \in Upto(S, Cardinality(S))
BY Inductive, FS_CardinalityType DEF Upto

\* g is a sum over the subsets of S: it takes away any element as well as the
\* one picked.
LEMMA SumAnyOrder ==
  ASSUME NEW S, IsFiniteSet(S), NEW f, \A x \in S : f[x] \in Int,
         NEW g, IsSum(g, f, S), NEW y \in S
  PROVE  g[S] = f[y] + g[S \ {y}] /\ g[S \ {y}] \in Int
<1>2. \A s \in SUBSET S : g[s] = SumStep(g, f, s)
  BY DEF IsSum
<1> DEFINE Good(s) == /\ g[s] \in Int
                      /\ \A z \in s : g[s] = f[z] + g[s \ {z}]
           T == {n \in Nat : \A s \in Upto(S, n) : Good(s)}
<1>3. 0 \in T
  <2>1. ASSUME NEW s \in Upto(S, 0) PROVE Good(s)
    <3>1. s = {} /\ s \in SUBSET S
      BY UptoMore DEF Upto
    <3>2. g[s] = 0
      BY <1>2, <3>1 DEF SumStep
    <3> QED BY <3>1, <3>2
  <2> QED BY <2>1
<1>4. ASSUME NEW n \in T PROVE n + 1 \in T
  <2>1. ASSUME NEW s \in Upto(S, n + 1) PROVE Good(s)
    <3>0. s \in SUBSET S
      BY DEF Upto
    <3>1. CASE s = {}
      <4>1. g[s] = 0
        BY <1>2, <3>0, <3>1 DEF SumStep
      <4> QED BY <3>1, <4>1
    <3>2. CASE s # {}
      <4> DEFINE p == Pick(s)
                 r == s \ {p}
      <4>1. p \in s /\ r \in Upto(S, n) /\ n \in Nat
        <5>1. n \in Nat
          OBVIOUS
        <5>2. p \in s
          BY <3>0, <3>2, SubsetSize
        <5> HIDE DEF T
        <5>3. r \in Upto(S, n)
          BY <3>2, <5>1, UptoMore
        <5> QED BY <5>1, <5>2, <5>3
      <4>2. g[s] = f[p] + g[r]
        BY <1>2, <3>0, <3>2 DEF SumStep
      <4>3. Good(r) /\ f[p] \in Int
        BY <3>0, <4>1
      <4>4. g[s] \in Int
        BY <4>2, <4>3
      <4>5. ASSUME NEW z \in s PROVE g[s] = f[z] + g[s \ {z}]
        <5>1. CASE z = p
          BY <4>2, <5>1
        <5>2. CASE z # p
          <6> DEFINE q == s \ {z}
                     c == q \ {p}
          <6>1. q \in Upto(S, n) /\ p \in q /\ z \in r /\ c = r \ {z}
            <7>1. q \in SUBSET S /\ p \in q /\ z \in r /\ c = r \ {z}
              BY <3>0, <4>1, <5>2
            <7>2. /\ IsFiniteSet(s) /\ Cardinality(s) \in Nat
                  /\ Cardinality(s) <= n + 1
              BY <3>0, SubsetSize DEF Upto
            <7>3. Cardinality(q) = Cardinality(s) - 1
              BY <7>2, FS_RemoveElement
            <7>4. Cardinality(q) <= n
              BY <4>1, <7>2, <7>3
            <7> QED BY <7>1, <7>4 DEF Upto
          <6>2. Good(q)
            BY <6>1
          <6> HIDE DEF c, q, r, p
          <6>3. g[q] = f[p] + g[c] /\ g[q] \in Int
            BY <6>1, <6>2 DEF c
          <6>4. g[r] = f[z] + g[c] /\ g[r] \in Int
            BY <4>3, <6>1
          <6>5. f[p] \in Int /\ f[z] \in Int /\ g[c] \in Int
            <7>1. c \in Upto(S, n)
              <8>1. c \in SUBSET S /\ c \in SUBSET q
                BY <3>0 DEF c, q
              <8>2. IsFiniteSet(q) /\ Cardinality(q) \in Nat /\ Cardinality(q) <= n
                BY <6>1, SubsetSize DEF Upto
              <8>3. Cardinality(c) \in Nat /\ Cardinality(c) <= Cardinality(q)
                BY <8>1, <8>2, FS_Subset, FS_CardinalityType
              <8>4. Cardinality(c) <= n
                BY <4>1, <8>2, <8>3
              <8> QED BY <8>1, <8>4 DEF Upto
            <7>2. Good(c)
              BY <7>1
            <7> QED BY <3>0, <4>3, <7>2
          <6> QED BY <4>2, <6>3, <6>4, <6>5 DEF q
        <5> QED BY <5>1, <5>2
      <4> QED BY <4>4, <4>5
    <3> QED BY <3>1, <3>2
  <2> QED BY <2>1
<1>5. Cardinality(S) \in T /\ S \in Upto(S, Cardinality(S))
  <2>1. T \subseteq Nat
    OBVIOUS
  <2> HIDE DEF T
  <2> QED BY <1>3, <1>4, <2>1, EverySize
<1>6. Good(S)
  BY <1>5
<1>7. S \ {y} \in Upto(S, Cardinality(S))
  BY UptoMore, FS_CardinalityType
<1>8. Good(S \ {y})
  BY <1>5, <1>7
<1> QED BY <1>6, <1>8

\* The sum depends on the summands of S alone.
LEMMA SumSame ==
  ASSUME NEW S, IsFiniteSet(S), NEW f, NEW g, \A x \in S : f[x] = g[x]
  PROVE  SumOver(f, S) = SumOver(g, S)
<1>1. ASSUME NEW h PROVE IsSum(h, f, S) <=> IsSum(h, g, S)
  <2> DEFINE a(s) == SumStep(h, f, s)
             b(s) == SumStep(h, g, s)
  <2>1. \A s \in SUBSET S : a(s) = b(s)
    BY SubsetSize DEF SumStep
  <2> HIDE DEF a, b
  <2>2. [s \in SUBSET S |-> a(s)] = [s \in SUBSET S |-> b(s)]
    BY <2>1
  <2> QED BY <2>2 DEF IsSum, a, b
<1>2. (CHOOSE h : IsSum(h, f, S)) = (CHOOSE h : IsSum(h, g, S))
  BY <1>1
<1> QED BY <1>2, SumIs

\* The sum over nothing.
LEMMA SumEmpty == ASSUME NEW f PROVE SumOver(f, {}) = 0
<1> DEFINE g == CHOOSE h : IsSum(h, f, {})
<1>1. IsSum(g, f, {})
  BY SumExists, FS_EmptySet
<1> HIDE DEF g
<1>2. g[{}] = 0
  BY <1>1 DEF IsSum, SumStep
<1> QED BY <1>2, SumIs DEF g

\* One summand more.
LEMMA SumAdd ==
  ASSUME NEW S, IsFiniteSet(S), NEW x, x \notin S, NEW f,
         \A y \in S \cup {x} : f[y] \in Int
  PROVE  /\ SumOver(f, S \cup {x}) = SumOver(f, S) + f[x]
         /\ SumOver(f, S) \in Int
<1> DEFINE T == S \cup {x}
           g == CHOOSE h : IsSum(h, f, T)
           k == [s \in SUBSET S |-> g[s]]
           m == CHOOSE h : IsSum(h, f, S)
<1>1. IsFiniteSet(T)
  BY FS_AddElement
<1>2. IsSum(g, f, T) /\ IsSum(m, f, S)
  BY <1>1, SumExists
<1>3. SumOver(f, T) = g[T] /\ SumOver(f, S) = m[S]
  BY SumIs
<1> HIDE DEF g, m
<1>4. x \in T /\ T \ {x} = S
  OBVIOUS
<1>5. \A y \in T : f[y] \in Int
  OBVIOUS
<1>6. g[T] = f[x] + g[S] /\ g[S] \in Int
  <2> HIDE DEF T
  <2> QED BY <1>1, <1>2, <1>4, <1>5, SumAnyOrder
<1>7. g[S] = m[S]
  <2> DEFINE Same(s) == g[s] = m[s]
             N == {n \in Nat : \A s \in Upto(S, n) : Same(s)}
  <2>1. \A s \in SUBSET S : g[s] = SumStep(g, f, s) /\ m[s] = SumStep(m, f, s)
    BY <1>2 DEF IsSum
  <2>2. 0 \in N
    BY <2>1, UptoMore DEF SumStep
  <2>3. ASSUME NEW n \in N PROVE n + 1 \in N
    <3>1. ASSUME NEW s \in Upto(S, n + 1) PROVE Same(s)
      <4>1. s \in SUBSET S
        BY DEF Upto
      <4>2. s # {} => s \ {Pick(s)} \in Upto(S, n)
        BY UptoMore
      <4> QED BY <2>1, <4>1, <4>2 DEF SumStep
    <3> QED BY <3>1
  <2>4. Cardinality(S) \in N /\ S \in Upto(S, Cardinality(S))
    <3>1. N \subseteq Nat
      OBVIOUS
    <3> HIDE DEF N
    <3> QED BY <2>2, <2>3, <3>1, EverySize
  <2> QED BY <2>4
<1>8. f[x] \in Int
  OBVIOUS
<1> QED BY <1>3, <1>6, <1>7, <1>8

\* The last of some places.
LEMMA LastPlace ==
  ASSUME NEW n \in Nat, NEW s \in SUBSET (1 .. n)
  PROVE  /\ IsFiniteSet(s)
         /\ s # {} => Max(s) \in s
<1>1. IsFiniteSet(s)
  <2>1. IsFiniteSet(1 .. n)
    BY FS_Interval
  <2> QED BY <2>1, FS_Subset
<1>2. ASSUME s # {} PROVE Max(s) \in s
  <2>1. s \in SUBSET Int /\ n \in Int /\ \A v \in s : v <= n
    OBVIOUS
  <2> QED BY <1>2, <2>1, MaxIs
<1> QED BY <1>1, <1>2

\* Without its last, a set of places is smaller.
LEMMA WithoutLast ==
  ASSUME NEW m \in Nat, NEW S \in SUBSET (1 .. m), NEW n \in Nat,
         NEW s \in Upto(S, n + 1), s # {}
  PROVE  s \ {Max(s)} \in Upto(S, n) /\ Max(s) \in s
<1>1. s \in SUBSET S /\ s \in SUBSET (1 .. m) /\ Cardinality(s) <= n + 1
  BY DEF Upto
<1>2. Max(s) \in s /\ IsFiniteSet(s)
  BY <1>1, LastPlace
<1>3. Cardinality(s) \in Nat
  BY <1>2, FS_CardinalityType
<1> DEFINE x == Max(s)
<1> HIDE DEF x
<1>4. Cardinality(s \ {x}) = Cardinality(s) - 1
  BY <1>2, FS_RemoveElement DEF x
<1>5. Cardinality(s \ {x}) <= n
  <2> DEFINE c == Cardinality(s)
             d == Cardinality(s \ {x})
  <2>1. c \in Nat /\ c <= n + 1 /\ d = c - 1 /\ n \in Nat
    BY <1>1, <1>3, <1>4
  <2> HIDE DEF c, d
  <2>2. d <= n
    BY <2>1
  <2> QED BY <2>2 DEF d
<1>6. s \ {x} \in SUBSET S
  BY <1>1
<1> QED BY <1>2, <1>5, <1>6 DEF Upto, x

\* A sum of integers is one.
LEMMA SumInt ==
  ASSUME NEW S, IsFiniteSet(S), NEW f, \A x \in S : f[x] \in Int
  PROVE  SumOver(f, S) \in Int
<1>1. CASE S = {}
  <2>1. SumOver(f, S) = 0
    BY <1>1, SumEmpty
  <2> QED BY <2>1
<1>2. CASE S # {}
  <2> DEFINE g == CHOOSE h : IsSum(h, f, S)
  <2>1. IsSum(g, f, S) /\ SumOver(f, S) = g[S]
    BY SumExists, SumIs
  <2> HIDE DEF g
  <2>2. PICK y \in S : TRUE
    BY <1>2
  <2>3. g[S] = f[y] + g[S \ {y}] /\ g[S \ {y}] \in Int
    BY <2>1, SumAnyOrder
  <2> QED BY <2>1, <2>2, <2>3
<1> QED BY <1>1, <1>2

\* A sum over n + 1 places in a row, by the last.
LEMMA SumLast ==
  ASSUME NEW a \in Int, NEW n \in Nat, NEW f, \A x \in a .. a + n : f[x] \in Int
  PROVE  /\ SumOver(f, a .. a + n) = SumOver(f, a .. a + n - 1) + f[a + n]
         /\ SumOver(f, a .. a + n - 1) \in Int
<1> DEFINE S == a .. a + n - 1
           x == a + n
<1>1. IsFiniteSet(S) /\ x \notin S /\ a .. a + n = S \cup {x}
  <2>1. a + n - 1 \in Int
    OBVIOUS
  <2>2. IsFiniteSet(S)
    BY <2>1, FS_Interval
  <2>3. x \notin S
    OBVIOUS
  <2>4. a .. a + n = S \cup {x}
    OBVIOUS
  <2> QED BY <2>2, <2>3, <2>4
<1>2. \A y \in S \cup {x} : f[y] \in Int
  BY <1>1
<1> HIDE DEF S, x
<1>3. /\ SumOver(f, S \cup {x}) = SumOver(f, S) + f[x]
      /\ SumOver(f, S) \in Int
  BY <1>1, <1>2, SumAdd
<1> QED BY <1>1, <1>3 DEF S, x

\* The same summands, counted from 0 and from 1.
LEMMA SumFromOne ==
  ASSUME NEW n \in Nat, NEW f, NEW g,
         \A k \in 0 .. n - 1 : f[k] \in Int /\ f[k] = g[k + 1]
  PROVE  SumOver(f, 0 .. n - 1) = SumOver(g, 1 .. n) /\ SumOver(f, 0 .. n - 1) \in Int
<1> DEFINE Same(m) == /\ SumOver(f, 0 .. m - 1) = SumOver(g, 1 .. m)
                      /\ SumOver(f, 0 .. m - 1) \in Int
           T == {m \in Nat : m <= n => Same(m)}
<1>1. 0 \in T
  <2>1. 0 .. 0 - 1 = {} /\ 1 .. 0 = {}
    OBVIOUS
  <2>2. Same(0)
    BY <2>1, SumEmpty
  <2> QED BY <2>2
<1>2. ASSUME NEW m \in T PROVE m + 1 \in T
  <2> SUFFICES ASSUME m + 1 <= n PROVE Same(m + 1)
    OBVIOUS
  <2>1. m \in Nat /\ m <= n /\ m \in 0 .. n - 1
    OBVIOUS
  <2>2. Same(m)
    BY <2>1
  <2>3. f[m] = g[m + 1] /\ f[m] \in Int
    BY <2>1
  <2> DEFINE A == 0 .. m - 1
             C == 1 .. m
  <2>4. /\ IsFiniteSet(A) /\ m \notin A /\ 0 .. (m + 1) - 1 = A \cup {m}
        /\ \A x \in A \cup {m} : f[x] \in Int
    <3>1. m - 1 \in Int /\ 0 \in Int
      BY <2>1
    <3>2. IsFiniteSet(A)
      BY <3>1, FS_Interval
    <3>3. m \notin A /\ 0 .. (m + 1) - 1 = A \cup {m}
      BY <2>1
    <3>4. \A x \in A \cup {m} : x \in 0 .. n - 1
      BY <2>1
    <3> QED BY <3>2, <3>3, <3>4
  <2>5. /\ IsFiniteSet(C) /\ m + 1 \notin C /\ 1 .. m + 1 = C \cup {m + 1}
        /\ \A x \in C \cup {m + 1} : g[x] \in Int
    <3>1. m \in Int /\ 1 \in Int
      BY <2>1
    <3>2. IsFiniteSet(C)
      BY <3>1, FS_Interval
    <3>3. m + 1 \notin C /\ 1 .. m + 1 = C \cup {m + 1}
      BY <2>1
    <3>4. ASSUME NEW x \in C \cup {m + 1} PROVE g[x] \in Int
      <4>1. x - 1 \in 0 .. n - 1 /\ (x - 1) + 1 = x
        BY <2>1
      <4>2. f[x - 1] \in Int /\ f[x - 1] = g[(x - 1) + 1]
        BY <4>1
      <4> QED BY <4>1, <4>2
    <3> QED BY <3>2, <3>3, <3>4
  <2> HIDE DEF A, C
  <2>6. /\ SumOver(f, A \cup {m}) = SumOver(f, A) + f[m]
        /\ SumOver(f, A) \in Int
    BY <2>4, SumAdd
  <2>7. SumOver(g, C \cup {m + 1}) = SumOver(g, C) + g[m + 1]
    BY <2>5, SumAdd
  <2>8. SumOver(f, A) = SumOver(g, C)
    BY <2>2 DEF A, C
  <2>9. /\ SumOver(f, A \cup {m}) = SumOver(g, C \cup {m + 1})
        /\ SumOver(f, A \cup {m}) \in Int
    BY <2>3, <2>6, <2>7, <2>8
  <2> QED BY <2>4, <2>5, <2>9
<1>3. T = Nat
  <2>1. T \subseteq Nat
    OBVIOUS
  <2> HIDE DEF T
  <2> QED BY <1>1, <1>2, <2>1, Inductive
<1>4. Same(n)
  <2>1. n \in T
    BY <1>3
  <2> HIDE DEF Same
  <2> QED BY <2>1
<1> QED BY <1>4

\* Summand by summand.
LEMMA SumMinus ==
  ASSUME NEW n \in Nat, NEW f, NEW g, NEW h,
         \A k \in 1 .. n : f[k] \in Int /\ g[k] \in Int /\ h[k] = f[k] - g[k]
  PROVE  SumOver(h, 1 .. n) = SumOver(f, 1 .. n) - SumOver(g, 1 .. n)
<1> DEFINE Same(m) == SumOver(h, 1 .. m) = SumOver(f, 1 .. m) - SumOver(g, 1 .. m)
           T == {m \in Nat : m <= n => Same(m)}
<1>1. 0 \in T
  <2>1. 1 .. 0 = {}
    OBVIOUS
  <2>2. Same(0)
    BY <2>1, SumEmpty
  <2> QED BY <2>2
<1>2. ASSUME NEW m \in T PROVE m + 1 \in T
  <2> SUFFICES ASSUME m + 1 <= n PROVE Same(m + 1)
    OBVIOUS
  <2>1. m \in Nat /\ m <= n /\ 1 + m = m + 1 /\ 1 + m - 1 = m /\ 1 + m \in 1 .. n /\ 1 \in Int
    OBVIOUS
  <2>2. Same(m)
    BY <2>1
  <2>3. \A x \in 1 .. 1 + m : f[x] \in Int /\ g[x] \in Int /\ h[x] \in Int
    <3> TAKE x \in 1 .. 1 + m
    <3>1. x \in 1 .. n
      BY <2>1
    <3>2. f[x] \in Int /\ g[x] \in Int /\ h[x] = f[x] - g[x]
      BY <3>1
    <3> QED BY <3>2
  <2>4. /\ SumOver(f, 1 .. 1 + m) = SumOver(f, 1 .. 1 + m - 1) + f[1 + m]
        /\ SumOver(f, 1 .. 1 + m - 1) \in Int
    BY <2>1, <2>3, SumLast
  <2>5. /\ SumOver(g, 1 .. 1 + m) = SumOver(g, 1 .. 1 + m - 1) + g[1 + m]
        /\ SumOver(g, 1 .. 1 + m - 1) \in Int
    BY <2>1, <2>3, SumLast
  <2>6. /\ SumOver(h, 1 .. 1 + m) = SumOver(h, 1 .. 1 + m - 1) + h[1 + m]
        /\ SumOver(h, 1 .. 1 + m - 1) \in Int
    BY <2>1, <2>3, SumLast
  <2>7. /\ h[1 + m] = f[1 + m] - g[1 + m]
        /\ f[1 + m] \in Int /\ g[1 + m] \in Int
    BY <2>1
  <2> QED BY <2>1, <2>2, <2>4, <2>5, <2>6, <2>7
<1>3. T = Nat
  <2>1. T \subseteq Nat
    OBVIOUS
  <2> HIDE DEF T
  <2> QED BY <1>1, <1>2, <2>1, Inductive
<1>4. Same(n)
  <2>1. n \in T
    BY <1>3
  <2> HIDE DEF Same
  <2> QED BY <2>1
<1> QED BY <1>4

\* Finitely many sizes have a bound.
LEMMA GreatestSize ==
  ASSUME NEW s, NEW n \in Nat, \A j \in 1 .. n : s[j] \in Nat
  PROVE  \E hi \in Nat : \A j \in 1 .. n : s[j] <= hi
<1> DEFINE Bounded(k) == \E hi \in Nat : \A j \in 1 .. k : j <= n => s[j] <= hi
           T == {k \in Nat : Bounded(k)}
<1>1. 0 \in T
  OBVIOUS
<1>2. ASSUME NEW k \in T PROVE k + 1 \in T
  <2>1. PICK hi \in Nat : \A j \in 1 .. k : j <= n => s[j] <= hi
    OBVIOUS
  <2>2. CASE k + 1 <= n
    <3>1. s[k + 1] \in Nat
      BY <2>2
    <3>2. hi + s[k + 1] \in Nat /\ hi <= hi + s[k + 1] /\ s[k + 1] <= hi + s[k + 1]
      BY <3>1
    <3>3. \A j \in 1 .. k + 1 : j <= n => s[j] <= hi + s[k + 1]
      <4> TAKE j \in 1 .. k + 1
      <4> SUFFICES ASSUME j <= n PROVE s[j] <= hi + s[k + 1]
        OBVIOUS
      <4>1. j = k + 1 \/ j \in 1 .. k
        OBVIOUS
      <4>2. s[j] \in Nat
        OBVIOUS
      <4> QED BY <2>1, <3>1, <3>2, <4>1, <4>2
    <3> QED BY <3>2, <3>3
  <2>3. CASE ~(k + 1 <= n)
    <3>1. \A j \in 1 .. k + 1 : j <= n => s[j] <= hi
      BY <2>1, <2>3
    <3> QED BY <3>1
  <2> QED BY <2>2, <2>3
<1>3. T = Nat
  <2>1. T \subseteq Nat
    OBVIOUS
  <2> HIDE DEF T
  <2> QED BY <1>1, <1>2, <2>1, Inductive
<1>4. Bounded(n)
  BY <1>3
<1> QED BY <1>4

\* Moving a set of numbers does not change its size.
LEMMA Moved ==
  ASSUME NEW S, S \subseteq Int, IsFiniteSet(S), NEW d \in Int
  PROVE  /\ IsFiniteSet({x + d : x \in S})
         /\ Cardinality({x + d : x \in S}) = Cardinality(S)
<1> DEFINE T == {x + d : x \in S}
           f == [x \in S |-> x + d]
<1>1. f \in Bijection(S, T)
  <2>1. f \in [S -> T]
    OBVIOUS
  <2>2. \A x, y \in S : f[x] = f[y] => x = y
    <3> TAKE x, y \in S
    <3>1. x \in Int /\ y \in Int
      OBVIOUS
    <3> QED BY <3>1
  <2>3. \A z \in T : \E x \in S : f[x] = z
    OBVIOUS
  <2> HIDE DEF f, T
  <2> QED BY <2>1, <2>2, <2>3 DEF Bijection, Injection, Surjection, IsInjective
<1>2. ExistsBijection(S, T)
  BY <1>1 DEF ExistsBijection
<1> HIDE DEF T
<1>3. IsFiniteSet(T) /\ Cardinality(T) = Cardinality(S)
  BY <1>2, FS_Bijection
<1> QED BY <1>3 DEF T

-----------------------------------------------------------------------------
(* Division *)

LEMMA Multiples ==
  ASSUME NEW m \in Nat \ {0}, NEW a \in Int, NEW b \in Int, a < b
  PROVE  m * a \in Int /\ m * b \in Int /\ m * a + m <= m * b
<1>1. PICK e \in Nat : b = a + 1 + e
  <2>1. b - a - 1 \in Nat /\ b = a + 1 + (b - a - 1)
    OBVIOUS
  <2> QED BY <2>1
<1>2. m * (a + 1 + e) = m * a + m + m * e /\ m * e >= 0
  OBVIOUS
<1> QED BY <1>1, <1>2

LEMMA Divided ==
  ASSUME NEW m \in Int, m > 0, NEW n \in Int
  PROVE  n = m * (n \div m) + (n % m)
OBVIOUS

LEMMA DivMod ==
  ASSUME NEW m \in Nat \ {0}, NEW n \in Int
  PROVE  /\ n % m \in 0 .. m - 1 /\ n \div m \in Int
         /\ n = m * (n \div m) + (n % m)
<1>1. m \in Int /\ m > 0
  OBVIOUS
<1>2. n % m \in 0 .. m - 1 /\ n \div m \in Int
  OBVIOUS
<1> QED BY <1>1, <1>2, Divided

LEMMA DivModIs ==
  ASSUME NEW m \in Nat \ {0}, NEW q \in Int, NEW s \in 0 .. m - 1
  PROVE  (m * q + s) % m = s /\ (m * q + s) \div m = q
<1> DEFINE n == m * q + s
           u == n \div m
           v == n % m
<1>1. m * q \in Int /\ n \in Int
  OBVIOUS
<1>2. n = m * q + s
  OBVIOUS
<1> HIDE DEF n
<1>3. v \in 0 .. m - 1 /\ u \in Int /\ n = m * u + v
  BY <1>1, DivMod
<1> HIDE DEF u, v
<1>4. m * u \in Int
  BY <1>3
<1>5. ~(u < q)
  <2> SUFFICES ASSUME u < q PROVE FALSE
    OBVIOUS
  <2>1. m * u + m <= m * q
    BY <1>3, Multiples
  <2> QED BY <1>1, <1>2, <1>3, <1>4, <2>1
<1>6. ~(q < u)
  <2> SUFFICES ASSUME q < u PROVE FALSE
    OBVIOUS
  <2>1. m * q + m <= m * u
    BY <1>3, Multiples
  <2> QED BY <1>1, <1>2, <1>3, <1>4, <2>1
<1>7. u = q
  BY <1>3, <1>5, <1>6
<1>8. v = s
  BY <1>1, <1>2, <1>3, <1>7
<1> QED BY <1>7, <1>8 DEF n, u, v

\* What is left over is no more than there was.
LEMMA RestFits ==
  ASSUME NEW m \in Nat \ {0}, NEW n \in Nat
  PROVE  n % m >= 0 /\ n % m <= n
<1> DEFINE q == n \div m
           s == n % m
<1>1. s \in 0 .. m - 1 /\ q \in Int /\ n = m * q + s
  BY DivMod
<1> HIDE DEF q, s
<1>2. ~(q < 0)
  <2> SUFFICES ASSUME q < 0 PROVE FALSE
    OBVIOUS
  <2>1. m * q + m <= m * 0 /\ m * 0 = 0 /\ m * q \in Int
    BY <1>1, Multiples
  <2> QED BY <1>1, <2>1
<1>3. m * q \in Nat
  BY <1>1, <1>2
<1>4. s >= 0 /\ s <= n
  BY <1>1, <1>3
<1> QED BY <1>4 DEF s

\* The rest after vectors, from the rest after pairs of vectors.
LEMMA ModOfHalf ==
  ASSUME NEW m \in Nat \ {0}, NEW n \in Int
  PROVE  /\ n % (2 * m) \in 0 .. 2 * m - 1
         /\ n % (2 * m) >= m => n % m = (n % (2 * m)) - m
         /\ n % (2 * m) < m => n % m = n % (2 * m)
<1> DEFINE d == 2 * m
           q == n \div d
           s == n % d
<1>1. d \in Nat \ {0} /\ d = 2 * m
  OBVIOUS
<1> HIDE DEF d
<1>2. s \in 0 .. d - 1 /\ q \in Int /\ n = d * q + s
  BY <1>1, DivMod
<1> HIDE DEF s, q
<1>3. d * q = m * (2 * q)
  BY <1>1, <1>2
<1>4. ASSUME s < m PROVE n % m = s
  <2>1. s \in 0 .. m - 1 /\ 2 * q \in Int
    BY <1>1, <1>2, <1>4
  <2>2. (m * (2 * q) + s) % m = s
    BY <2>1, DivModIs
  <2> QED BY <1>2, <1>3, <2>2
<1>5. ASSUME s >= m PROVE n % m = s - m
  <2>1. s - m \in 0 .. m - 1 /\ 2 * q + 1 \in Int
    BY <1>1, <1>2, <1>5
  <2>2. (m * (2 * q + 1) + (s - m)) % m = s - m
    BY <2>1, DivModIs
  <2>3. m * (2 * q + 1) = m * (2 * q) + m
    BY <1>2
  <2>4. m * (2 * q) \in Int
    BY <1>2
  <2>5. m * (2 * q + 1) + (s - m) = n
    <3> DEFINE u == m * (2 * q)
    <3> HIDE DEF u
    <3>1. u \in Int /\ m * (2 * q + 1) = u + m /\ n = u + s /\ s \in Int
      BY <1>2, <1>3, <2>3, <2>4 DEF u
    <3> QED BY <3>1
  <2> QED BY <2>2, <2>5
<1> QED BY <1>2, <1>4, <1>5, <1>1 DEF s, d

\* Multiples are in the order of their factors.
LEMMA MultiplesOrder ==
  ASSUME NEW m \in Nat \ {0}, NEW x \in Int, NEW y \in Int, m * x < m * y
  PROVE  x < y
<1>0. m * x \in Int /\ m * y \in Int
  OBVIOUS
<1>1. ASSUME y < x PROVE FALSE
  <2>1. m * y + m <= m * x
    BY <1>1, Multiples
  <2> QED BY <1>0, <2>1
<1>2. x # y
  BY <1>0
<1> QED BY <1>1, <1>2

\* A place in a matrix written row by row.
LEMMA RowByRow ==
  ASSUME NEW a \in Nat \ {0}, NEW b \in Nat \ {0},
         NEW k \in 0 .. a - 1, NEW j \in 0 .. b - 1
  PROVE  /\ k * b + j \in 0 .. a * b - 1
         /\ (k * b + j) % b = j /\ (k * b + j) \div b = k
<1>1. k \in Int /\ b * k \in Int /\ k * b = b * k /\ a * b = b * a /\ b * a \in Int
  OBVIOUS
<1>2. (b * k + j) % b = j /\ (b * k + j) \div b = k
  BY <1>1, DivModIs
<1>3. b * k + b <= b * a
  BY Multiples
<1>4. b * k >= 0
  OBVIOUS
<1>5. b * k + j \in 0 .. b * a - 1
  <2> DEFINE p == b * k
             q == b * a
  <2>1. p \in Int /\ q \in Int /\ p + b <= q /\ p >= 0
    BY <1>1, <1>3, <1>4
  <2> HIDE DEF p, q
  <2>2. p + j \in 0 .. q - 1
    BY <2>1
  <2> QED BY <2>2 DEF p, q
<1> QED BY <1>1, <1>2, <1>5
=============================================================================
