---------------------------- MODULE QueueLemmas ----------------------------
(***************************************************************************)
(* Lemmas about sequences that the refinement proofs share.  What a        *)
(* recursive function computes is proved by induction on its argument,     *)
(* which the well-foundedness of < on Nat gives for sets.                  *)
(***************************************************************************)
EXTENDS Queues, SequenceTheorems, WellFoundedInduction, TLAPS

\* Every set of natural numbers that is not empty has a least member.
LEMMA LeastMember ==
  ASSUME NEW T \in SUBSET Nat, T /= {}
  PROVE  \E n \in T : \A m \in T : n <= m
<1> DEFINE R == OpToRel(<, Nat)
<1>1. IsWellFoundedOn(R, Nat)
  BY NatLessThanWellFounded
<1> HIDE DEF R
<1>2. PICK n \in T : \A m \in T : <<m, n>> \notin R
  BY <1>1, WFMin
<1>3. \A m \in T : ~(m < n)
  BY <1>2 DEF R, OpToRel
<1>4. QED
  BY <1>3

\* Induction: a set that has 0, and with a number the next, has them all.
LEMMA Induction ==
  ASSUME NEW T, 0 \in T, \A n \in Nat : n \in T => n + 1 \in T
  PROVE  \A n \in Nat : n \in T
<1> SUFFICES ASSUME Nat \ T /= {} PROVE FALSE
  OBVIOUS
<1>1. PICK n \in Nat \ T : \A m \in Nat \ T : n <= m
  BY LeastMember
<1>2. n - 1 \in Nat /\ n - 1 \in T
  BY <1>1
<1>3. QED
  BY <1>1, <1>2

-----------------------------------------------------------------------------
(* Flattening.                                                             *)

\* f holds the concatenations of the first i of ms, for every i to n.
Flattens(f, ms, n) ==
  f = [i \in 1 .. n |-> IF i = 1 THEN ms[i] ELSE f[i - 1] \o ms[i]]

LEMMA FlattensAt ==
  ASSUME NEW f, NEW ms, NEW n, Flattens(f, ms, n), NEW i \in 1 .. n
  PROVE  f[i] = IF i = 1 THEN ms[i] ELSE f[i - 1] \o ms[i]
<1> DEFINE value(j) == IF j = 1 THEN ms[j] ELSE f[j - 1] \o ms[j]
           g == [j \in 1 .. n |-> value(j)]
<1>1. f = g
  BY DEF Flattens
<1> HIDE DEF value
<1>2. g[i] = value(i)
  OBVIOUS
<1> HIDE DEF g
<1>3. f[i] = value(i)
  BY <1>1, <1>2
<1>4. QED
  BY <1>3 DEF value

\* The recursive function by which FlattenSeq is defined exists.
LEMMA FlattensExists ==
  ASSUME NEW ms
  PROVE  \A n \in Nat : \E f : Flattens(f, ms, n)
<1> DEFINE T == {n \in Nat : \E f : Flattens(f, ms, n)}
<1>1. 0 \in T
  <2> DEFINE f == [i \in 1 .. 0 |-> IF i = 1 THEN ms[i] ELSE <<>>]
  <2>1. Flattens(f, ms, 0)
    BY DEF Flattens
  <2> HIDE DEF f
  <2>2. QED
    BY <2>1
<1>2. ASSUME NEW n \in Nat, n \in T
      PROVE  n + 1 \in T
  <2>1. PICK f : Flattens(f, ms, n)
    BY <1>2
  <2> DEFINE next == IF n = 0 THEN ms[n + 1] ELSE f[n] \o ms[n + 1]
             g == [i \in 1 .. n + 1 |-> IF i = n + 1 THEN next ELSE f[i]]
             h == [i \in 1 .. n + 1 |-> IF i = 1 THEN ms[i] ELSE g[i - 1] \o ms[i]]
  <2>2. ASSUME NEW i \in 1 .. n + 1 PROVE g[i] = h[i]
    <3>1. CASE i = n + 1
      <4>1. g[i] = next
        BY <3>1
      <4>2. n /= 0 => g[i - 1] = f[n]
        BY <3>1
      <4> HIDE DEF g
      <4>3. QED
        BY <3>1, <4>1, <4>2
    <3>2. CASE i /= n + 1
      <4>1. i \in 1 .. n /\ (i /= 1 => i - 1 \in 1 .. n)
        BY <3>2
      <4>2. f[i] = IF i = 1 THEN ms[i] ELSE f[i - 1] \o ms[i]
        BY <2>1, <4>1, FlattensAt
      <4>3. g[i] = f[i] /\ (i /= 1 => g[i - 1] = f[i - 1])
        BY <4>1
      <4> HIDE DEF g
      <4>4. QED
        BY <4>1, <4>2, <4>3
    <3>3. QED
      BY <3>1, <3>2
  <2>3. g = h
    <3>1. DOMAIN g = 1 .. n + 1 /\ DOMAIN h = 1 .. n + 1
      OBVIOUS
    <3>2. g = [i \in 1 .. n + 1 |-> g[i]] /\ h = [i \in 1 .. n + 1 |-> h[i]]
      OBVIOUS
    <3> HIDE DEF g, h
    <3>3. QED
      BY <2>2, <3>2
  <2>4. Flattens(g, ms, n + 1)
    BY <2>3 DEF Flattens
  <2> HIDE DEF g
  <2>5. QED
    BY <2>4
<1> HIDE DEF T
<1>3. \A n \in Nat : n \in T
  BY <1>1, <1>2, Induction
<1>4. QED
  BY <1>3 DEF T

\* Functions for two sequences agree as long as the sequences do.
LEMMA FlattensAgree ==
  ASSUME NEW ms, NEW ns, NEW k \in Nat, NEW n \in Nat, k <= n,
         NEW f, Flattens(f, ms, k), NEW g, Flattens(g, ns, n),
         \A i \in 1 .. k : ms[i] = ns[i]
  PROVE  \A i \in 1 .. k : f[i] = g[i]
<1> DEFINE T == {j \in Nat : j \in 1 .. k => f[j] = g[j]}
<1>1. 0 \in T
  OBVIOUS
<1>2. ASSUME NEW j \in Nat, j \in T PROVE j + 1 \in T
  <2> SUFFICES ASSUME j + 1 \in 1 .. k PROVE f[j + 1] = g[j + 1]
    OBVIOUS
  <2>1. f[j + 1] = IF j + 1 = 1 THEN ms[j + 1] ELSE f[(j + 1) - 1] \o ms[j + 1]
    BY FlattensAt
  <2>2. g[j + 1] = IF j + 1 = 1 THEN ns[j + 1] ELSE g[(j + 1) - 1] \o ns[j + 1]
    BY FlattensAt
  <2>3. ms[j + 1] = ns[j + 1] /\ (j + 1 /= 1 => f[(j + 1) - 1] = g[(j + 1) - 1])
    BY <1>2
  <2>4. QED
    BY <2>1, <2>2, <2>3
<1> HIDE DEF T
<1>3. \A j \in Nat : j \in T
  BY <1>1, <1>2, Induction
<1>4. QED
  BY <1>3 DEF T

LEMMA FlattensTyped ==
  ASSUME NEW S, NEW ms \in Seq(Seq(S)), NEW f, Flattens(f, ms, Len(ms))
  PROVE  \A i \in 1 .. Len(ms) : f[i] \in Seq(S)
<1> DEFINE T == {j \in Nat : j \in 1 .. Len(ms) => f[j] \in Seq(S)}
<1>1. 0 \in T
  OBVIOUS
<1>2. ASSUME NEW j \in Nat, j \in T PROVE j + 1 \in T
  <2> SUFFICES ASSUME j + 1 \in 1 .. Len(ms) PROVE f[j + 1] \in Seq(S)
    OBVIOUS
  <2>1. f[j + 1] = IF j + 1 = 1 THEN ms[j + 1] ELSE f[(j + 1) - 1] \o ms[j + 1]
    BY FlattensAt
  <2>2. ms[j + 1] \in Seq(S) /\ (j + 1 /= 1 => f[(j + 1) - 1] \in Seq(S))
    BY <1>2
  <2>3. QED
    BY <2>1, <2>2, ConcatProperties
<1> HIDE DEF T
<1>3. \A j \in Nat : j \in T
  BY <1>1, <1>2, Induction
<1>4. QED
  BY <1>3 DEF T

LEMMA FlattenFunction ==
  ASSUME NEW S, NEW ms \in Seq(Seq(S)), ms /= <<>>
  PROVE  \E f : Flattens(f, ms, Len(ms)) /\ FlattenSeq(ms) = f[Len(ms)]
<1> DEFINE F == CHOOSE f : Flattens(f, ms, Len(ms))
<1>1. Len(ms) \in Nat /\ Len(ms) /= 0
  OBVIOUS
<1>2. Flattens(F, ms, Len(ms))
  <2>1. \E f : Flattens(f, ms, Len(ms))
    BY <1>1, FlattensExists
  <2>2. QED
    BY <2>1
<1>3. FlattenSeq(ms) = F[Len(ms)]
  BY <1>1 DEF FlattenSeq, Flattens
<1> HIDE DEF F
<1>4. QED
  BY <1>2, <1>3

LEMMA FlattenEmpty == FlattenSeq(<<>>) = <<>>
BY DEF FlattenSeq

LEMMA FlattenTyped ==
  ASSUME NEW S, NEW ms \in Seq(Seq(S))
  PROVE  FlattenSeq(ms) \in Seq(S)
<1>1. CASE ms = <<>>
  <2>1. FlattenSeq(ms) = <<>>
    BY <1>1, FlattenEmpty
  <2>2. <<>> \in Seq(S)
    BY EmptySeq
  <2>3. QED
    BY <2>1, <2>2
<1>2. CASE ms /= <<>>
  <2>1. PICK f : Flattens(f, ms, Len(ms)) /\ FlattenSeq(ms) = f[Len(ms)]
    BY <1>2, FlattenFunction
  <2>2. Len(ms) \in 1 .. Len(ms)
    BY <1>2
  <2>3. QED
    BY <2>1, <2>2, FlattensTyped
<1>3. QED
  BY <1>1, <1>2

LEMMA FlattenAppend ==
  ASSUME NEW S, NEW ms \in Seq(Seq(S)), NEW m \in Seq(S)
  PROVE  FlattenSeq(Append(ms, m)) = FlattenSeq(ms) \o m
<1> DEFINE ns == Append(ms, m)
           n == Len(ms)
<1>1. /\ ns \in Seq(Seq(S)) /\ ns /= <<>> /\ Len(ns) = n + 1 /\ n \in Nat
      /\ ns[n + 1] = m /\ \A i \in 1 .. n : ns[i] = ms[i]
  <2> DEFINE Q == Seq(S)
  <2> HIDE DEF Q
  <2>1. ms \in Seq(Q) /\ m \in Q
    BY DEF Q
  <2>2. /\ ns \in Seq(Q) /\ ns /= <<>> /\ Len(ns) = n + 1 /\ n \in Nat
        /\ ns[n + 1] = m /\ \A i \in 1 .. n : ns[i] = ms[i]
    BY <2>1
  <2>3. QED
    BY <2>2 DEF Q
<1> HIDE DEF ns, n
<1>2. PICK g : Flattens(g, ns, n + 1) /\ FlattenSeq(ns) = g[n + 1]
  BY <1>1, FlattenFunction
<1>3. g[n + 1] = IF n + 1 = 1 THEN m ELSE g[n] \o m
  <2>1. n + 1 \in 1 .. n + 1 /\ (n + 1) - 1 = n
    BY <1>1
  <2>2. g[n + 1] = IF n + 1 = 1 THEN ns[n + 1] ELSE g[(n + 1) - 1] \o ns[n + 1]
    BY <1>2, <2>1, FlattensAt
  <2>3. QED
    BY <1>1, <2>1, <2>2
<1>4. CASE n = 0
  <2>1. ms = <<>>
    BY <1>4 DEF n
  <2>2. <<>> \o m = m
    BY ConcatEmptySeq
  <2>3. QED
    BY <1>2, <1>3, <1>4, <2>1, <2>2, FlattenEmpty, <1>1 DEF ns
<1>5. CASE n /= 0
  <2>1. ms /= <<>>
    BY <1>5 DEF n
  <2>2. PICK f : Flattens(f, ms, n) /\ FlattenSeq(ms) = f[n]
    BY <2>1, FlattenFunction DEF n
  <2>3. \A i \in 1 .. n : f[i] = g[i]
    <3>1. /\ n \in Nat /\ n + 1 \in Nat /\ n <= n + 1
          /\ \A i \in 1 .. n : ms[i] = ns[i]
      BY <1>1
    <3>2. QED
      BY <1>2, <2>2, <3>1, FlattensAgree
  <2>4. f[n] = g[n]
    BY <1>1, <1>5, <2>3
  <2>5. QED
    BY <1>1, <1>2, <1>3, <1>5, <2>2, <2>4 DEF ns
<1>6. QED
  BY <1>4, <1>5

\* The concatenations of ms are those of its tail with its head in front.
Shifted(ns, ms, n) == \A i \in 1 .. n : ns[i] = ms[i + 1]
Over(S, ms, n) == \A i \in 1 .. n : ms[i] \in Seq(S)

LEMMA FlattensShift ==
  ASSUME NEW S, NEW h \in Seq(S), NEW ms, NEW ns, NEW n \in Nat, ms[1] = h,
         Shifted(ns, ms, n), Over(S, ns, n),
         NEW m, m = n + 1, NEW f, Flattens(f, ms, m),
         NEW g, Flattens(g, ns, n), Over(S, g, n)
  PROVE  \A i \in 1 .. n : f[i + 1] = h \o g[i]
<1> DEFINE T == {j \in Nat : j \in 1 .. n => f[j + 1] = h \o g[j]}
<1>1. 0 \in T
  OBVIOUS
<1>2. ASSUME NEW j \in Nat, j \in T PROVE j + 1 \in T
  <2> SUFFICES ASSUME j + 1 \in 1 .. n
               PROVE  f[j + 1 + 1] = h \o g[j + 1]
    OBVIOUS
  <2> DEFINE k == j + 1
  <2>1. k \in Nat /\ k + 1 \in 1 .. m /\ k \in 1 .. n /\ k - 1 = j
    OBVIOUS
  <2>2. j \in 1 .. n => f[k] = h \o g[j]
    BY <1>2
  <2> HIDE DEF k, T
  <2>3. f[k + 1] = f[k] \o ns[k]
    <3>1. k + 1 /= 1 /\ (k + 1) - 1 = k /\ ns[k] = ms[k + 1]
      BY <2>1 DEF Shifted
    <3> DEFINE l == k + 1
    <3>2. l \in 1 .. m /\ l /= 1 /\ l - 1 = k /\ ns[k] = ms[l]
      BY <2>1, <3>1
    <3> HIDE DEF l
    <3>3. f[l] = IF l = 1 THEN ms[l] ELSE f[l - 1] \o ms[l]
      <4>1. l \in 1 .. m
        BY <3>2
      <4>2. QED
        BY <4>1, FlattensAt
    <3>4. f[l] = f[k] \o ns[k]
      BY <3>2, <3>3
    <3>5. QED
      BY <3>4 DEF l
  <2>4. g[k] = IF k = 1 THEN ns[k] ELSE g[k - 1] \o ns[k]
    BY <2>1, FlattensAt
  <2>5. f[k + 1] = h \o g[k]
    <3>1. CASE k = 1
      <4>1. f[k] = h
        <5>1. 1 \in 1 .. m
          OBVIOUS
        <5>2. QED
          BY <3>1, <5>1, FlattensAt
      <4>2. QED
        BY <2>3, <2>4, <3>1, <4>1
    <3>2. CASE k /= 1
      <4> DEFINE u == g[j]
                 v == ns[k]
      <4>1. j \in 1 .. n
        BY <2>1, <3>2
      <4>2. u \in Seq(S) /\ v \in Seq(S)
        BY <2>1, <4>1 DEF Over
      <4>3. f[k] = h \o u /\ g[k] = u \o v
        BY <2>1, <2>2, <2>4, <3>2, <4>1
      <4> HIDE DEF u
      <4>4. (h \o u) \o v = h \o (u \o v)
        <5> HIDE DEF v
        <5>1. QED
          BY <4>2, ConcatAssociative
      <4>5. QED
        BY <2>3, <4>3, <4>4
    <3>3. QED
      BY <3>1, <3>2
  <2>6. QED
    BY <2>5 DEF k
<1> HIDE DEF T
<1>3. \A j \in Nat : j \in T
  BY <1>1, <1>2, Induction
<1>4. QED
  BY <1>3 DEF T

LEMMA FlattenHead ==
  ASSUME NEW S, NEW ms \in Seq(Seq(S)), ms /= <<>>
  PROVE  FlattenSeq(ms) = Head(ms) \o FlattenSeq(Tail(ms))
<1> DEFINE ns == Tail(ms)
           n == Len(ns)
           h == Head(ms)
<1>1. /\ ns \in Seq(Seq(S)) /\ Len(ms) = n + 1 /\ n \in Nat /\ h \in Seq(S)
      /\ ms[1] = h /\ \A i \in 1 .. n : ns[i] = ms[i + 1]
  <2> DEFINE Q == Seq(S)
  <2> HIDE DEF Q
  <2>1. ms \in Seq(Q)
    BY DEF Q
  <2>2. /\ ns \in Seq(Q) /\ Len(ms) = n + 1 /\ n \in Nat /\ h \in Q
        /\ ms[1] = h /\ \A i \in 1 .. n : ns[i] = ms[i + 1]
    BY <2>1, HeadTailProperties
  <2>3. QED
    BY <2>2 DEF Q
<1> HIDE DEF ns, h, n
<1>2. PICK f : Flattens(f, ms, n + 1) /\ FlattenSeq(ms) = f[n + 1]
  BY <1>1, FlattenFunction
<1>3. f[1] = h
  <2>1. 1 \in 1 .. n + 1
    BY <1>1
  <2>2. QED
    BY <1>1, <1>2, <2>1, FlattensAt
<1>4. CASE n = 0
  <2>1. ns = <<>>
    BY <1>1, <1>4 DEF n
  <2>2. h \o <<>> = h
    BY <1>1, ConcatEmptySeq
  <2>3. FlattenSeq(ms) = h
    BY <1>2, <1>3, <1>4
  <2>4. QED
    BY <2>1, <2>2, <2>3, FlattenEmpty DEF ns, h
<1>5. CASE n /= 0
  <2>1. ns /= <<>>
    BY <1>5 DEF n
  <2>2. PICK g : Flattens(g, ns, n) /\ FlattenSeq(ns) = g[n]
    BY <1>1, <2>1, FlattenFunction DEF n
  <2>3. \A i \in 1 .. n : g[i] \in Seq(S)
    BY <1>1, <2>2, FlattensTyped DEF n
  <2>4. \A i \in 1 .. n : f[i + 1] = h \o g[i]
    <3>1. Over(S, ns, n) /\ Over(S, g, n) /\ Shifted(ns, ms, n)
      BY <1>1, <2>3 DEF n, Over, Shifted
    <3>2. QED
      <4>1. /\ h \in Seq(S) /\ n \in Nat /\ ms[1] = h
            /\ Flattens(f, ms, n + 1) /\ Flattens(g, ns, n)
        BY <1>1, <1>2, <2>2
      <4>2. QED
        BY <3>1, <4>1, FlattensShift
  <2>5. f[n + 1] = h \o g[n]
    BY <1>1, <1>5, <2>4
  <2>6. QED
    BY <1>2, <2>2, <2>5 DEF ns, h
<1>6. QED
  BY <1>4, <1>5

-----------------------------------------------------------------------------
(* The items of one source.                                                *)

One(x, T) == IF x \in T THEN <<x>> ELSE <<>>
Ones(q, T) == [i \in 1 .. Len(q) |-> One(q[i], T)]

LEMMA OneTyped ==
  ASSUME NEW S, NEW x \in S, NEW T
  PROVE  One(x, T) \in Seq(S \cap T)
<1>1. CASE x \in T
  <2> DEFINE R == S \cap T
  <2>1. x \in R
    BY <1>1
  <2> HIDE DEF R
  <2>2. <<x>> \in Seq(R)
    BY <2>1
  <2>3. One(x, T) = <<x>>
    BY <1>1 DEF One
  <2>4. QED
    BY <2>2, <2>3 DEF R
<1>2. CASE x \notin T
  <2>1. One(x, T) = <<>>
    BY <1>2 DEF One
  <2>2. QED
    BY <2>1, EmptySeq
<1>3. QED
  BY <1>1, <1>2

LEMMA SelectedOnes ==
  ASSUME NEW S, NEW q \in Seq(S), NEW T
  PROVE  /\ Selected(q, T) = FlattenSeq(Ones(q, T))
         /\ Ones(q, T) \in Seq(Seq(S \cap T)) /\ Len(Ones(q, T)) = Len(q)
<1>1. Selected(q, T) = FlattenSeq(Ones(q, T))
  BY DEF Selected, Ones, One
<1>2. \A x \in S : One(x, T) \in Seq(S \cap T)
  BY OneTyped
<1> DEFINE Q == Seq(S \cap T)
<1>3. Ones(q, T) \in Seq(Q) /\ Len(Ones(q, T)) = Len(q)
  <2>1. \A i \in 1 .. Len(q) : One(q[i], T) \in Q
    BY <1>2
  <2> HIDE DEF Q
  <2>2. QED
    BY <2>1 DEF Ones
<1>4. QED
  BY <1>1, <1>3

LEMMA SelectedEmpty ==
  ASSUME NEW T
  PROVE  Selected(<<>>, T) = <<>>
<1>1. Selected(<<>>, T) = FlattenSeq(<<>>)
  BY DEF Selected
<1>2. QED
  BY <1>1, FlattenEmpty

LEMMA SelectedTyped ==
  ASSUME NEW S, NEW q \in Seq(S), NEW T
  PROVE  Selected(q, T) \in Seq(S \cap T) /\ Selected(q, T) \in Seq(S)
<1>1. Selected(q, T) \in Seq(S \cap T)
  <2> DEFINE R == S \cap T
             o == Ones(q, T)
  <2>1. o \in Seq(Seq(R)) /\ Selected(q, T) = FlattenSeq(o)
    BY SelectedOnes
  <2> HIDE DEF R, o
  <2>2. FlattenSeq(o) \in Seq(R)
    BY <2>1, FlattenTyped
  <2>3. QED
    BY <2>1, <2>2 DEF R
<1>2. QED
  BY <1>1, SeqMonotonic

\* Only what is in the queue is selected.
LEMMA SelectedFrom ==
  ASSUME NEW S, NEW q \in Seq(S), NEW T, NEW i \in 1 .. Len(Selected(q, T))
  PROVE  \E j \in 1 .. Len(q) : q[j] \in T /\ Selected(q, T)[i] = q[j]
<1> DEFINE R == {q[j] : j \in 1 .. Len(q)}
<1>1. q \in Seq(R)
  OBVIOUS
<1> HIDE DEF R
<1>2. Selected(q, T) \in Seq(R \cap T)
  BY <1>1, SelectedTyped
<1>3. Selected(q, T)[i] \in R \cap T
  BY <1>2, ElementOfSeq
<1>4. QED
  BY <1>3 DEF R

\* Sets that agree on the queue select the same.
LEMMA SelectedSame ==
  ASSUME NEW S, NEW q \in Seq(S), NEW T, NEW U,
         \A i \in 1 .. Len(q) : q[i] \in T <=> q[i] \in U
  PROVE  Selected(q, T) = Selected(q, U)
<1>1. Ones(q, T) = Ones(q, U)
  BY DEF Ones, One
<1>2. QED
  BY <1>1, SelectedOnes

LEMMA SelectedAppend ==
  ASSUME NEW S, NEW q \in Seq(S), NEW x \in S, NEW T
  PROVE  Selected(Append(q, x), T) = Selected(q, T) \o One(x, T)
<1> DEFINE Q == Seq(S \cap T)
           r == Append(q, x)
           o == Ones(q, T)
<1>1. r \in Seq(S) /\ Len(r) = Len(q) + 1 /\ r[Len(q) + 1] = x
      /\ \A i \in 1 .. Len(q) : r[i] = q[i]
  BY AppendProperties
<1>2. o \in Seq(Q) /\ Len(o) = Len(q) /\ One(x, T) \in Q
  BY SelectedOnes, OneTyped
<1>3. Ones(r, T) \in Seq(Q) /\ Len(Ones(r, T)) = Len(r)
  BY <1>1, SelectedOnes
<1> HIDE DEF Q, r, o
<1>4. Append(o, One(x, T)) \in Seq(Q) /\ Len(Append(o, One(x, T))) = Len(q) + 1
  BY <1>2
<1>5. ASSUME NEW i \in 1 .. Len(q) + 1
      PROVE  Ones(r, T)[i] = Append(o, One(x, T))[i]
  <2>1. Ones(r, T)[i] = One(r[i], T)
    BY <1>1 DEF Ones
  <2>2. CASE i = Len(q) + 1
    <3>1. Append(o, One(x, T))[i] = One(x, T)
      BY <1>2, <2>2
    <3>2. QED
      BY <1>1, <2>1, <2>2, <3>1
  <2>3. CASE i /= Len(q) + 1
    <3>1. i \in 1 .. Len(q)
      BY <2>3
    <3>2. Append(o, One(x, T))[i] = o[i]
      BY <1>2, <3>1
    <3>3. o[i] = One(q[i], T)
      BY <3>1 DEF o, Ones
    <3>4. QED
      BY <1>1, <2>1, <3>1, <3>2, <3>3
  <2>4. QED
    BY <2>2, <2>3
<1>6. Ones(r, T) = Append(o, One(x, T))
  <2>1. Len(Ones(r, T)) = Len(q) + 1
    BY <1>1, <1>3
  <2>2. QED
    BY <1>3, <1>4, <1>5, <2>1, SeqEqual
<1>7. FlattenSeq(Append(o, One(x, T))) = FlattenSeq(o) \o One(x, T)
  BY <1>2, FlattenAppend DEF Q
<1>8. Selected(r, T) = FlattenSeq(Ones(r, T)) /\ Selected(q, T) = FlattenSeq(o)
  BY <1>1, SelectedOnes DEF o
<1>9. QED
  BY <1>6, <1>7, <1>8 DEF r

LEMMA SelectedHead ==
  ASSUME NEW S, NEW q \in Seq(S), q /= <<>>, NEW T
  PROVE  Selected(q, T) = One(Head(q), T) \o Selected(Tail(q), T)
<1> DEFINE Q == Seq(S \cap T)
           r == Tail(q)
           o == Ones(q, T)
<1>1. /\ r \in Seq(S) /\ Len(q) = Len(r) + 1 /\ q[1] = Head(q)
      /\ \A i \in 1 .. Len(r) : r[i] = q[i + 1]
  BY HeadTailProperties
<1>2. o \in Seq(Q) /\ Len(o) = Len(q)
  BY SelectedOnes
<1>3. Ones(r, T) \in Seq(Q) /\ Len(Ones(r, T)) = Len(r)
  BY <1>1, SelectedOnes
<1> HIDE DEF Q, r
<1>4. Len(r) \in Nat /\ 1 \in 1 .. Len(q)
  BY <1>1
<1>5. \A i \in 1 .. Len(q) : o[i] = One(q[i], T)
  BY DEF Ones
<1> HIDE DEF o
<1>6. /\ o /= <<>> /\ Head(o) = One(Head(q), T)
      /\ Tail(o) \in Seq(Q) /\ Len(Tail(o)) = Len(r)
      /\ \A i \in 1 .. Len(r) : Tail(o)[i] = o[i + 1]
  BY <1>1, <1>2, <1>4, <1>5
<1>7. ASSUME NEW i \in 1 .. Len(r)
      PROVE  Ones(r, T)[i] = Tail(o)[i]
  <2>1. Ones(r, T)[i] = One(r[i], T)
    BY DEF Ones
  <2>2. i + 1 \in 1 .. Len(q)
    BY <1>1, <1>4
  <2>3. QED
    BY <1>1, <1>5, <1>6, <2>1, <2>2
<1>8. Ones(r, T) = Tail(o)
  BY <1>3, <1>6, <1>7, SeqEqual
<1>9. FlattenSeq(o) = Head(o) \o FlattenSeq(Tail(o))
  BY <1>2, <1>6, FlattenHead DEF Q
<1>10. Selected(r, T) = FlattenSeq(Ones(r, T)) /\ Selected(q, T) = FlattenSeq(o)
  BY <1>1, SelectedOnes DEF o
<1>11. QED
  BY <1>6, <1>8, <1>9, <1>10 DEF r

-----------------------------------------------------------------------------
(* Sequences put together.                                                 *)

LEMMA AppendConcat ==
  ASSUME NEW S, NEW q \in Seq(S), NEW r \in Seq(S), NEW x \in S
  PROVE  q \o Append(r, x) = Append(q \o r, x)
<1>1. <<x>> \in Seq(S) /\ q \o r \in Seq(S)
  BY ConcatProperties
<1>2. Append(r, x) = r \o <<x>> /\ Append(q \o r, x) = (q \o r) \o <<x>>
  BY <1>1, AppendIsConcat
<1>3. QED
  BY <1>1, <1>2, ConcatAssociative

\* The first part is a prefix of the whole.
LEMMA PrefixOfConcat ==
  ASSUME NEW S, NEW q \in Seq(S), NEW r \in Seq(S)
  PROVE  \E n \in 0 .. Len(q \o r) : q = SubSeq(q \o r, 1, n)
<1>1. q \o r \in Seq(S) /\ Len(q \o r) = Len(q) + Len(r) /\ Len(q) \in Nat /\ Len(r) \in Nat
  BY ConcatProperties
<1>2. q = SubSeq(q \o r, 1, Len(q))
  <2>1. SubSeq(q, 1, Len(q)) = q
    BY SubSeqFull
  <2>2. CASE Len(q) > 0
    <3>1. 1 \in 1 .. Len(q) /\ Len(q) \in 1 .. Len(q)
      BY <1>1, <2>2
    <3>2. SubSeq(q \o r, 1, Len(q)) = SubSeq(q, 1, Len(q))
      BY <3>1, SubSeqOfConcat1
    <3>3. QED
      BY <2>1, <3>2
  <2>3. CASE Len(q) = 0
    <3>1. q = <<>> /\ SubSeq(q \o r, 1, 0) = <<>>
      BY <1>1, <2>3
    <3>2. QED
      BY <2>3, <3>1
  <2>4. QED
    BY <1>1, <2>2, <2>3
<1>3. Len(q) \in 0 .. Len(q \o r)
  BY <1>1
<1>4. QED
  BY <1>2, <1>3, Zenon

LEMMA HeadTailConcat ==
  ASSUME NEW S, NEW q \in Seq(S), q /= <<>>
  PROVE  <<Head(q)>> \o Tail(q) = q
<1>1. /\ Head(q) \in S /\ Tail(q) \in Seq(S) /\ Len(q) = Len(Tail(q)) + 1
      /\ Head(q) = q[1] /\ Len(q) \in Nat /\ Len(Tail(q)) \in Nat
      /\ \A i \in 1 .. Len(Tail(q)) : Tail(q)[i] = q[i + 1]
  BY HeadTailProperties
<1> DEFINE r == Tail(q)
           h == <<Head(q)>>
<1>2. h \in Seq(S) /\ Len(h) = 1 /\ h[1] = q[1]
  BY <1>1
<1> HIDE DEF r, h
<1>3. /\ h \o r \in Seq(S) /\ Len(h \o r) = Len(h) + Len(r)
      /\ \A i \in 1 .. Len(h \o r) :
           (h \o r)[i] = IF i <= Len(h) THEN h[i] ELSE r[i - Len(h)]
  <2> DEFINE w == h \o r
  <2>1. r \in Seq(S)
    BY <1>1 DEF r
  <2>2. /\ w \in Seq(S) /\ Len(w) = Len(h) + Len(r)
        /\ \A i \in 1 .. Len(h) + Len(r) :
             w[i] = IF i <= Len(h) THEN h[i] ELSE r[i - Len(h)]
    BY <1>2, <2>1, ConcatProperties
  <2> HIDE DEF w
  <2>3. /\ w \in Seq(S) /\ Len(w) = Len(h) + Len(r)
        /\ \A i \in 1 .. Len(w) :
             w[i] = IF i <= Len(h) THEN h[i] ELSE r[i - Len(h)]
    BY <2>2
  <2>4. QED
    BY <2>3, Zenon DEF w
<1>4. ASSUME NEW i \in 1 .. Len(q)
      PROVE  (h \o r)[i] = q[i]
  <2> DEFINE k == i - 1
  <2>1. i \in 1 .. Len(h \o r) /\ (i = 1 \/ (i > 1 /\ k \in 1 .. Len(r)))
    BY <1>1, <1>2, <1>3 DEF r
  <2>2. (h \o r)[i] = IF i <= 1 THEN h[i] ELSE r[k]
    BY <1>2, <1>3, <2>1
  <2>3. k + 1 = i /\ (k \in 1 .. Len(r) => r[k] = q[k + 1])
    BY <1>1 DEF r
  <2> HIDE DEF k
  <2>4. QED
    BY <1>2, <2>1, <2>2, <2>3
<1>5. QED
  BY <1>1, <1>2, <1>3, <1>4, SeqEqual DEF r, h

LEMMA HeadTailOfConcat ==
  ASSUME NEW S, NEW q \in Seq(S), NEW x \in S
  PROVE  <<x>> \o q /= <<>> /\ Head(<<x>> \o q) = x /\ Tail(<<x>> \o q) = q
<1> DEFINE h == <<x>>
           r == h \o q
<1>1. h \in Seq(S) /\ Len(h) = 1 /\ h[1] = x
  OBVIOUS
<1> HIDE DEF h
<1>2. /\ r \in Seq(S) /\ Len(r) = 1 + Len(q) /\ Len(q) \in Nat
      /\ \A i \in 1 .. 1 + Len(q) : r[i] = IF i <= 1 THEN h[i] ELSE q[i - 1]
  <2>1. /\ r \in Seq(S) /\ Len(r) = Len(h) + Len(q)
        /\ \A i \in 1 .. Len(h) + Len(q) :
             r[i] = IF i <= Len(h) THEN h[i] ELSE q[i - Len(h)]
    BY <1>1, ConcatProperties
  <2> HIDE DEF r
  <2>2. QED
    BY <1>1, <2>1
<1> HIDE DEF r
<1>3. r /= <<>> /\ Head(r) = r[1] /\ r[1] = x
  BY <1>1, <1>2
<1>4. /\ Tail(r) \in Seq(S) /\ Len(Tail(r)) = Len(q)
      /\ \A i \in 1 .. Len(q) : Tail(r)[i] = r[i + 1]
  BY <1>2, <1>3
<1>5. ASSUME NEW i \in 1 .. Len(q)
      PROVE  Tail(r)[i] = q[i]
  BY <1>2, <1>4
<1>6. Tail(r) = q
  BY <1>4, <1>5, SeqEqual
<1>7. QED
  BY <1>3, <1>6 DEF r, h

-----------------------------------------------------------------------------
(* Sequences cut in two.                                                   *)

\* A sequence is its beginning and the rest.
LEMMA SplitAt ==
  ASSUME NEW S, NEW s \in Seq(S), NEW n \in 0 .. Len(s)
  PROVE  LET p == SubSeq(s, 1, n)
             q == SubSeq(s, n + 1, Len(s))
         IN  /\ p \in Seq(S) /\ q \in Seq(S) /\ p \o q = s
             /\ Len(p) = n /\ Len(q) = Len(s) - n
<1> DEFINE p == SubSeq(s, 1, n)
           q == SubSeq(s, n + 1, Len(s))
<1>1. n \in Nat /\ Len(s) \in Nat /\ n <= Len(s)
  OBVIOUS
<1>2. p \in Seq(S) /\ Len(p) = n /\ \A i \in 1 .. n : p[i] = s[i]
  <2>1. \A i \in 1 .. n : s[i] \in S
    BY <1>1
  <2>2. /\ p \in Seq(S) /\ Len(p) = IF 1 <= n THEN n - 1 + 1 ELSE 0
        /\ \A i \in 1 .. n - 1 + 1 : p[i] = s[1 + i - 1]
    BY <1>1, <2>1, SubSeqProperties
  <2> HIDE DEF p
  <2>3. QED
    BY <1>1, <2>2
<1>3. /\ q \in Seq(S) /\ Len(q) = Len(s) - n
      /\ \A i \in 1 .. Len(s) - n : q[i] = s[n + i]
  <2> DEFINE l == Len(s)
  <2>1. \A i \in n + 1 .. l : s[i] \in S
    BY <1>1
  <2>2. /\ q \in Seq(S) /\ Len(q) = IF n + 1 <= l THEN l - (n + 1) + 1 ELSE 0
        /\ \A i \in 1 .. l - (n + 1) + 1 : q[i] = s[(n + 1) + i - 1]
    BY <1>1, <2>1, SubSeqProperties
  <2> HIDE DEF q, l
  <2>3. l \in Nat /\ n <= l
    BY <1>1 DEF l
  <2>4. /\ q \in Seq(S) /\ Len(q) = l - n
        /\ \A i \in 1 .. l - n : q[i] = s[n + i]
    BY <1>1, <2>2, <2>3
  <2>5. QED
    BY <2>4 DEF l
<1> HIDE DEF p, q
<1> DEFINE r == p \o q
<1>4. /\ r \in Seq(S) /\ Len(r) = Len(p) + Len(q)
      /\ \A i \in 1 .. Len(p) + Len(q) :
           r[i] = IF i <= Len(p) THEN p[i] ELSE q[i - Len(p)]
  BY <1>2, <1>3, ConcatProperties
<1> HIDE DEF r
<1>5. ASSUME NEW i \in 1 .. Len(s)
      PROVE  r[i] = s[i]
  <2>1. CASE i <= n
    BY <1>1, <1>2, <1>3, <1>4, <2>1
  <2>2. CASE i > n
    <3> DEFINE k == i - n
    <3>1. k \in 1 .. Len(s) - n /\ n + k = i
      BY <1>1, <2>2
    <3>2. r[i] = q[k]
      BY <1>1, <1>2, <1>3, <1>4, <2>2
    <3> HIDE DEF k
    <3>3. QED
      BY <1>3, <3>1, <3>2
  <2>3. QED
    BY <1>1, <2>1, <2>2
<1>6. r = s
  BY <1>1, <1>2, <1>3, <1>4, <1>5, SeqEqual
<1>7. QED
  BY <1>2, <1>3, <1>6 DEF p, q, r

\* Concatenation associates, when its first part is one.
LEMMA Regroup ==
  ASSUME NEW S, NEW p, NEW a \in Seq(S), NEW b \in Seq(S), NEW c \in Seq(S), p = a \o b
  PROVE  p \o c = a \o (b \o c)
<1>1. (a \o b) \o c = a \o (b \o c)
  BY ConcatAssociative
<1>2. QED
  BY <1>1

\* s is cut into p and q.  (A definition, because the solver takes an equation
\* between concatenations apart.)
Cut(s, p, q) == s = p \o q

\* What is left of the first part of one cut after that of a shorter one.
LEMMA Remainder ==
  ASSUME NEW S, NEW s, NEW p \in Seq(S), NEW q \in Seq(S), NEW f \in Seq(S), NEW t \in Seq(S),
         Cut(s, p, q), Cut(s, f, t), Len(p) >= Len(f)
  PROVE  LET r == SubSeq(p, Len(f) + 1, Len(p))
         IN  r \in Seq(S) /\ Len(r) = Len(p) - Len(f) /\ Cut(t, r, q) /\ Cut(p, f, r)
<1> DEFINE n == Len(f)
           f2 == SubSeq(p, 1, n)
           r == SubSeq(p, n + 1, Len(p))
<1>1. n \in Nat /\ Len(p) \in Nat /\ n \in 0 .. Len(p)
  OBVIOUS
<1>2. /\ f2 \in Seq(S) /\ r \in Seq(S) /\ p = f2 \o r
      /\ Len(f2) = n /\ Len(r) = Len(p) - n
  <2> HIDE DEF n
  <2>1. /\ f2 \in Seq(S) /\ r \in Seq(S) /\ f2 \o r = p
        /\ Len(f2) = n /\ Len(r) = Len(p) - n
    BY <1>1, SplitAt, Zenon
  <2>2. QED
    BY <2>1
<1> HIDE DEF r, f2
<1>3. f2 \o (r \o q) = f \o t
  <2>1. p = f2 \o r /\ f2 \in Seq(S) /\ r \in Seq(S)
    BY <1>2
  <2> HIDE DEF n
  <2>2. p \o q = f2 \o (r \o q)
    BY <2>1, Regroup
  <2>3. p \o q = f \o t
    BY DEF Cut
  <2>4. QED
    BY <2>2, <2>3, Zenon
<1>4. r \o q \in Seq(S)
  BY <1>2, ConcatProperties
<1> DEFINE u == r \o q
           v == f \o t
<1>5. /\ \A i \in 1 .. n + Len(u) : v[i] = IF i <= n THEN f2[i] ELSE u[i - n]
      /\ \A i \in 1 .. n + Len(t) : v[i] = IF i <= n THEN f[i] ELSE t[i - n]
  <2> DEFINE w == f2 \o u
  <2>1. w = v /\ u \in Seq(S)
    BY <1>3, <1>4
  <2>2. \A i \in 1 .. Len(f2) + Len(u) : w[i] = IF i <= Len(f2) THEN f2[i] ELSE u[i - Len(f2)]
    <3>1. u \in Seq(S) /\ f2 \in Seq(S)
      BY <1>2, <2>1
    <3> HIDE DEF u
    <3>2. QED
      BY <3>1, ConcatProperties
  <2>3. \A i \in 1 .. Len(f) + Len(t) : v[i] = IF i <= Len(f) THEN f[i] ELSE t[i - Len(f)]
    BY ConcatProperties
  <2> HIDE DEF w, u, v
  <2>4. QED
    BY <1>2, <2>1, <2>2, <2>3 DEF n
<1>6. \A i \in 1 .. n : f2[i] = f[i]
  <2>1. Len(u) \in Nat /\ Len(t) \in Nat
    BY <1>4
  <2> DEFINE k == Len(u)
             l == Len(t)
  <2> HIDE DEF n, u, v, k, l
  <2>2. QED
    <3>1. k \in Nat /\ l \in Nat /\ n \in Nat
      BY <1>1, <2>1 DEF k, l
    <3>2. /\ \A i \in 1 .. n + k : v[i] = IF i <= n THEN f2[i] ELSE u[i - n]
          /\ \A i \in 1 .. n + l : v[i] = IF i <= n THEN f[i] ELSE t[i - n]
      BY <1>5 DEF k, l
    <3>3. QED
      BY <3>1, <3>2
<1>7. f2 = f
  BY <1>2, <1>6, SeqEqual DEF n
<1>8. f \o (r \o q) = f \o t
  BY <1>3, <1>7
<1>9. r \o q = t
  <2>1. \A x, y, z \in Seq(S) : x \o y = x \o z => y = z
    BY ConcatSimplifications, Zenon
  <2>2. QED
    BY <1>4, <1>8, <2>1, Zenon
<1>10. QED
  BY <1>2, <1>7, <1>9 DEF r, n, Cut

\* The first parts of two cuts agree as far as both go.
LEMMA FirstPart ==
  ASSUME NEW S, NEW s, NEW p \in Seq(S), NEW q \in Seq(S), NEW f \in Seq(S), NEW t \in Seq(S),
         Cut(s, p, q), Cut(s, f, t)
  PROVE  \A i \in 1 .. Len(p) : i <= Len(f) => p[i] = f[i]
<1> DEFINE u == p \o q
           v == f \o t
<1>1. u = v /\ Len(p) \in Nat /\ Len(f) \in Nat /\ Len(q) \in Nat /\ Len(t) \in Nat
  BY DEF Cut
<1>2. \A i \in 1 .. Len(p) + Len(q) : u[i] = IF i <= Len(p) THEN p[i] ELSE q[i - Len(p)]
  BY ConcatProperties
<1>3. \A i \in 1 .. Len(f) + Len(t) : v[i] = IF i <= Len(f) THEN f[i] ELSE t[i - Len(f)]
  BY ConcatProperties
<1> HIDE DEF u, v
<1>4. QED
  BY <1>1, <1>2, <1>3

\* The parts and the whole.
LEMMA CutSizes ==
  ASSUME NEW S, NEW s, NEW p \in Seq(S), NEW q \in Seq(S), Cut(s, p, q)
  PROVE  s \in Seq(S) /\ Len(s) = Len(p) + Len(q) /\ Len(p) \in Nat /\ Len(q) \in Nat
<1>1. p \o q \in Seq(S) /\ Len(p \o q) = Len(p) + Len(q)
  BY ConcatProperties
<1>2. QED
  BY <1>1 DEF Cut

\* Something is written behind a cut.
LEMMA CutGrows ==
  ASSUME NEW S, NEW s, NEW p \in Seq(S), NEW q \in Seq(S), NEW b \in Seq(S), Cut(s, p, q)
  PROVE  Cut(s \o b, p, q \o b)
<1>1. s = p \o q
  BY DEF Cut
<1>2. s \o b = p \o (q \o b)
  BY <1>1, Regroup
<1>3. QED
  BY <1>2 DEF Cut

\* A cut moves to the right.
LEMMA CutMoves ==
  ASSUME NEW S, NEW s, NEW p \in Seq(S), NEW q \in Seq(S), Cut(s, p, q),
         NEW n \in 0 .. Len(q)
  PROVE  Cut(s, p \o SubSeq(q, 1, n), SubSeq(q, n + 1, Len(q)))
<1> DEFINE a == SubSeq(q, 1, n)
           b == SubSeq(q, n + 1, Len(q))
<1>1. a \in Seq(S) /\ b \in Seq(S) /\ q = a \o b
  BY SplitAt
<1> HIDE DEF a, b
<1>2. (p \o a) \o b = p \o (a \o b)
  BY <1>1, Regroup
<1>3. s = p \o (a \o b)
  BY <1>1 DEF Cut
<1>4. QED
  BY <1>2, <1>3 DEF Cut, a, b

\* The parts of a cut are the beginning and the rest.
LEMMA CutAt ==
  ASSUME NEW S, NEW s, NEW p \in Seq(S), NEW q \in Seq(S), Cut(s, p, q)
  PROVE  /\ Len(p) \in 0 .. Len(s) /\ p = SubSeq(s, 1, Len(p))
         /\ q = SubSeq(s, Len(p) + 1, Len(s))
<1>1. s \in Seq(S) /\ Len(p) \in Nat /\ Len(q) \in Nat /\ Len(s) = Len(p) + Len(q)
  BY CutSizes
<1> DEFINE n == Len(p)
           a == SubSeq(s, 1, n)
           b == SubSeq(s, n + 1, Len(s))
<1>2. n \in 0 .. Len(s)
  BY <1>1
<1>3. a \in Seq(S) /\ b \in Seq(S) /\ s = a \o b /\ Len(a) = n
  BY <1>1, <1>2, SplitAt
<1> HIDE DEF a, b
<1>4. Cut(s, a, b)
  BY <1>3 DEF Cut
<1> DEFINE e == SubSeq(p, n + 1, Len(p))
<1>5. Len(e) = Len(p) - Len(a) /\ Cut(b, e, q) /\ Cut(p, a, e) /\ e \in Seq(S)
  <2>1. Len(p) >= Len(a)
    BY <1>1, <1>3
  <2>2. QED
    <3> DEFINE r == SubSeq(p, Len(a) + 1, Len(p))
    <3>1. r = e
      BY <1>3
    <3>2. r \in Seq(S) /\ Len(r) = Len(p) - Len(a) /\ Cut(b, r, q) /\ Cut(p, a, r)
      <4> HIDE DEF n
      <4>1. QED
        BY <1>3, <1>4, <2>1, Remainder
    <3> HIDE DEF e, r
    <3>3. QED
      BY <3>1, <3>2
<1> HIDE DEF e
<1>6. Len(e) = 0
  BY <1>1, <1>3, <1>5
<1>7. e = <<>>
  BY <1>5, <1>6
<1>8. p = a
  <2>1. a \o <<>> = a
    BY <1>3, ConcatEmptySeq
  <2>2. QED
    BY <1>5, <1>7, <2>1 DEF Cut
<1>9. q = b
  <2>1. <<>> \o q = q
    BY ConcatEmptySeq
  <2>2. QED
    BY <1>5, <1>7, <2>1 DEF Cut
<1>10. QED
  BY <1>2, <1>8, <1>9 DEF a, b, n
=============================================================================
