----------------------------- MODULE Induction -----------------------------
(***************************************************************************)
(* Induction as the proofs of this project use it: a non-empty set of      *)
(* naturals has a least element, and a non-empty family of subsets of a    *)
(* finite set has one that contains no other.  A proof by induction takes  *)
(* the set of the counterexamples and looks at the least one.  What the    *)
(* folds over sequences compute follows from it: a recursive function is   *)
(* the CHOOSEn solution of its equation, and PrefixSolution and            *)
(* SetSolution say that the equations of FlattenSeq and FoldLeft have one. *)
(***************************************************************************)
EXTENDS Integers, FiniteSetsExt, SequencesExt, FiniteSetTheorems, SequenceTheorems,
        TLAPS

\* A non-empty set of naturals has a least element.
LEMMA LeastNatural ==
  ASSUME NEW S \in SUBSET Nat, S # {}
  PROVE  \E m \in S : \A k \in S : m <= k
<1>1. PICK m \in S : \A k \in S : ~(<<k, m>> \in OpToRel(<, Nat))
  BY NatLessThanWellFounded, WFMin, Zenon
<1>2. \A k \in S : ~(k < m)
  BY <1>1 DEF OpToRel
<1>. QED
  BY <1>2

\* A non-empty set of naturals that is bounded has a largest element.
LEMMA GreatestNatural ==
  ASSUME NEW S \in SUBSET Nat, S # {}, NEW b \in Nat, \A k \in S : k <= b
  PROVE  \E m \in S : \A k \in S : k <= m
<1> DEFINE T == {j \in Nat : \E k \in S : j = b - k}
<1>1. T \in SUBSET Nat /\ T # {}
  <2>1. PICK k \in S : TRUE
    OBVIOUS
  <2>2. b - k \in Nat
    OBVIOUS
  <2>. QED
    BY <2>2
<1>2. PICK j \in T : \A i \in T : j <= i
  <2> HIDE DEF T
  <2>. QED
    BY <1>1, LeastNatural
<1>3. PICK m \in S : j = b - m
  OBVIOUS
<1>4. ASSUME NEW k \in S PROVE k <= m
  <2>1. b - k \in T
    OBVIOUS
  <2>2. j <= b - k
    BY <1>2, <2>1
  <2>. QED
    BY <1>3, <2>2
<1>. QED
  BY <1>4

\* Min is the least element of a non-empty set of naturals.
LEMMA MinIsLeast ==
  ASSUME NEW S \in SUBSET Nat, S # {}
  PROVE  Min(S) \in S /\ \A k \in S : Min(S) <= k
BY LeastNatural DEF Min

\* Max is the largest element of a non-empty bounded set of naturals.
LEMMA MaxIsGreatest ==
  ASSUME NEW S \in SUBSET Nat, S # {}, NEW b \in Nat, \A k \in S : k <= b
  PROVE  Max(S) \in S /\ \A k \in S : k <= Max(S)
<1>1. \E m \in S : \A k \in S : m >= k
  BY GreatestNatural
<1>2. Max(S) \in S /\ \A k \in S : Max(S) >= k
  BY <1>1 DEF Max
<1>. QED
  BY <1>2

\* A non-empty family of subsets of a finite set has one that contains no
\* other.
LEMMA LeastSubset ==
  ASSUME NEW D, IsFiniteSet(D), NEW B \in SUBSET SUBSET D, B # {}
  PROVE  \E s \in B : \A t \in B : ~(t \subseteq s /\ t # s)
<1>1. IsWellFoundedOn(StrictSubsetOrdering(D), SUBSET D)
  BY FS_StrictSubsetOrderingWellFounded, FS_FiniteSubsetsOfFinite, Zenon
<1>2. \E s \in B : \A t \in B : ~(<<t, s>> \in StrictSubsetOrdering(D))
  BY <1>1, WFMin
<1>. QED
  BY <1>2 DEF StrictSubsetOrdering

\* A finite set of naturals is bounded.
LEMMA FiniteIsBounded ==
  ASSUME NEW S, IsFiniteSet(S), \A k \in S : k \in Nat
  PROVE  \E b \in Nat : \A k \in S : k <= b
<1> DEFINE Bounded(T) == \E b \in Nat : \A k \in T : k <= b
           B == {T \in SUBSET S : ~Bounded(T)}
<1>1. SUFFICES ASSUME B # {} PROVE FALSE
  <2>1. S \notin B
    BY <1>1
  <2>. QED
    BY <2>1
<1>2. PICK T \in B : \A U \in B : ~(U \subseteq T /\ U # T)
  <2>1. B \in SUBSET SUBSET S
    OBVIOUS
  <2> HIDE DEF B
  <2>. QED
    BY <1>1, <2>1, LeastSubset
<1>3. PICK x \in T : TRUE
  <2>1. T # {}
    <3>1. Bounded({})
      OBVIOUS
    <3>. QED
      BY <3>1
  <2>. QED
    BY <2>1
<1>4. Bounded(T \ {x})
  <2>1. T \ {x} \notin B
    <3> HIDE DEF B
    <3>. QED
      BY <1>2
  <2> HIDE DEF Bounded
  <2>. QED
    BY <2>1
<1>5. PICK b \in Nat : \A k \in T \ {x} : k <= b
  BY <1>4
<1>6. x \in Nat
  OBVIOUS
<1>7. \A k \in T : k <= b + x
  BY <1>5, <1>6
<1>8. b + x \in Nat
  BY <1>6
<1>. QED
  BY <1>7, <1>8

\* Induction over 0 .. n for a set of good indices, upwards and downwards.
LEMMA UpInduction ==
  ASSUME NEW n \in Nat, NEW G, 0 \in G, \A k \in 1 .. n : k - 1 \in G => k \in G
  PROVE  \A k \in 0 .. n : k \in G
<1> DEFINE B == {k \in 0 .. n : k \notin G}
<1>1. SUFFICES ASSUME B # {} PROVE FALSE
  OBVIOUS
<1>2. PICK m \in B : \A k \in B : m <= k
  <2>1. B \in SUBSET Nat
    OBVIOUS
  <2> HIDE DEF B
  <2>. QED
    BY <1>1, <2>1, LeastNatural
<1>3. m \in 1 .. n /\ m \notin G
  OBVIOUS
<1>4. m - 1 \in 0 .. n /\ ~(m <= m - 1)
  BY <1>3
<1>5. m - 1 \in G
  BY <1>2, <1>4
<1>. QED
  BY <1>3, <1>5

\* Induction downwards from n.
LEMMA DownInduction ==
  ASSUME NEW n \in Nat, NEW G, n \in G, \A k \in 1 .. n : k \in G => k - 1 \in G
  PROVE  \A k \in 0 .. n : k \in G
<1> DEFINE H == {k \in 0 .. n : n - k \in G}
<1>1. 0 \in H
  OBVIOUS
<1>2. ASSUME NEW k \in 1 .. n, k - 1 \in H PROVE k \in H
  <2>1. n - (k - 1) \in G
    BY <1>2
  <2>2. n - (k - 1) \in 1 .. n /\ (n - (k - 1)) - 1 = n - k
    OBVIOUS
  <2>3. n - k \in G
    BY <2>1, <2>2
  <2>. QED
    BY <2>3
<1>3. \A k \in 0 .. n : k \in H
  <2> HIDE DEF H
  <2>. QED
    BY <1>1, <1>2, UpInduction
<1>4. ASSUME NEW k \in 0 .. n PROVE k \in G
  <2>1. n - k \in 0 .. n /\ n - (n - k) = k
    OBVIOUS
  <2>2. n - (n - k) \in G
    BY <1>3, <2>1
  <2>. QED
    BY <2>1, <2>2
<1>. QED
  BY <1>4

-----------------------------------------------------------------------------
(* Folds over sequences.                                                    *)

\* g is the recursion over the indices 1 .. n: a value of V for each of them.
SolvesPrefixes(g, n, V, base, step) ==
  /\ g \in [0 .. n -> V]
  /\ g[0] = base
  /\ \A i \in 1 .. n : g[i] = step[<<g[i - 1], i>>]

\* f is the recursion over the sets of indices, the largest index last.
SolvesSets(f, n, V, base, step) ==
  /\ f \in [SUBSET (1 .. n) -> V]
  /\ \A s \in SUBSET (1 .. n) :
        f[s] = IF s = {} THEN base ELSE step[<<f[s \ {Max(s)}], Max(s)>>]

\* The indices before k are those of a prefix, k is the largest of them.
LEMMA MaxOfPrefix ==
  ASSUME NEW k \in Nat \ {0}
  PROVE  Max(1 .. k) = k /\ (1 .. k) \ {k} = 1 .. k - 1
<1>1. Max(1 .. k) \in 1 .. k /\ \A j \in 1 .. k : j <= Max(1 .. k)
  <2>1. (1 .. k) \in SUBSET Nat /\ (1 .. k) # {} /\ \A j \in 1 .. k : j <= k
    OBVIOUS
  <2>. QED
    BY <2>1, MaxIsGreatest
<1>. QED
  BY <1>1

\* The greatest of some indices is one of them.
LEMMA MaxOfIndices ==
  ASSUME NEW n \in Nat, NEW s \in SUBSET (1 .. n), s # {}
  PROVE  Max(s) \in s /\ Max(s) \in 1 .. n
<1>1. s \in SUBSET Nat /\ \A k \in s : k <= n
  OBVIOUS
<1>2. Max(s) \in s
  BY <1>1, MaxIsGreatest
<1>. QED
  BY <1>2

\* A recursion over the indices of a sequence has a solution.
LEMMA PrefixSolution ==
  ASSUME NEW n \in Nat, NEW V, NEW base \in V, NEW step \in [V \X (1 .. n) -> V]
  PROVE  \E g : SolvesPrefixes(g, n, V, base, step)
<1> USE DEF SolvesPrefixes
<1> DEFINE Solves(g, k) == SolvesPrefixes(g, k, V, base, step)
           Bad == {k \in 0 .. n : ~ \E g : Solves(g, k)}
<1>1. SUFFICES ASSUME Bad # {} PROVE FALSE
  <2>1. n \notin Bad
    BY <1>1
  <2>2. \E g : Solves(g, n)
    <3> HIDE DEF Solves
    <3>. QED
      BY <2>1
  <2>. QED
    BY <2>2
<1>2. PICK k \in Bad : \A j \in Bad : k <= j
  <2>1. Bad \in SUBSET Nat
    OBVIOUS
  <2> HIDE DEF Bad
  <2>. QED
    BY <1>1, <2>1, LeastNatural
<1>3. CASE k = 0
  <2>1. Solves([i \in 0 .. 0 |-> base], 0)
    OBVIOUS
  <2>. QED
    BY <1>3, <2>1
<1>4. CASE k # 0
  <2>1. k - 1 \in 0 .. n /\ k - 1 \notin Bad
    <3>1. k - 1 \in 0 .. n /\ ~(k <= k - 1)
      BY <1>4
    <3> HIDE DEF Bad
    <3>. QED
      BY <1>2, <3>1
  <2>2. PICK g : Solves(g, k - 1)
    <3> HIDE DEF Solves
    <3>. QED
      BY <2>1
  <2> DEFINE h == [i \in 0 .. k |-> IF i = k THEN step[<<g[k - 1], k>>] ELSE g[i]]
  <2>3. g[k - 1] \in V /\ k \in 1 .. n
    BY <1>4, <2>2
  <2>4. step[<<g[k - 1], k>>] \in V
    BY <2>3
  <2>5. h \in [0 .. k -> V]
    BY <2>2, <2>4
  <2>6. h[0] = base
    BY <1>4, <2>2
  <2>7. ASSUME NEW i \in 1 .. k PROVE h[i] = step[<<h[i - 1], i>>]
    <3>1. h[i - 1] = g[i - 1]
      OBVIOUS
    <3>2. CASE i = k
      <4>1. h[k] = step[<<g[k - 1], k>>] /\ h[k - 1] = g[k - 1]
        BY <3>1, <3>2
      <4>. QED
        BY <3>2, <4>1
    <3>3. CASE i # k
      BY <2>2, <3>1, <3>3
    <3>. QED
      BY <3>2, <3>3
  <2>8. Solves(h, k)
    BY <2>5, <2>6, <2>7
  <2> HIDE DEF Solves
  <2>. QED
    BY <2>8
<1>. QED
  BY <1>3, <1>4

\* A recursion over the subsets of an index set that takes the largest
\* element out of a set has a solution.
LEMMA SetSolution ==
  ASSUME NEW n \in Nat, NEW V, NEW base \in V, NEW step \in [V \X (1 .. n) -> V]
  PROVE  \E f : SolvesSets(f, n, V, base, step)
<1> USE DEF SolvesSets
<1> DEFINE Eq(f, s) == f[s] = IF s = {} THEN base
                              ELSE step[<<f[s \ {Max(s)}], Max(s)>>]
           Solves(f, k) == SolvesSets(f, k, V, base, step)
           Bad == {k \in 0 .. n : ~ \E f : Solves(f, k)}
<1>1. SUFFICES ASSUME Bad # {} PROVE FALSE
  <2>1. n \notin Bad
    BY <1>1
  <2>2. \E f : Solves(f, n)
    <3> HIDE DEF Solves
    <3>. QED
      BY <2>1
  <2>. QED
    BY <2>2
<1>2. PICK k \in Bad : \A j \in Bad : k <= j
  <2>1. Bad \in SUBSET Nat
    OBVIOUS
  <2> HIDE DEF Bad
  <2>. QED
    BY <1>1, <2>1, LeastNatural
<1>3. CASE k = 0
  <2>1. Solves([s \in SUBSET (1 .. 0) |-> base], 0)
    OBVIOUS
  <2>. QED
    BY <1>3, <2>1
<1>4. CASE k # 0
  <2>1. k - 1 \in 0 .. n /\ k - 1 \notin Bad
    <3>1. k - 1 \in 0 .. n /\ ~(k <= k - 1)
      BY <1>4
    <3> HIDE DEF Bad
    <3>. QED
      BY <1>2, <3>1
  <2>2. PICK f : Solves(f, k - 1)
    <3> HIDE DEF Solves
    <3>. QED
      BY <2>1
  <2> DEFINE h == [s \in SUBSET (1 .. k) |->
                     IF k \in s THEN step[<<f[s \ {k}], k>>] ELSE f[s]]
  <2>3. ASSUME NEW s \in SUBSET (1 .. k)
        PROVE  /\ k \in s => s \ {k} \in SUBSET (1 .. k - 1)
               /\ k \notin s => s \in SUBSET (1 .. k - 1)
    OBVIOUS
  <2>4. h \in [SUBSET (1 .. k) -> V]
    <3>1. ASSUME NEW s \in SUBSET (1 .. k), k \in s
          PROVE  step[<<f[s \ {k}], k>>] \in V
      <4>1. f[s \ {k}] \in V /\ k \in 1 .. n
        BY <1>4, <2>2, <2>3, <3>1
      <4>. QED
        BY <4>1
    <3>. QED
      BY <2>2, <2>3, <3>1
  <2>5. ASSUME NEW s \in SUBSET (1 .. k) PROVE Eq(h, s)
    <3>1. CASE s = {}
      <4>1. f[s] = base
        BY <2>2, <3>1
      <4>. QED
        BY <3>1, <4>1
    <3>2. CASE s # {} /\ k \in s
      <4>1. s \in SUBSET Nat /\ \A j \in s : j <= k
        OBVIOUS
      <4>2. Max(s) \in s /\ \A j \in s : j <= Max(s)
        BY <3>2, <4>1, MaxIsGreatest
      <4>3. Max(s) = k
        <5>1. k \in Nat /\ Max(s) \in Nat /\ k <= Max(s) /\ Max(s) <= k
          BY <3>2, <4>1, <4>2
        <5>. QED
          BY <5>1
      <4>4. h[s \ {k}] = f[s \ {k}]
        OBVIOUS
      <4>. QED
        BY <3>2, <4>3, <4>4
    <3>3. CASE s # {} /\ k \notin s
      <4>1. s \in SUBSET (1 .. k - 1) /\ s \ {Max(s)} \in SUBSET (1 .. k)
        BY <2>3, <3>3
      <4>2. h[s \ {Max(s)}] = f[s \ {Max(s)}] /\ h[s] = f[s]
        BY <3>3, <4>1
      <4>3. Eq(f, s)
        BY <2>2, <4>1
      <4>. QED
        BY <3>3, <4>2, <4>3
    <3>. QED
      BY <3>1, <3>2, <3>3
  <2>6. Solves(h, k)
    BY <2>4, <2>5
  <2> HIDE DEF Solves
  <2>. QED
    BY <2>6
<1>. QED
  BY <1>3, <1>4

\* A function of sets of indices that makes the steps of a recursion on the
\* sets 1 .. k is a recursion over the indices.
LEMMA SetsToPrefixes ==
  ASSUME NEW n \in Nat, NEW V, NEW base \in V, NEW step, NEW f,
         f[{}] = base,
         \A k \in 1 .. n : f[1 .. k - 1] \in V =>
           f[1 .. k] = step[<<f[1 .. k - 1], k>>] /\ f[1 .. k] \in V
  PROVE  SolvesPrefixes([k \in 0 .. n |-> f[1 .. k]], n, V, base, step)
<1> DEFINE G == {k \in 0 .. n : f[1 .. k] \in V}
<1>1. 1 .. 0 = {}
  OBVIOUS
<1>2. 0 \in G
  BY <1>1
<1>3. ASSUME NEW k \in 1 .. n, k - 1 \in G PROVE k \in G
  <2>1. f[1 .. k - 1] \in V /\ k \in 0 .. n
    BY <1>3
  <2>2. f[1 .. k] \in V
    BY <2>1
  <2>. QED
    BY <2>1, <2>2
<1>4. \A k \in 0 .. n : k \in G
  <2> HIDE DEF G
  <2>. QED
    BY <1>2, <1>3, UpInduction
<1>5. \A k \in 0 .. n : f[1 .. k] \in V
  BY <1>4
<1> DEFINE g == [k \in 0 .. n |-> f[1 .. k]]
<1>6. g \in [0 .. n -> V] /\ g[0] = base
  BY <1>1, <1>5
<1>7. ASSUME NEW k \in 1 .. n PROVE g[k] = step[<<g[k - 1], k>>]
  <2>1. k \in 0 .. n /\ k - 1 \in 0 .. n
    OBVIOUS
  <2>2. f[1 .. k] = step[<<f[1 .. k - 1], k>>]
    BY <1>5, <2>1
  <2>3. g[k] = f[1 .. k] /\ g[k - 1] = f[1 .. k - 1]
    BY <2>1
  <2>. QED
    BY <2>2, <2>3
<1>. QED
  BY <1>6, <1>7 DEF SolvesPrefixes

-----------------------------------------------------------------------------
\* FlattenSeq of a sequence that is not empty is the last of its prefixes.
LEMMA FlattenPrefixes ==
  ASSUME NEW T, NEW q \in Seq(Seq(T)), Len(q) # 0
  PROVE  \E f \in [1 .. Len(q) -> Seq(T)] :
           /\ FlattenSeq(q) = f[Len(q)]
           /\ \A i \in 1 .. Len(q) : f[i] = IF i = 1 THEN q[i] ELSE f[i - 1] \o q[i]
<1> DEFINE n == Len(q)
           V == Seq(T)
           Eq(f) == f = [i \in 1 .. n |-> IF i = 1 THEN q[i] ELSE f[i - 1] \o q[i]]
           F == CHOOSE f : Eq(f)
           step == [p \in V \X (1 .. n) |-> IF p[2] = 1 THEN q[p[2]] ELSE p[1] \o q[p[2]]]
<1>1. n \in Nat \ {0} /\ \A i \in 1 .. n : q[i] \in V
  OBVIOUS
<1>2. FlattenSeq(q) = F[n]
  BY <1>1, Zenon DEF FlattenSeq
<1>3. step \in [V \X (1 .. n) -> V]
  <2>1. ASSUME NEW p \in V \X (1 .. n)
        PROVE  (IF p[2] = 1 THEN q[p[2]] ELSE p[1] \o q[p[2]]) \in V
    <3>1. p[1] \in V /\ q[p[2]] \in V
      BY <1>1
    <3>. QED
      BY <3>1
  <2> HIDE DEF V, n
  <2>. QED
    BY <2>1
<1>4. PICK g : SolvesPrefixes(g, n, V, q[1], step)
  <2>1. q[1] \in V /\ n \in Nat
    BY <1>1
  <2> HIDE DEF step, V, n
  <2>. QED
    BY <1>3, <2>1, PrefixSolution
<1> DEFINE h == [i \in 1 .. n |-> g[i]]
<1>5. ASSUME NEW i \in 1 .. n
      PROVE  h[i] = IF i = 1 THEN q[i] ELSE h[i - 1] \o q[i]
  <2>1. g[i - 1] \in V /\ g[i] = step[<<g[i - 1], i>>]
    <3>1. i - 1 \in 0 .. n
      BY <1>1
    <3> HIDE DEF step, V, n
    <3>. QED
      BY <1>4, <3>1 DEF SolvesPrefixes
  <2>2. step[<<g[i - 1], i>>] = IF i = 1 THEN q[i] ELSE g[i - 1] \o q[i]
    <3> HIDE DEF V, n
    <3>. QED
      BY <2>1
  <2>3. i # 1 => i - 1 \in 1 .. n
    BY <1>1
  <2> HIDE DEF step, V, n
  <2>. QED
    BY <2>1, <2>2, <2>3
<1>6. Eq(h)
  <2> HIDE DEF n
  <2>. QED
    BY <1>5
<1>7. Eq(F)
  <2> HIDE DEF h
  <2>. QED
    BY <1>6, Zenon
<1>8. ASSUME NEW i \in 1 .. n
      PROVE  F[i] = IF i = 1 THEN q[i] ELSE F[i - 1] \o q[i]
  <2> HIDE DEF F, n
  <2>. QED
    BY <1>7
<1>9. \A i \in 1 .. n : F[i] = h[i]
  <2> HIDE DEF F, h
  <2> DEFINE Bad == {i \in 1 .. n : F[i] # h[i]}
  <2>1. SUFFICES ASSUME Bad # {} PROVE FALSE
    OBVIOUS
  <2>2. PICK i \in Bad : \A j \in Bad : i <= j
    <3>1. Bad \in SUBSET Nat
      OBVIOUS
    <3> HIDE DEF Bad
    <3>. QED
      BY <2>1, <3>1, LeastNatural
  <2>3. i # 1
    BY <1>5, <1>8
  <2>4. i - 1 \in 1 .. n /\ i - 1 \notin Bad
    <3>1. i - 1 \in 1 .. n /\ ~(i <= i - 1)
      BY <1>1, <2>3
    <3> HIDE DEF Bad
    <3>. QED
      BY <2>2, <3>1
  <2>5. F[i - 1] = h[i - 1]
    BY <2>4
  <2>. QED
    BY <1>5, <1>8, <2>3, <2>5
<1>10. F \in [1 .. n -> V]
  <2>1. h \in [1 .. n -> V]
    <3> HIDE DEF V, n
    <3>. QED
      BY <1>4 DEF SolvesPrefixes
  <2>2. F = [i \in 1 .. n |-> F[i]]
    <3> HIDE DEF F, n
    <3>. QED
      BY <1>7
  <2> HIDE DEF F, h, V, n
  <2>. QED
    BY <1>9, <2>1, <2>2
<1> HIDE DEF F
<1>. QED
  BY <1>2, <1>8, <1>10

\* FlattenSeq returns a sequence of the elements.
LEMMA FlattenType ==
  ASSUME NEW T, NEW q \in Seq(Seq(T))
  PROVE  FlattenSeq(q) \in Seq(T)
<1>1. CASE Len(q) = 0
  <2>1. FlattenSeq(q) = q
    BY <1>1, Zenon DEF FlattenSeq
  <2>. QED
    BY <1>1, <2>1
<1>2. CASE Len(q) # 0
  <2>1. PICK f \in [1 .. Len(q) -> Seq(T)] : FlattenSeq(q) = f[Len(q)]
    BY <1>2, FlattenPrefixes
  <2>. QED
    BY <1>2, <2>1, SMTT(30)
<1>. QED
  BY <1>1, <1>2

\* One more sequence at the end adds its elements at the end.
LEMMA FlattenAppend ==
  ASSUME NEW T, NEW q \in Seq(Seq(T)), NEW t \in Seq(T)
  PROVE  FlattenSeq(Append(q, t)) = FlattenSeq(q) \o t
<1> DEFINE n == Len(q)
           r == Append(q, t)
<1>1. /\ r \in Seq(Seq(T)) /\ Len(r) = n + 1 /\ r[n + 1] = t
      /\ \A i \in 1 .. n : r[i] = q[i]
      /\ n \in Nat
  OBVIOUS
<1>2. PICK f \in [1 .. n + 1 -> Seq(T)] :
        /\ FlattenSeq(r) = f[n + 1]
        /\ \A i \in 1 .. n + 1 : f[i] = IF i = 1 THEN r[i] ELSE f[i - 1] \o r[i]
  <2>1. Len(r) # 0
    BY <1>1
  <2> HIDE DEF r, n
  <2>2. \E f \in [1 .. Len(r) -> Seq(T)] :
          /\ FlattenSeq(r) = f[Len(r)]
          /\ \A i \in 1 .. Len(r) : f[i] = IF i = 1 THEN r[i] ELSE f[i - 1] \o r[i]
    BY <1>1, <2>1, FlattenPrefixes, ZenonT(30)
  <2>. QED
    BY <1>1, <2>2
<1>3. CASE n = 0
  <2>1. FlattenSeq(q) = q
    BY <1>3, Zenon DEF FlattenSeq
  <2>2. q = <<>>
    BY <1>3
  <2>3. f[n + 1] = t
    BY <1>1, <1>2, <1>3
  <2>. QED
    BY <1>2, <2>1, <2>2, <2>3
<1>4. CASE n # 0
  <2>1. PICK g \in [1 .. n -> Seq(T)] :
          /\ FlattenSeq(q) = g[n]
          /\ \A i \in 1 .. n : g[i] = IF i = 1 THEN q[i] ELSE g[i - 1] \o q[i]
    BY <1>4, FlattenPrefixes
  <2>2. \A i \in 1 .. n : f[i] = g[i]
    <3> DEFINE Bad == {i \in 1 .. n : f[i] # g[i]}
    <3> HIDE DEF r, n
    <3>1. SUFFICES ASSUME Bad # {} PROVE FALSE
      OBVIOUS
    <3>2. PICK i \in Bad : \A j \in Bad : i <= j
      <4>1. Bad \in SUBSET Nat
        OBVIOUS
      <4> HIDE DEF Bad
      <4>. QED
        BY <3>1, <4>1, LeastNatural
    <3>3. i \in 1 .. n /\ f[i] # g[i] /\ r[i] = q[i] /\ i \in 1 .. n + 1
      BY <1>1
    <3>4. i # 1
      BY <1>2, <2>1, <3>3
    <3>5. i - 1 \in 1 .. n /\ i - 1 \notin Bad
      <4>1. i - 1 \in 1 .. n /\ ~(i <= i - 1)
        BY <1>1, <3>4
      <4> HIDE DEF Bad
      <4>. QED
        BY <3>2, <4>1
    <3>6. f[i - 1] = g[i - 1]
      BY <3>5
    <3>7. f[i] = f[i - 1] \o r[i]
      BY <1>2, <3>3, <3>4
    <3>8. g[i] = g[i - 1] \o q[i]
      BY <2>1, <3>3, <3>4
    <3>. QED
      BY <3>3, <3>6, <3>7, <3>8
  <2>3. f[n + 1] = f[n] \o r[n + 1]
    <3> HIDE DEF r, n
    <3>1. n + 1 \in 1 .. n + 1 /\ n + 1 # 1 /\ (n + 1) - 1 = n
      BY <1>1, <1>4
    <3>. QED
      BY <1>2, <3>1
  <2>4. f[n] = g[n]
    <3> HIDE DEF r, n
    <3>1. n \in 1 .. n
      BY <1>1, <1>4
    <3>. QED
      BY <2>2, <3>1
  <2>. QED
    BY <1>1, <1>2, <2>1, <2>3, <2>4
<1>. QED
  BY <1>3, <1>4

\* Two sequences are related element by element.
AllRelated(a, b, R) == Len(a) = Len(b) /\ \A i \in 1 .. Len(a) : <<a[i], b[i]>> \in R

\* Concatenation keeps a relation of the elements.
LEMMA ConcatRelated ==
  ASSUME NEW T, NEW U, NEW R, NEW a \in Seq(T), NEW c \in Seq(T), NEW b \in Seq(U),
         NEW d \in Seq(U), AllRelated(a, b, R), AllRelated(c, d, R)
  PROVE  AllRelated(a \o c, b \o d, R)
<1>1. /\ a \o c \in Seq(T) /\ b \o d \in Seq(U)
      /\ Len(a \o c) = Len(a) + Len(c) /\ Len(b \o d) = Len(b) + Len(d)
      /\ Len(a) \in Nat /\ Len(c) \in Nat
  OBVIOUS
<1>2. Len(a) = Len(b) /\ Len(c) = Len(d)
  BY DEF AllRelated
<1>3. ASSUME NEW i \in 1 .. Len(a) + Len(c)
      PROVE  <<(a \o c)[i], (b \o d)[i]>> \in R
  <2>1. CASE i <= Len(a)
    <3>1. (a \o c)[i] = a[i] /\ (b \o d)[i] = b[i] /\ i \in 1 .. Len(a)
      BY <1>1, <1>2, <2>1
    <3>. QED
      BY <3>1 DEF AllRelated
  <2>2. CASE i > Len(a)
    <3>1. /\ (a \o c)[i] = c[i - Len(a)] /\ (b \o d)[i] = d[i - Len(a)]
          /\ i - Len(a) \in 1 .. Len(c)
      BY <1>1, <1>2, <2>2
    <3>. QED
      BY <3>1 DEF AllRelated
  <2>3. i <= Len(a) \/ i > Len(a)
    BY <1>1
  <2>. QED
    BY <2>1, <2>2, <2>3
<1>. QED
  BY <1>1, <1>2, <1>3 DEF AllRelated

\* Where the elements of two sequences of sequences of the same shape are in a
\* relation, so are the elements of what FlattenSeq makes of them.
LEMMA FlattenRelated ==
  ASSUME NEW T, NEW U, NEW p \in Seq(Seq(T)), NEW q \in Seq(Seq(U)), NEW R,
         Len(p) = Len(q), \A e \in 1 .. Len(p) : AllRelated(p[e], q[e], R)
  PROVE  AllRelated(FlattenSeq(p), FlattenSeq(q), R)
<1> DEFINE n == Len(p)
<1>0. n \in Nat /\ n = Len(p) /\ n = Len(q)
  OBVIOUS
<1>1. CASE n = 0
  <2>1. FlattenSeq(p) = p
    BY <1>0, <1>1, Zenon DEF FlattenSeq
  <2>2. FlattenSeq(q) = q
    BY <1>0, <1>1, Zenon DEF FlattenSeq
  <2>. QED
    <3>1. AllRelated(p, q, R)
      BY <1>0, <1>1 DEF AllRelated
    <3>. QED
      BY <2>1, <2>2, <3>1
<1>2. CASE n # 0
  <2>1. PICK f \in [1 .. n -> Seq(T)] :
          /\ FlattenSeq(p) = f[n]
          /\ \A i \in 1 .. n : f[i] = IF i = 1 THEN p[i] ELSE f[i - 1] \o p[i]
    <3>1. \E f \in [1 .. Len(p) -> Seq(T)] :
            /\ FlattenSeq(p) = f[Len(p)]
            /\ \A i \in 1 .. Len(p) : f[i] = IF i = 1 THEN p[i] ELSE f[i - 1] \o p[i]
      BY <1>2, FlattenPrefixes, Zenon
    <3>. QED
      BY <3>1
  <2>2. PICK g \in [1 .. n -> Seq(U)] :
          /\ FlattenSeq(q) = g[n]
          /\ \A i \in 1 .. n : g[i] = IF i = 1 THEN q[i] ELSE g[i - 1] \o q[i]
    <3>1. Len(q) # 0
      BY <1>2
    <3>2. \E g \in [1 .. Len(q) -> Seq(U)] :
            /\ FlattenSeq(q) = g[Len(q)]
            /\ \A i \in 1 .. Len(q) : g[i] = IF i = 1 THEN q[i] ELSE g[i - 1] \o q[i]
      BY <3>1, FlattenPrefixes, Zenon
    <3>. QED
      BY <3>2, <1>0
  <2> HIDE DEF n
  <2> DEFINE G == {0} \cup {k \in 1 .. n : AllRelated(f[k], g[k], R)}
  <2>3. 0 \in G
    OBVIOUS
  <2>4. \A k \in 1 .. n : p[k] \in Seq(T) /\ q[k] \in Seq(U) /\ AllRelated(p[k], q[k], R)
    BY <1>0
  <2>5. ASSUME NEW k \in 1 .. n, k - 1 \in G
        PROVE  k \in G
    <3>1. CASE k = 1
      BY <2>1, <2>2, <2>4, <3>1
    <3>2. CASE k # 1
      <4>1. k - 1 \in 1 .. n /\ k - 1 # 0
        BY <1>0, <3>2
      <4>2. /\ f[k] = f[k - 1] \o p[k] /\ g[k] = g[k - 1] \o q[k]
            /\ f[k - 1] \in Seq(T) /\ g[k - 1] \in Seq(U)
        BY <2>1, <2>2, <3>2, <4>1
      <4>3. AllRelated(f[k - 1], g[k - 1], R)
        BY <2>5, <4>1
      <4>4. AllRelated(f[k - 1] \o p[k], g[k - 1] \o q[k], R)
        BY <2>4, <4>2, <4>3, ConcatRelated
      <4>. QED
        BY <4>2, <4>4
    <3>. QED
      BY <3>1, <3>2
  <2>6. n \in G
    <3> HIDE DEF G
    <3>1. \A k \in 0 .. n : k \in G
      BY <1>0, <2>3, <2>5, UpInduction
    <3>. QED
      BY <1>0, <3>1
  <2>. QED
    BY <1>2, <2>1, <2>2, <2>6
<1>. QED
  BY <1>1, <1>2
-----------------------------------------------------------------------------
(* The elements of a sequence.                                             *)

\* The elements of a concatenation; it has none twice if its parts have none
\* twice and share none.
LEMMA ConcatElements ==
  ASSUME NEW T, NEW a \in Seq(T), NEW b \in Seq(T)
  PROVE  /\ ToSet(a \o b) = ToSet(a) \cup ToSet(b)
         /\ IsInjective(a) /\ IsInjective(b) /\ ToSet(a) \cap ToSet(b) = {}
              => IsInjective(a \o b)
<1> DEFINE c == a \o b
<1>1. /\ c \in Seq(T) /\ Len(c) = Len(a) + Len(b) /\ Len(a) \in Nat /\ Len(b) \in Nat
      /\ DOMAIN c = 1 .. Len(c) /\ DOMAIN a = 1 .. Len(a) /\ DOMAIN b = 1 .. Len(b)
      /\ \A i \in 1 .. Len(a) : c[i] = a[i]
      /\ \A i \in Len(a) + 1 .. Len(c) : c[i] = b[i - Len(a)]
  OBVIOUS
<1> HIDE DEF c
<1>2. ToSet(a) \subseteq ToSet(c)
  BY <1>1 DEF ToSet
<1>3. ToSet(b) \subseteq ToSet(c)
  <2>1. ASSUME NEW j \in 1 .. Len(b) PROVE b[j] = c[Len(a) + j] /\ Len(a) + j \in DOMAIN c
    <3>1. Len(a) + j \in Len(a) + 1 .. Len(c) /\ (Len(a) + j) - Len(a) = j
      BY <1>1
    <3>. QED
      BY <1>1, <3>1
  <2>2. \A j \in DOMAIN b : b[j] \in ToSet(c)
    BY <1>1, <2>1 DEF ToSet
  <2>. QED
    BY <2>2 DEF ToSet
<1>4. ASSUME NEW i \in DOMAIN c, i > Len(a)
      PROVE  i - Len(a) \in DOMAIN b /\ c[i] = b[i - Len(a)]
  BY <1>1, <1>4
<1>5. ASSUME NEW i \in DOMAIN c, ~(i > Len(a)) PROVE i \in DOMAIN a /\ c[i] = a[i]
  BY <1>1, <1>5
<1>6. ToSet(c) \subseteq ToSet(a) \cup ToSet(b)
  BY <1>4, <1>5 DEF ToSet
<1>7. ASSUME IsInjective(a), IsInjective(b), ToSet(a) \cap ToSet(b) = {}
      PROVE  IsInjective(c)
  <2> SUFFICES ASSUME NEW i \in DOMAIN c, NEW j \in DOMAIN c, c[i] = c[j] PROVE i = j
    BY DEF IsInjective
  <2>1. CASE i > Len(a) /\ j > Len(a)
    <3>1. i - Len(a) = j - Len(a)
      BY <1>4, <1>7, <2>1 DEF IsInjective
    <3>. QED
      BY <1>1, <3>1
  <2>2. CASE ~(i > Len(a)) /\ ~(j > Len(a))
    BY <1>5, <1>7, <2>2 DEF IsInjective
  <2>3. CASE i > Len(a) /\ ~(j > Len(a))
    BY <1>4, <1>5, <1>7, <2>3 DEF ToSet
  <2>4. CASE ~(i > Len(a)) /\ j > Len(a)
    BY <1>4, <1>5, <1>7, <2>4 DEF ToSet
  <2>. QED
    BY <2>1, <2>2, <2>3, <2>4
<1>. QED
  BY <1>2, <1>3, <1>6, <1>7 DEF c

\* The elements of a flattened sequence of sequences; it has none twice if no
\* member has one twice and no two members share one.
LEMMA FlattenElements ==
  ASSUME NEW T, NEW q \in Seq(Seq(T))
  PROVE  /\ ToSet(FlattenSeq(q)) = UNION {ToSet(q[i]) : i \in DOMAIN q}
         /\ (\A i \in DOMAIN q : IsInjective(q[i]))
            /\ (\A i, j \in DOMAIN q : i # j => ToSet(q[i]) \cap ToSet(q[j]) = {})
              => IsInjective(FlattenSeq(q))
<1> DEFINE n == Len(q)
           Apart == /\ \A i \in DOMAIN q : IsInjective(q[i])
                    /\ \A i, j \in DOMAIN q : i # j => ToSet(q[i]) \cap ToSet(q[j]) = {}
<1>0. n \in Nat /\ DOMAIN q = 1 .. n /\ \A i \in 1 .. n : q[i] \in Seq(T)
  OBVIOUS
<1>1. CASE n = 0
  <2>1. FlattenSeq(q) = q
    BY <1>1, Zenon DEF FlattenSeq
  <2>2. DOMAIN q = {}
    BY <1>0, <1>1
  <2>. QED
    BY <2>1, <2>2 DEF ToSet, IsInjective
<1>2. CASE n # 0
  <2>1. PICK f \in [1 .. n -> Seq(T)] :
          /\ FlattenSeq(q) = f[n]
          /\ \A i \in 1 .. n : f[i] = IF i = 1 THEN q[i] ELSE f[i - 1] \o q[i]
    BY <1>2, FlattenPrefixes
  <2> DEFINE Upto(k) == UNION {ToSet(q[i]) : i \in 1 .. k}
             Good(k) == ToSet(f[k]) = Upto(k) /\ (Apart => IsInjective(f[k]))
             G == {k \in 0 .. n : k # 0 => Good(k)}
  <2>2. ASSUME NEW k \in 1 .. n, k - 1 \in G PROVE k \in G
    <3>1. CASE k = 1
      <4>1. f[k] = q[k] /\ 1 .. k = {k} /\ k \in DOMAIN q
        BY <1>0, <2>1, <3>1
      <4>2. Upto(k) = ToSet(q[k])
        BY <4>1
      <4> HIDE DEF Upto
      <4>. QED
        BY <4>1, <4>2
    <3>2. CASE k # 1
      <4>0. k - 1 \in 1 .. n /\ k - 1 # 0
        BY <1>0, <3>2
      <4>g. Good(k - 1)
        <5> HIDE DEF Good
        <5>. QED
          BY <2>2, <4>0
      <4>1. /\ k - 1 \in 1 .. n /\ Good(k - 1) /\ f[k] = f[k - 1] \o q[k]
            /\ f[k - 1] \in Seq(T) /\ q[k] \in Seq(T) /\ k \in DOMAIN q
        <5> HIDE DEF Good
        <5>. QED
          BY <1>0, <2>1, <3>2, <4>0, <4>g
      <4>2. 1 .. k = (1 .. k - 1) \cup {k}
        OBVIOUS
      <4>3. Upto(k) = Upto(k - 1) \cup ToSet(q[k])
        BY <4>2
      <4>4. ToSet(f[k]) = Upto(k)
        <5> HIDE DEF Upto, Apart
        <5>. QED
          BY <4>1, <4>3, ConcatElements
      <4>5. ASSUME Apart PROVE Upto(k - 1) \cap ToSet(q[k]) = {}
        <5>1. ASSUME NEW i \in 1 .. k - 1 PROVE ToSet(q[i]) \cap ToSet(q[k]) = {}
          <6>1. i \in DOMAIN q /\ i # k /\ k \in DOMAIN q
            BY <1>0, <4>1, SMTT(30)
          <6>. QED
            BY <4>5, <6>1
        <5>. QED
          BY <5>1
      <4>6. ASSUME Apart PROVE IsInjective(f[k])
        <5>1. IsInjective(q[k])
          BY <4>1, <4>6
        <5>2. Upto(k - 1) \cap ToSet(q[k]) = {}
          BY <4>5, <4>6
        <5> HIDE DEF Upto, Apart
        <5>. QED
          BY <4>1, <4>6, <5>1, <5>2, ConcatElements
      <4> HIDE DEF Upto, Apart
      <4>. QED
        BY <4>4, <4>6
    <3>. QED
      BY <3>1, <3>2
  <2>3. 0 \in G
    BY <1>0
  <2>4. \A k \in 0 .. n : k \in G
    <3> HIDE DEF G
    <3>. QED
      BY <1>0, <2>2, <2>3, UpInduction
  <2>5. Good(n)
    <3> HIDE DEF Good
    <3>. QED
      BY <1>0, <1>2, <2>4
  <2>. QED
    BY <1>0, <2>1, <2>5
<1>. QED
  BY <1>1, <1>2

-----------------------------------------------------------------------------
\* The elements of stop that x comes to when it moves along next.
Ends(x, S, stop, next) ==
  {y \in stop : \E n \in Nat : \E g \in [0 .. n -> S] :
     /\ g[0] = x /\ g[n] = y
     /\ \A i \in 1 .. n : g[i - 1] \notin stop /\ g[i] = next[g[i - 1]]}

\* One step along next does not change where it ends.
LEMMA EndsStep ==
  ASSUME NEW S, NEW stop \in SUBSET S, NEW next \in [S -> S], NEW x \in S
  PROVE  /\ x \in stop => Ends(x, S, stop, next) = {x}
         /\ x \notin stop => Ends(x, S, stop, next) = Ends(next[x], S, stop, next)
<1> DEFINE Path(g, n, a, y) ==
             /\ g \in [0 .. n -> S] /\ g[0] = a /\ g[n] = y
             /\ \A i \in 1 .. n : g[i - 1] \notin stop /\ g[i] = next[g[i - 1]]
           E(a) == Ends(a, S, stop, next)
<1>1. \A a, y : y \in E(a) <=> y \in stop /\ \E n \in Nat : \E g : Path(g, n, a, y)
  BY DEF Ends
<1>2. ASSUME x \in stop PROVE E(x) = {x}
  <2>1. x \in E(x)
    <3>1. Path([i \in 0 .. 0 |-> x], 0, x, x)
      OBVIOUS
    <3> HIDE DEF Path, E
    <3> QED  BY <1>1, <1>2, <3>1
  <2>2. ASSUME NEW y \in E(x) PROVE y = x
    <3>1. PICK n \in Nat : \E g : Path(g, n, x, y)
      <4> HIDE DEF Path, E
      <4> QED  BY <1>1
    <3>2. PICK g : Path(g, n, x, y)
      <4> HIDE DEF Path
      <4> QED  BY <3>1
    <3>3. n = 0
      <4> SUFFICES ASSUME n # 0 PROVE FALSE
        OBVIOUS
      <4>1. 1 \in 1 .. n /\ 1 - 1 = 0
        BY <3>1
      <4>2. g[1 - 1] \notin stop
        BY <3>2, <4>1
      <4> QED  BY <1>2, <3>2, <4>1, <4>2
    <3> QED  BY <3>2, <3>3
  <2> HIDE DEF E
  <2> QED  BY <2>1, <2>2
<1>3. ASSUME x \notin stop, NEW y \in E(x) PROVE y \in E(next[x])
  <2>1. PICK n \in Nat : \E g : Path(g, n, x, y)
    <3> HIDE DEF Path, E
    <3> QED  BY <1>1, <1>3
  <2>2. PICK g : Path(g, n, x, y)
    <3> HIDE DEF Path
    <3> QED  BY <2>1
  <2>3. y \in stop
    <3> HIDE DEF Path, E
    <3> QED  BY <1>1, <1>3
  <2>4. n # 0
    BY <1>3, <2>2, <2>3
  <2> DEFINE h == [i \in 0 .. n - 1 |-> g[i + 1]]
  <2>5. n - 1 \in Nat /\ \A i \in 0 .. n - 1 : i + 1 \in 0 .. n /\ i + 1 \in 1 .. n
    BY <2>1, <2>4
  <2>6. h \in [0 .. n - 1 -> S] /\ h[0] = g[1] /\ h[n - 1] = g[n]
    BY <2>2, <2>5
  <2>7. g[1] = next[x]
    <3>1. g[1] = next[g[1 - 1]] /\ 1 - 1 = 0
      BY <2>2, <2>5
    <3> QED  BY <2>2, <3>1
  <2>8. ASSUME NEW i \in 1 .. n - 1 PROVE h[i - 1] \notin stop /\ h[i] = next[h[i - 1]]
    <3>1. i + 1 \in 1 .. n /\ (i + 1) - 1 = i /\ i \in 0 .. n - 1 /\ i - 1 \in 0 .. n - 1 /\ (i - 1) + 1 = i
      BY <2>1
    <3>2. g[i] \notin stop /\ g[i + 1] = next[g[i]]
      BY <2>2, <3>1
    <3>3. h[i - 1] = g[i] /\ h[i] = g[i + 1]
      BY <3>1
    <3> QED  BY <3>2, <3>3
  <2> HIDE DEF h
  <2>9. Path(h, n - 1, next[x], y)
    BY <2>2, <2>6, <2>7, <2>8
  <2> HIDE DEF Path, E
  <2> QED  BY <1>1, <2>3, <2>5, <2>9
<1>4. ASSUME x \notin stop, NEW y \in E(next[x]) PROVE y \in E(x)
  <2>1. PICK n \in Nat : \E g : Path(g, n, next[x], y)
    <3> HIDE DEF Path, E
    <3> QED  BY <1>1, <1>4
  <2>2. PICK g : Path(g, n, next[x], y)
    <3> HIDE DEF Path
    <3> QED  BY <2>1
  <2>3. y \in stop
    <3> HIDE DEF Path, E
    <3> QED  BY <1>1, <1>4
  <2> DEFINE h == [i \in 0 .. n + 1 |-> IF i = 0 THEN x ELSE g[i - 1]]
  <2>5. n + 1 \in Nat /\ 0 \in 0 .. n + 1 /\ n + 1 \in 0 .. n + 1
        /\ \A i \in 0 .. n + 1 : i # 0 => i - 1 \in 0 .. n
    BY <2>1
  <2>6. h \in [0 .. n + 1 -> S] /\ h[0] = x /\ h[n + 1] = y
    BY <2>2, <2>5
  <2>8. ASSUME NEW i \in 1 .. n + 1 PROVE h[i - 1] \notin stop /\ h[i] = next[h[i - 1]]
    <3>1. i \in 0 .. n + 1 /\ i - 1 \in 0 .. n + 1 /\ i # 0 /\ h[i] = g[i - 1]
      BY <2>1
    <3>2. CASE i = 1
      BY <1>4, <2>2, <2>5, <3>1, <3>2
    <3>3. CASE i # 1
      <4>1. i - 1 \in 1 .. n /\ i - 1 # 0
        BY <2>1, <3>3
      <4>2. h[i - 1] = g[(i - 1) - 1]
        BY <3>1, <4>1
      <4> QED  BY <2>2, <3>1, <4>1, <4>2
    <3> QED  BY <3>2, <3>3
  <2> HIDE DEF h
  <2>9. Path(h, n + 1, x, y)
    BY <2>6, <2>8
  <2> HIDE DEF Path, E
  <2> QED  BY <1>1, <2>3, <2>5, <2>9
<1> HIDE DEF E, Path
<1>5. x \notin stop => E(x) = E(next[x])
  BY <1>3, <1>4
<1> QED  BY <1>2, <1>5 DEF E

\* f is the tail recursion along next: val where it stops.
SolvesTail(f, S, stop, next, val) ==
  f = [x \in S |-> IF x \in stop THEN val[x] ELSE f[next[x]]]

\* A tail recursion has a solution, whether it ends everywhere or not: the
\* value where it ends.
LEMMA TailSolution ==
  ASSUME NEW S, NEW stop \in SUBSET S, NEW next \in [S -> S], NEW val
  PROVE  \E f : SolvesTail(f, S, stop, next, val)
<1> DEFINE E(x) == Ends(x, S, stop, next)
           f == [x \in S |-> val[CHOOSE y : y \in E(x)]]
<1>1. ASSUME NEW x \in S PROVE f[x] = IF x \in stop THEN val[x] ELSE f[next[x]]
  <2>1. CASE x \in stop
    <3>1. E(x) = {x}
      BY <2>1, EndsStep
    <3> HIDE DEF E
    <3>2. (CHOOSE y : y \in E(x)) = x
      BY <3>1
    <3>3. f[x] = val[x]
      BY <3>2, Zenon
    <3> QED  BY <2>1, <3>3
  <2>2. CASE x \notin stop
    <3>1. E(x) = E(next[x]) /\ next[x] \in S
      BY <2>2, EndsStep
    <3> HIDE DEF E
    <3>2. f[x] = f[next[x]]
      BY <3>1
    <3> QED  BY <2>2, <3>2
  <2> QED  BY <2>1, <2>2
<1>2. f = [x \in S |-> f[x]]
  OBVIOUS
<1> HIDE DEF f
<1>3. SolvesTail(f, S, stop, next, val)
  BY <1>1, <1>2 DEF SolvesTail
<1> QED  BY <1>3
=============================================================================
