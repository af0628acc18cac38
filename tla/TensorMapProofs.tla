-------------------------- MODULE TensorMapProofs --------------------------
(***************************************************************************)
(* What calTensorMapDM computes, for tensors of every rank and for all     *)
(* ranges.  The code multiplies lengths and overlaps, dimension by         *)
(* dimension; the proof counts points: a product over the dimensions is    *)
(* the number of the points of a box.                                      *)
(***************************************************************************)
EXTENDS TensorMap, Induction, FunctionTheorems

-----------------------------------------------------------------------------
\* The points that two ranges share lie between the larger low bound and the
\* smaller high bound.
LEMMA SharedInterval ==
  ASSUME NEW r \in HalfOpen, NEW s \in HalfOpen
  PROVE  Inside(r) \cap Inside(s)
           = Larger(r.low, s.low) .. Smaller(r.high, s.high) - 1
BY DEF Inside, HalfOpen, Larger, Smaller

\* The overlap that calTensorMapDM computes from the order of the two low
\* bounds, clamped at 0, is the number of points that the two ranges share.
THEOREM OverlapCounts ==
  ASSUME NEW before \in HalfOpen, NEW after \in HalfOpen
  PROVE  Overlap(before, after) = Cardinality(Inside(before) \cap Inside(after))
<1> DEFINE a == Larger(before.low, after.low)
           b == Smaller(before.high, after.high) - 1
<1>1. a \in Int /\ b \in Int
  BY DEF HalfOpen, Larger, Smaller
<1>2. Cardinality(a .. b) = IF a > b THEN 0 ELSE b - a + 1
  BY <1>1, FS_Interval
<1>3. Overlap(before, after) = IF a > b THEN 0 ELSE b - a + 1
  BY DEF HalfOpen, Overlap, Larger, Smaller, Length
<1>. QED
  BY <1>2, <1>3, SharedInterval

\* The length of a range is the number of its points.
LEMMA LengthCounts ==
  ASSUME NEW r \in HalfOpen
  PROVE  IsFiniteSet(Inside(r)) /\ Length(r) = Cardinality(Inside(r))
<1>1. r.low \in Int /\ r.high \in Int /\ r.high - 1 \in Int /\ r.low <= r.high
  BY DEF HalfOpen
<1>2. /\ IsFiniteSet(Inside(r))
      /\ Cardinality(Inside(r))
           = IF r.low > r.high - 1 THEN 0 ELSE r.high - 1 - r.low + 1
  BY <1>1, FS_Interval DEF Inside
<1>. QED
  BY <1>1, <1>2 DEF Length

-----------------------------------------------------------------------------
\* The functions on the dimensions s that pick a point of S[d] for each d.
Box(S, s) == {p \in [s -> UNION {S[d] : d \in s}] : \A d \in s : p[d] \in S[d]}

\* A box without dimensions is one point.
LEMMA BoxEmpty ==
  ASSUME NEW S
  PROVE  IsFiniteSet(Box(S, {})) /\ Cardinality(Box(S, {})) = 1
<1>1. Box(S, {}) = {[d \in {} |-> 0]}
  BY DEF Box
<1>. QED
  BY <1>1, FS_Singleton

\* A box is one of its sides times the box over the other dimensions.
LEMMA BoxSplit ==
  ASSUME NEW S, NEW s, NEW x \in s
  PROVE  ExistsBijection(S[x] \X Box(S, s \ {x}), Box(S, s))
<1> DEFINE P == S[x] \X Box(S, s \ {x})
           join(q) == [d \in s |-> IF d = x THEN q[1] ELSE q[2][d]]
           h == [q \in P |-> join(q)]
<1>1. h \in [P -> Box(S, s)]
  <2> SUFFICES ASSUME NEW q \in P PROVE join(q) \in Box(S, s)
    OBVIOUS
  <2>1. q[1] \in S[x] /\ \A d \in s \ {x} : q[2][d] \in S[d]
    BY DEF Box
  <2>2. \A d \in s : join(q)[d] \in S[d]
    BY <2>1
  <2>3. \A d \in s : join(q)[d] \in UNION {S[e] : e \in s}
    BY <2>2
  <2> HIDE DEF join
  <2>4. join(q) = [d \in s |-> join(q)[d]]
    BY DEF join
  <2>. QED
    BY <2>2, <2>3, <2>4 DEF Box
<1>2. \A q, r \in P : h[q] = h[r] => q = r
  <2> SUFFICES ASSUME NEW q \in P, NEW r \in P, join(q) = join(r) PROVE q = r
    OBVIOUS
  <2>1. q[1] = join(q)[x] /\ r[1] = join(r)[x]
    OBVIOUS
  <2>2. \A d \in s \ {x} : q[2][d] = join(q)[d] /\ r[2][d] = join(r)[d]
    OBVIOUS
  <2>3. q[2] = [d \in s \ {x} |-> q[2][d]] /\ r[2] = [d \in s \ {x} |-> r[2][d]]
    BY DEF Box
  <2> HIDE DEF join
  <2>4. q[2] = r[2]
    BY <2>2, <2>3
  <2>. QED
    BY <2>1, <2>4
<1>3. \A p \in Box(S, s) : \E q \in P : h[q] = p
  <2> SUFFICES ASSUME NEW p \in Box(S, s) PROVE \E q \in P : h[q] = p
    OBVIOUS
  <2> DEFINE rest == [d \in s \ {x} |-> p[d]]
             q == <<p[x], rest>>
  <2>1. \A d \in s : p[d] \in S[d]
    BY DEF Box
  <2>2. rest \in Box(S, s \ {x})
    <3>1. \A d \in s \ {x} : rest[d] \in UNION {S[e] : e \in s \ {x}}
      BY <2>1
    <3>. QED
      BY <2>1, <3>1 DEF Box
  <2>3. q \in P
    BY <2>1, <2>2
  <2>4. p = [d \in s |-> p[d]]
    BY DEF Box
  <2>5. join(q) = [d \in s |-> p[d]]
    OBVIOUS
  <2>6. h[q] = p
    BY <2>3, <2>4, <2>5
  <2>. QED
    BY <2>3, <2>6
<1> HIDE DEF P, h
<1>4. h \in Bijection(P, Box(S, s))
  BY <1>1, <1>2, <1>3, Fun_IsBij
<1>5. ExistsBijection(P, Box(S, s))
  BY <1>4 DEF ExistsBijection
<1>. QED
  BY <1>5 DEF P

\* A box with finite sides is finite: the least set of dimensions for which
\* it is not would have a side to split off.
LEMMA BoxFinite ==
  ASSUME NEW D, IsFiniteSet(D), NEW S, \A d \in D : IsFiniteSet(S[d])
  PROVE  \A s \in SUBSET D : IsFiniteSet(Box(S, s))
<1> DEFINE Bad == {s \in SUBSET D : ~IsFiniteSet(Box(S, s))}
<1> SUFFICES ASSUME Bad # {} PROVE FALSE
  OBVIOUS
<1>1. PICK s \in Bad : \A t \in Bad : ~(t \subseteq s /\ t # s)
  <2>1. Bad \in SUBSET SUBSET D
    OBVIOUS
  <2> HIDE DEF Bad
  <2>. QED
    BY <2>1, LeastSubset
<1>2. s # {}
  BY BoxEmpty
<1>3. PICK x \in s : TRUE
  BY <1>2
<1>4. IsFiniteSet(Box(S, s \ {x}))
  BY <1>1, <1>3
<1>5. IsFiniteSet(S[x] \X Box(S, s \ {x}))
  BY <1>4, FS_Product
<1>6. ExistsBijection(S[x] \X Box(S, s \ {x}), Box(S, s))
  BY BoxSplit
<1>. QED
  BY <1>5, <1>6, FS_Bijection

\* The points of a box are those of one side times those of the rest.
LEMMA BoxCount ==
  ASSUME NEW D, IsFiniteSet(D), NEW S, \A d \in D : IsFiniteSet(S[d]),
         NEW s \in SUBSET D, NEW x \in s
  PROVE  Cardinality(Box(S, s)) = Cardinality(S[x]) * Cardinality(Box(S, s \ {x}))
<1>1. IsFiniteSet(Box(S, s \ {x})) /\ IsFiniteSet(S[x])
  BY BoxFinite
<1>2. /\ IsFiniteSet(S[x] \X Box(S, s \ {x}))
      /\ Cardinality(S[x] \X Box(S, s \ {x}))
           = Cardinality(S[x]) * Cardinality(Box(S, s \ {x}))
  BY <1>1, FS_Product
<1>3. ExistsBijection(S[x] \X Box(S, s \ {x}), Box(S, s))
  BY BoxSplit
<1>. QED
  BY <1>2, <1>3, FS_Bijection

\* Product, the fold over the dimensions in whatever order, computes the
\* number of the points of a box from the lengths of its sides.  The function
\* that counts points satisfies the recursion by which the fold is defined,
\* and no other function does.
LEMMA ProductCounts ==
  ASSUME NEW D, IsFiniteSet(D), NEW S, \A d \in D : IsFiniteSet(S[d]),
         NEW f, f = [d \in D |-> Cardinality(S[d])]
  PROVE  Product(f) = Cardinality(Box(S, D))
<1> DEFINE first(s) == CHOOSE x \in s : TRUE
           Iter(g) == g = [s \in SUBSET D |-> IF s = {} THEN 1
                                    ELSE f[first(s)] * g[s \ {first(s)}]]
           iter == CHOOSE g : Iter(g)
           count == [s \in SUBSET D |-> Cardinality(Box(S, s))]
<1>1. Product(f) = iter[D]
  BY Zenon DEF Product, FoldFunction, FoldFunctionOnSet, MapThenFoldSet
<1>2. ASSUME NEW s \in SUBSET D, s # {}
      PROVE  first(s) \in s /\ s \ {first(s)} \in SUBSET D
  BY <1>2
<1> HIDE DEF first
<1>3. Iter(count)
  <2>1. ASSUME NEW s \in SUBSET D
        PROVE  count[s] = IF s = {} THEN 1 ELSE f[first(s)] * count[s \ {first(s)}]
    <3>1. CASE s = {}
      BY <3>1, BoxEmpty
    <3>2. CASE s # {}
      <4>1. first(s) \in s /\ s \ {first(s)} \in SUBSET D
        BY <1>2, <3>2
      <4>2. Cardinality(Box(S, s))
              = Cardinality(S[first(s)]) * Cardinality(Box(S, s \ {first(s)}))
        BY <4>1, BoxCount
      <4>. QED
        BY <3>2, <4>1, <4>2
    <3>. QED
      BY <3>1, <3>2
  <2> HIDE DEF count
  <2>2. count = [s \in SUBSET D |-> count[s]]
    BY DEF count
  <2>. QED
    BY <2>1, <2>2
<1>4. Iter(iter)
  <2> HIDE DEF Iter, count
  <2>. QED
    BY <1>3
<1>5. \A s \in SUBSET D : iter[s] = count[s]
  <2> DEFINE Bad == {s \in SUBSET D : iter[s] # count[s]}
  <2> HIDE DEF iter
  <2> SUFFICES ASSUME Bad # {} PROVE FALSE
    OBVIOUS
  <2>1. Bad \in SUBSET SUBSET D
    OBVIOUS
  <2>2. PICK s \in Bad : \A t \in Bad : ~(t \subseteq s /\ t # s)
    <3> HIDE DEF Bad
    <3>. QED
      BY <2>1, LeastSubset
  <2>3. iter[s] = IF s = {} THEN 1 ELSE f[first(s)] * iter[s \ {first(s)}]
    BY <1>4
  <2> HIDE DEF count
  <2>4. count[s] = IF s = {} THEN 1 ELSE f[first(s)] * count[s \ {first(s)}]
    BY <1>3
  <2>5. s # {}
    BY <2>3, <2>4
  <2>6. s \ {first(s)} \notin Bad
    BY <1>2, <2>2, <2>5
  <2>7. iter[s \ {first(s)}] = count[s \ {first(s)}]
    BY <1>2, <2>5, <2>6
  <2>. QED
    BY <2>3, <2>4, <2>5, <2>7
<1>. QED
  BY <1>1, <1>5

-----------------------------------------------------------------------------
\* The ranges of a tensor of rank at least one.
RangesOver(D) == {r \in [D -> HalfOpen] : D # {} /\ IsFiniteSet(D)}

\* The points of a tensor's ranges are a box.
LEMMA PointsAreBox ==
  ASSUME NEW D, NEW r \in RangesOver(D)
  PROVE  Points(r) = Box([d \in D |-> Inside(r[d])], D)
<1> DEFINE S == [d \in D |-> Inside(r[d])]
<1>1. DOMAIN r = D /\ D # {}
  BY DEF RangesOver
<1>2. {S[d] : d \in D} = {Inside(r[d]) : d \in D}
  OBVIOUS
<1>3. Box(S, D) = {p \in [D -> UNION {Inside(r[d]) : d \in D}] :
                     \A d \in D : p[d] \in Inside(r[d])}
  BY <1>2 DEF Box
<1>. QED
  BY <1>1, <1>3, Zenon DEF Points, Inside

\* Volume is the number of the points.
LEMMA VolumeCounts ==
  ASSUME NEW D, NEW r \in RangesOver(D)
  PROVE  IsFiniteSet(Points(r)) /\ Volume(r) = Cardinality(Points(r))
<1> DEFINE S == [d \in D |-> Inside(r[d])]
           f == [d \in D |-> Length(r[d])]
<1>1. DOMAIN r = D /\ D # {} /\ IsFiniteSet(D) /\ \A d \in D : r[d] \in HalfOpen
  BY DEF RangesOver
<1>2. \A d \in D : IsFiniteSet(S[d]) /\ Length(r[d]) = Cardinality(S[d])
  BY <1>1, LengthCounts
<1>3. f = [d \in D |-> Cardinality(S[d])]
  BY <1>2
<1>4. Points(r) = Box(S, D)
  BY PointsAreBox
<1>5. Volume(r) = Product(f)
  BY <1>1 DEF Volume
<1> HIDE DEF S, f
<1>6. Product(f) = Cardinality(Box(S, D))
  BY <1>1, <1>2, <1>3, ProductCounts
<1>7. IsFiniteSet(Box(S, D))
  BY <1>1, <1>2, BoxFinite
<1>. QED
  BY <1>4, <1>5, <1>6, <1>7

\* The product of the overlaps is the number of the points that both hold.
LEMMA OverlapsCount ==
  ASSUME NEW D, NEW before \in RangesOver(D), NEW after \in RangesOver(D)
  PROVE  Product([d \in D |-> Overlap(before[d], after[d])])
           = Cardinality(Points(after) \cap Points(before))
<1> DEFINE S == [d \in D |-> Inside(before[d]) \cap Inside(after[d])]
           f == [d \in D |-> Overlap(before[d], after[d])]
<1>1. IsFiniteSet(D) /\ \A d \in D : before[d] \in HalfOpen /\ after[d] \in HalfOpen
  BY DEF RangesOver
<1>2. \A d \in D : IsFiniteSet(S[d])
  BY <1>1, LengthCounts, FS_Intersection
<1>3. \A d \in D : Overlap(before[d], after[d]) = Cardinality(S[d])
  BY <1>1, OverlapCounts
<1>4. f = [d \in D |-> Cardinality(S[d])]
  BY <1>3
<1>5. Points(after) \cap Points(before) = Box(S, D)
  <2> DEFINE A == [d \in D |-> Inside(after[d])]
             B == [d \in D |-> Inside(before[d])]
  <2>1. Points(after) = Box(A, D) /\ Points(before) = Box(B, D)
    BY PointsAreBox
  <2>2. ASSUME NEW p \in Box(A, D), p \in Box(B, D) PROVE p \in Box(S, D)
    <3>1. \A d \in D : p[d] \in S[d]
      BY <2>2 DEF Box
    <3>2. \A d \in D : p[d] \in UNION {S[e] : e \in D}
      BY <3>1
    <3>3. p = [d \in D |-> p[d]]
      BY DEF Box
    <3> HIDE DEF S
    <3>. QED
      BY <3>1, <3>2, <3>3 DEF Box
  <2>3. ASSUME NEW p \in Box(S, D) PROVE p \in Box(A, D) /\ p \in Box(B, D)
    <3>1. \A d \in D : p[d] \in A[d] /\ p[d] \in B[d]
      BY DEF Box
    <3>2. \A d \in D : /\ p[d] \in UNION {A[e] : e \in D}
                       /\ p[d] \in UNION {B[e] : e \in D}
      BY <3>1
    <3>3. p = [d \in D |-> p[d]]
      BY DEF Box
    <3> HIDE DEF A, B
    <3>. QED
      BY <3>1, <3>2, <3>3 DEF Box
  <2>. QED
    BY <2>1, <2>2, <2>3
<1> HIDE DEF S, f
<1>6. Product(f) = Cardinality(Box(S, D))
  BY <1>1, <1>2, <1>4, ProductCounts
<1>. QED
  BY <1>5, <1>6 DEF f

\* calTensorMapDM is the number of the elements that are needed and not held,
\* for a tensor of any rank, whatever it holds of it.
THEOREM MovementCounts ==
  ASSUME NEW D, NEW before \in RangesOver(D) \cup {<<>>}, NEW after \in RangesOver(D)
  PROVE  calTensorMapDM(before, after)
           = Cardinality(Points(after) \ Points(before))
<1>1. IsFiniteSet(Points(after)) /\ Volume(after) = Cardinality(Points(after))
  BY VolumeCounts
<1>2. CASE before = <<>>
  <2>1. DOMAIN before = {}
    BY <1>2
  <2>2. Points(after) \ Points(before) = Points(after)
    BY <2>1 DEF Points
  <2>. QED
    BY <1>1, <2>1, <2>2 DEF calTensorMapDM
<1>3. CASE before \in RangesOver(D)
  <2>1. DOMAIN before = D /\ D # {}
    BY <1>3 DEF RangesOver
  <2>2. calTensorMapDM(before, after)
          = Volume(after) - Product([d \in D |-> Overlap(before[d], after[d])])
    BY <2>1 DEF calTensorMapDM
  <2>3. Cardinality(Points(after) \ Points(before))
          = Cardinality(Points(after)) - Cardinality(Points(after) \cap Points(before))
    BY <1>1, FS_Difference
  <2>. QED
    BY <1>1, <1>3, <2>2, <2>3, OverlapsCount
<1>. QED
  BY <1>2, <1>3
=============================================================================
