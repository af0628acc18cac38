----------------------------- MODULE TensorMap -----------------------------
(***************************************************************************)
(* How much of a tensor a tile has to bring in: calTensorMapDM             *)
(* (src/src/mapper/expr.cpp).  A TensorMap's dim_ranges_ is a function     *)
(* from dimension names to half-open ranges; <<>> is the empty map of a    *)
(* tensor that was never loaded.  The code asserts of the second map that  *)
(* it is not empty and over as many dimensions as the first; where the     *)
(* evaluation calls it, RangesDefined of PerfAnalysis has seen to that.    *)
(***************************************************************************)
EXTENDS Integers, Functions

Larger(a, b) == IF a >= b THEN a ELSE b

Smaller(a, b) == IF a <= b THEN a ELSE b

Length(r) == r.high - r.low

Product(f) == FoldFunction(LAMBDA a, b : a * b, 1, f)

\* Bug: the overlap of disjoint ranges is not cut off at 0.
OverlapUnclamped(before, after) ==
  IF before.low < after.low
  THEN Smaller(before.high - after.low, Length(after))
  ELSE Smaller(after.high - before.low, Length(before))

\* The common part of two ranges, as the code computes it.
Overlap(before, after) ==
  IF before.low < after.low
  THEN Larger(Smaller(before.high - after.low, Length(after)), 0)
  ELSE Larger(Smaller(after.high - before.low, Length(before)), 0)

Volume(ranges) == Product([d \in DOMAIN ranges |-> Length(ranges[d])])

\* Bug: the overlap is taken from each dimension and not from the volume.
PerDimension(before, after) ==
  IF DOMAIN before = {} THEN Volume(after)
  ELSE Product([d \in DOMAIN after |->
                 Length(after[d]) - Overlap(before[d], after[d])])

calTensorMapDM(before, after) ==
  IF DOMAIN before = {} THEN Volume(after)
  ELSE Volume(after)
         - Product([d \in DOMAIN before |-> Overlap(before[d], after[d])])

\* A half-open range of one dimension, and its points.
HalfOpen == {r \in [low : Int, high : Int] : r.low <= r.high}

Inside(r) == r.low .. r.high - 1

\* The elements of a tensor that ranges name.
Points(ranges) ==
  IF DOMAIN ranges = {} THEN {}
  ELSE {p \in [DOMAIN ranges ->
                UNION {Inside(ranges[d]) : d \in DOMAIN ranges}] :
          \A d \in DOMAIN ranges : p[d] \in Inside(ranges[d])}
=============================================================================
