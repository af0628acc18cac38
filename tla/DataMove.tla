------------------------------ MODULE DataMove ------------------------------
(***************************************************************************)
(* The retained entry of one tensor in the map input_tensors_ of a tile:   *)
(* addCurrentTensor (src/src/loop-analysis/performance.cpp) computes the   *)
(* movement from what the tile holds to what it needs next, and keeps the  *)
(* latter for the next time.                                               *)
(***************************************************************************)
EXTENDS Integers, FiniteSets, TensorMap

CONSTANT Ranges   \* the maps dim_ranges_ that the tile may need

\* The maps are of one tensor (tensor_dims_), which has a dimension: what the
\* assertions of calTensorMapDM require.  RangesDefined of PerfAnalysis is the
\* check in the evaluation.
ASSUME RangesAssumption ==
  \A r, s \in Ranges :
    DOMAIN r # {} /\ IsFiniteSet(DOMAIN r) /\ s \in [DOMAIN r -> HalfOpen]

VARIABLES
  held,     \* the ranges the tile holds
  moved     \* what calTensorMapDM returned for the last load

vars == <<held, moved>>

-----------------------------------------------------------------------------
Init == held = <<>> /\ moved = 0

Load(after) ==
  /\ moved' = calTensorMapDM(held, after)
  /\ held' = after

Next == \E after \in Ranges : Load(after)

Spec == Init /\ [][Next]_vars

-----------------------------------------------------------------------------
\* Type invariant: a movement is never negative.
TypeOK ==
  /\ held \in Ranges \cup {<<>>}
  /\ moved \in Nat

\* A load moves exactly the elements that are needed and not held.
MovesWhatIsMissing ==
  [][moved' = Cardinality(Points(held') \ Points(held))]_vars
=============================================================================
