--------------------------- MODULE DataMoveProofs ---------------------------
(***************************************************************************)
(* A tile that keeps its ranges from one load to the next moves exactly    *)
(* what is needed and not held.                                            *)
(***************************************************************************)
EXTENDS DataMove, TensorMapProofs

-----------------------------------------------------------------------------
\* Every load is of ranges over the dimensions of one tensor.
LEMMA RangesOfOneTensor ==
  ASSUME Ranges # {}
  PROVE  \E D : Ranges \subseteq RangesOver(D)
<1>1. PICK r \in Ranges : TRUE
  OBVIOUS
<1>2. \A s \in Ranges : s \in [DOMAIN r -> HalfOpen]
  BY RangesAssumption
<1>3. IsFiniteSet(DOMAIN r) /\ DOMAIN r # {}
  BY RangesAssumption
<1>4. Ranges \subseteq RangesOver(DOMAIN r)
  BY <1>2, <1>3 DEF RangesOver
<1>. QED
  BY <1>4

\* A load of a tile returns the number of the elements that it brings in.
LEMMA LoadMoves ==
  ASSUME held \in Ranges \cup {<<>>}, NEW after \in Ranges
  PROVE  /\ calTensorMapDM(held, after) = Cardinality(Points(after) \ Points(held))
         /\ calTensorMapDM(held, after) \in Nat
<1>1. PICK D : Ranges \subseteq RangesOver(D)
  BY RangesOfOneTensor
<1>2. held \in RangesOver(D) \cup {<<>>} /\ after \in RangesOver(D)
  BY <1>1
<1>3. calTensorMapDM(held, after) = Cardinality(Points(after) \ Points(held))
  BY <1>2, MovementCounts
<1>4. IsFiniteSet(Points(after) \ Points(held))
  BY <1>2, VolumeCounts, FS_Difference
<1>. QED
  BY <1>3, <1>4, FS_CardinalityType

\* A tile holds ranges it has loaded, and no movement is negative although the
\* code subtracts.
THEOREM TypeCorrect == Spec => []TypeOK
<1>1. Init => TypeOK
  BY DEF Init, TypeOK
<1>2. TypeOK /\ [Next]_vars => TypeOK'
  <2> SUFFICES ASSUME TypeOK, [Next]_vars PROVE TypeOK'
    OBVIOUS
  <2>1. ASSUME NEW after \in Ranges, Load(after) PROVE TypeOK'
    BY <2>1, LoadMoves DEF TypeOK, Load
  <2>2. CASE UNCHANGED vars
    BY <2>2 DEF TypeOK, vars
  <2>. QED
    BY <2>1, <2>2 DEF Next
<1>. QED
  BY <1>1, <1>2, PTL DEF Spec

\* Every load of every tile moves exactly what is needed and not held.
THEOREM MovementCorrect == Spec => MovesWhatIsMissing
<1>1. TypeOK /\ [Next]_vars => [moved' = Cardinality(Points(held') \ Points(held))]_vars
  <2> SUFFICES ASSUME TypeOK, [Next]_vars
               PROVE  [moved' = Cardinality(Points(held') \ Points(held))]_vars
    OBVIOUS
  <2>1. ASSUME NEW after \in Ranges, Load(after)
        PROVE  moved' = Cardinality(Points(held') \ Points(held))
    BY <2>1, LoadMoves DEF TypeOK, Load
  <2>. QED
    BY <2>1 DEF Next
<1>. QED
  BY <1>1, TypeCorrect, PTL DEF Spec, MovesWhatIsMissing
=============================================================================
