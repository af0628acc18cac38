----------------------------- MODULE MCDimWalk -----------------------------
(* A small instance of DimWalk: a bound of 32 points walked by three levels *)
(* of loops with tails at every level; the second level has two sibling     *)
(* loops, one of them with a third level below it; and a second top loop.   *)
EXTENDS DimWalk

MCLoop == {"L2", "L1", "S1", "L0", "T"}
MCTop == {"L2", "T"}
MCBelow == [l \in MCLoop |-> CASE l = "L2" -> {"L1", "S1"}
                               [] l = "L1" -> {"L0"}
                               [] OTHER    -> {}]
MCEnd        == [L2 |-> 9, L1 |-> 3, S1 |-> 1, L0 |-> 3, T |-> 5]
MCResidual   == [L2 |-> 4, L1 |-> 2, S1 |-> 1, L0 |-> 2, T |-> 4]
MCOffset     == [L2 |-> 9, L1 |-> 3, S1 |-> 9, L0 |-> 1, T |-> 9]
MCLastOffset == [L2 |-> 5, L1 |-> 2, S1 |-> 5, L0 |-> 1, T |-> 5]
MCBound == 32
=============================================================================
