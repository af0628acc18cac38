------------------------------ MODULE DimWalk ------------------------------
(***************************************************************************)
(* One dimension of the walk that PerfAnalysis::visitTileLoop makes over   *)
(* the mapping tree (src/src/loop-analysis/performance.cpp).               *)
(*                                                                         *)
(* The analysis does not compute tile positions from loop indices.  It     *)
(* keeps, for every dimension name, one running offset dim_skew and one    *)
(* vector of flags vec_last_dim_ that every loop over that dimension       *)
(* pushes, pops, adds to and subtracts from while the recursion goes down  *)
(* and up the tree.  This module is that protocol for one dimension: a     *)
(* frame is one activation of visitTileLoop, a loop of the dimension is    *)
(* entered below another one any number of times (the loops of the other   *)
(* dimensions, and the sibling tiles, replay it).  The loops of operations *)
(* are not walked: they are the Offset and the LastOffset of the lowest    *)
(* loops of tiles.                                                         *)
(***************************************************************************)
EXTENDS Integers, Sequences

CONSTANTS
  Loop,        \* the loops over this dimension, in all the tiles of the tree
  Top,         \* the loops with no loop over this dimension above them
  Below,       \* Below[l]: the loops over this dimension next below l
  End,         \* Descriptor::end, the trip count of a full tile
  Residual,    \* Descriptor::residual_end, the trip count of the last tile
  Offset,      \* dim_offset_: how far one iteration of the loop moves
  LastOffset,  \* last_dim_offset_: the length of the very last iteration
  Bound        \* the factorized bound of the dimension in the workload

ASSUME LoopsAssumption ==
  /\ Top \subseteq Loop
  /\ Below \in [Loop -> SUBSET Loop]

ASSUME CountsAssumption ==
  /\ End \in [Loop -> Nat \ {0}]
  /\ Residual \in [Loop -> Nat \ {0}]
  /\ Offset \in [Loop -> Nat \ {0}]
  /\ LastOffset \in [Loop -> Nat \ {0}]
  /\ Bound \in Nat

(***************************************************************************)
(* What a loop covers when it runs in full and when it is the tail.        *)
(***************************************************************************)
FullExtent(l) == End[l] * Offset[l]

TailExtent(l) == (Residual[l] - 1) * Offset[l] + LastOffset[l]

(***************************************************************************)
(* InitAnalysis::getOffset sets the two offsets of a loop from the first   *)
(* loop that it finds below it and looks at no other one, so the first     *)
(* conjunct restricts the mappings: it holds when the loops inside one     *)
(* loop run through the same points (SplitsAlike of Evaluator), and run    *)
(* offset_step has a mapping that the code accepts where it does not.      *)
(* GetLoopCount accepts a mapping only when the loops of the dimension     *)
(* multiply out to the workload's bound.                                   *)
(***************************************************************************)
ASSUME OffsetsAssumption ==
  /\ \A l \in Loop : \A m \in Below[l] :
        FullExtent(m) = Offset[l] /\ TailExtent(m) = LastOffset[l]
  /\ \A l \in Top : TailExtent(l) = Bound

\* GetLoopCount asserts end >= residual_end, so a tail is never the longer.
ASSUME TailAssumption == \A l \in Loop : LastOffset[l] <= Offset[l]

VARIABLES
  frames,        \* the activations of visitTileLoop over this dimension
  vec_last_dim_, \* the flags "this iteration is the loop's last one"
  dim_skew       \* the running offset of the dimension

vars == <<frames, vec_last_dim_, dim_skew>>

(***************************************************************************)
(* A frame.  start and end are *loop_start and loop_end, moved is          *)
(* current_dim_skew_; from is a history variable, the dim_skew the call    *)
(* found, which the code does not keep.                                    *)
(***************************************************************************)
Frame == [loop : Loop, start : Nat, end : Nat \ {0}, moved : Nat, from : Nat]

Top1 == frames[Len(frames)]

\* Is the innermost activation inside its loop body?
InBody == Len(vec_last_dim_) = Len(frames)

AllLast(k) == \A j \in 1 .. k : vec_last_dim_[j]

isLastLoop == AllLast(Len(vec_last_dim_))

Pop(s) == SubSeq(s, 1, Len(s) - 1)

Init ==
  /\ frames = <<>>
  /\ vec_last_dim_ = <<>>
  /\ dim_skew = 0

-----------------------------------------------------------------------------
\* Bug: only the innermost enclosing iteration decides about the tail.
NearestLastOnly(l) ==
  IF vec_last_dim_ = <<>> \/ vec_last_dim_[Len(vec_last_dim_)]
  THEN Residual[l] ELSE End[l]

\* loop_end: the residual trip count on the path of last iterations only.
LoopEnd(l) == IF isLastLoop THEN Residual[l] ELSE End[l]

\* The call of visitTileLoop for loop l, up to the loop's first test.
Enter(l) ==
  /\ InBody
  /\ IF frames = <<>> THEN l \in Top ELSE l \in Below[Top1.loop]
  /\ frames' = Append(frames, [loop |-> l, start |-> 0, end |-> LoopEnd(l),
                               moved |-> 0, from |-> dim_skew])
  /\ UNCHANGED <<vec_last_dim_, dim_skew>>

\* Bug: the test whether an iteration is the last one is off by one.
LateLastFlag == Append(vec_last_dim_, Top1.start >= Top1.end)

\* The flag pushed at the head of an iteration.
PushLast == Append(vec_last_dim_, Top1.start + 1 >= Top1.end)

\* The loop test succeeds: the body of an iteration starts.
BeginIteration ==
  /\ ~InBody
  /\ Top1.start < Top1.end
  /\ vec_last_dim_' = PushLast
  /\ UNCHANGED <<frames, dim_skew>>

\* Bug: current_dim_skew_ does not follow dim_skew.
AdvancedUnmoved(f) == [f EXCEPT !.start = f.start + 1]

\* A frame moved on by one iteration.
Advanced(f) == [f EXCEPT !.start = f.start + 1,
                         !.moved = f.moved + Offset[f.loop]]

\* The end of the body: flags popped, the offsets moved on, start increased.
EndIteration ==
  /\ InBody
  /\ frames # <<>>
  /\ vec_last_dim_' = Pop(vec_last_dim_)
  /\ frames' = [frames EXCEPT ![Len(frames)] = Advanced(Top1)]
  /\ dim_skew' = dim_skew + Offset[Top1.loop]

\* Bug: the offset is restored by the extent of a full tile.
ExitByFullExtent ==
  /\ ~InBody
  /\ Top1.start >= Top1.end
  /\ dim_skew' = dim_skew - FullExtent(Top1.loop)
  /\ frames' = Pop(frames)
  /\ UNCHANGED vec_last_dim_

\* The loop test fails: dim_skew is restored and the call returns.
Exit ==
  /\ ~InBody
  /\ Top1.start >= Top1.end
  /\ dim_skew' = dim_skew - Top1.moved
  /\ frames' = Pop(frames)
  /\ UNCHANGED vec_last_dim_

Next ==
  \/ \E l \in Loop : Enter(l)
  \/ BeginIteration
  \/ EndIteration
  \/ Exit

Spec == Init /\ [][Next]_vars

-----------------------------------------------------------------------------
\* Type invariant.  The flags are those of the frames whose body is running:
\* all of them, or all but the innermost (between two of its iterations).
TypeOK ==
  /\ frames \in Seq(Frame)
  /\ vec_last_dim_ \in Seq(BOOLEAN)
  /\ dim_skew \in Nat
  /\ \/ Len(vec_last_dim_) = Len(frames)
     \/ Len(vec_last_dim_) = Len(frames) - 1 /\ frames # <<>>

\* The points that activation k covers as a whole.
Extent(k) == IF AllLast(k - 1) THEN TailExtent(frames[k].loop)
                               ELSE FullExtent(frames[k].loop)

\* The points that the current iteration of activation k covers.
Slice(k) == IF AllLast(k) THEN LastOffset[frames[k].loop]
                          ELSE Offset[frames[k].loop]

\* The offset of the current iteration of activation k.
At(k) == frames[k].from + frames[k].moved

\* dim_skew is at every moment the absolute position of the innermost
\* iteration, and 0 outside all loops: the additions of the iterations and
\* the subtraction on exit balance over every path of the recursion.
SkewIsPosition ==
  dim_skew = IF frames = <<>> THEN 0 ELSE At(Len(frames))

\* The loops of the dimension tile the iteration space exactly: an inner
\* activation starts where the enclosing iteration is and covers exactly the
\* points of that iteration, tail or not, and the last iteration of an
\* activation ends where the activation ends.
ExactTiling ==
  /\ \A k \in 1 .. Len(frames) - 1 :
        frames[k + 1].from = At(k) /\ Extent(k + 1) = Slice(k)
  /\ \A k \in 1 .. Len(vec_last_dim_) :
        frames[k].start + 1 = frames[k].end =>
           At(k) + Slice(k) = frames[k].from + Extent(k)

\* No iteration reaches outside the workload's bound, and the range that
\* addCurrentTensor reports for an activation, [from, from + (end - 1) *
\* Offset + LastOffset), never claims a point the activation does not cover.
InBounds ==
  /\ \A k \in 1 .. Len(frames) : frames[k].from + Extent(k) <= Bound
  /\ \A k \in 1 .. Len(vec_last_dim_) :
        At(k) + Slice(k) <= frames[k].from + Extent(k)
  /\ \A k \in 1 .. Len(frames) :
        (frames[k].end - 1) * Offset[frames[k].loop]
           + LastOffset[frames[k].loop] <= Extent(k)

\* A call of visitTileLoop leaves dim_skew and the flags as it found them.
Restored ==
  Len(frames') < Len(frames) =>
    /\ dim_skew' = Top1.from
    /\ Len(vec_last_dim_') = Len(frames')

SkewRestored == [][Restored]_vars
=============================================================================
