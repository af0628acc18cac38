---------------------------- MODULE PerfAnalysis ----------------------------
(***************************************************************************)
(* PerfAnalysis (src/src/loop-analysis/performance.cpp): the walk over all *)
(* iterations of all loops of a mapping.  The C++ recursion is the stack   *)
(* frames: one frame per activation of visitTileLoop (a loop of a tile)    *)
(* and of visitScope.  kid is the program counter of a frame: 0 at the     *)
(* test of the loop, otherwise the child (or the inner loop) that is next. *)
(*                                                                         *)
(* The variable of a loop is kept in the tree, not in the activation: a    *)
(* call takes over the start it finds there (ori), counts from it and puts *)
(* it back.  While the call runs, the value is the start of its frame.     *)
(* current_dim_range_, current_offset_, ori_start_ and current_start_ of a *)
(* node are pushed and popped with the frames of that node and are read    *)
(* off them here; sub_latency_num_, the ranges of output tensors and the   *)
(* latency_vec_ of a Scope are written and never read.                     *)
(***************************************************************************)
EXTENDS InitAnalysis, Latency

VARIABLES
  outcome,          \* "walking", "finished", or how the analysis ended
  frames,           \* the activations of visitTileLoop and visitScope
  loop_start,       \* per node and loop: the start that the last call left
  vec_last_dim_,    \* per dimension: is the running iteration the last one?
  dim_skew,         \* per dimension: the running offset
  resident,         \* per node and tensor: the ranges kept in input_tensors_
  data_movements_,  \* the total of all data movements
  latency,          \* per node: input_latency_, output_latency_, process_latency_
  latency_sub_vec_, \* per node: the latencies of the children, this iteration
  latency_vec_,     \* per node: latency_sub_vec_ of every iteration so far
  executed,         \* history: where each operation was executed
  loaded            \* history: what each tile has loaded of each tensor

walkVars == <<outcome, frames, loop_start, vec_last_dim_, dim_skew,
              resident, data_movements_, latency, latency_sub_vec_,
              latency_vec_, executed, loaded>>

costVars == <<resident, data_movements_, latency, latency_sub_vec_,
              latency_vec_, executed, loaded>>

-----------------------------------------------------------------------------
Current == frames[Len(frames)]

IsLoop(f) == f.idx > 0

DimOf(f) == Tree[f.node].loops[f.idx].dim

isInnermost(f) == f.idx = Len(Tree[f.node].loops)

\* How often kid advances in the body: once per child, or once for the inner
\* loop.
Steps(f) == IF IsLoop(f) /\ ~isInnermost(f) THEN 1 ELSE Len(Kids(f.node))

InBody(f) == f.kid > 0

\* The frame is about to visit a child.
AtChild(f) == /\ f.kid \in 1 .. Steps(f)
              /\ ~IsLoop(f) \/ isInnermost(f)

Child(f) == Kids(f.node)[f.kid]

Step(f) == [f EXCEPT !.kid = f.kid + 1]

Replace(f) == [frames EXCEPT ![Len(frames)] = f]

\* Bug: only the nearest loop over d decides.
isLastLoopNearest(d) == vec_last_dim_[d] # <<>> => Last(vec_last_dim_[d])

\* Every running loop over d is in its last iteration.
isLastLoop(d) == \A i \in DOMAIN vec_last_dim_[d] : vec_last_dim_[d][i]

\* A new activation of visitTileLoop; from is history: the offset it found.
LoopFrame(n, i) ==
  LET l == Tree[n].loops[i] IN
    [node |-> n, idx |-> i, ori |-> loop_start[n][i], start |-> loop_start[n][i],
     end |-> IF Parent(n) = nullptr \/ isLastLoop(l.dim) THEN l.res ELSE l.end,
     moved |-> 0, from |-> dim_skew[l.dim], kid |-> 0]

ScopeFrame(n) ==
  [node |-> n, idx |-> 0, ori |-> 0, start |-> 0, end |-> 0, moved |-> 0,
   from |-> 0, kid |-> 1]

\* The loop frame of node n for dimension d.
FrameOf(n, d) ==
  frames[CHOOSE i \in DOMAIN frames :
           /\ frames[i].node = n
           /\ IsLoop(frames[i])
           /\ DimOf(frames[i]) = d]

-----------------------------------------------------------------------------
WalkEmpty ==
  /\ outcome = "walking"
  /\ frames = <<>>
  /\ loop_start = [n \in Nodes |-> [i \in DOMAIN Tree[n].loops |-> 0]]
  /\ vec_last_dim_ = [d \in Dim |-> <<>>]
  /\ dim_skew = [d \in Dim |-> 0]
  /\ resident = [n \in Nodes |-> [t \in Tensor |-> <<>>]]
  /\ data_movements_ = 0
  /\ latency = [n \in Nodes |-> Zero]
  /\ latency_sub_vec_ = [n \in Nodes |-> <<>>]
  /\ latency_vec_ = [n \in Nodes |-> <<>>]
  /\ executed = [o \in Ops |-> <<>>]
  /\ loaded = [n \in Nodes |-> [t \in Tensor |-> 0]]

Walking == outcome = "walking"

\* visitTile: the first loop of the nest.  A nest without loops is read at
\* index 0.
visitTile(n) ==
  /\ Tree[n].kind = "Tile"
  /\ IF Tree[n].loops = <<>>
     THEN outcome' = Undefined /\ UNCHANGED frames
     ELSE frames' = Append(frames, LoopFrame(n, 1)) /\ UNCHANGED outcome
  /\ UNCHANGED <<loop_start, vec_last_dim_, dim_skew, costVars>>

StartWalk ==
  /\ Walking
  /\ frames = <<>>
  /\ visitTile(root)

EnterTile ==
  /\ Walking
  /\ frames # <<>>
  /\ AtChild(Current)
  /\ visitTile(Child(Current))

\* The body of a loop that is not the innermost: the next loop of the nest.
EnterInnerLoop ==
  /\ Walking
  /\ frames # <<>>
  /\ IsLoop(Current) /\ ~isInnermost(Current) /\ Current.kid = 1
  /\ frames' = Append(frames, LoopFrame(Current.node, Current.idx + 1))
  /\ UNCHANGED <<outcome, loop_start, vec_last_dim_, dim_skew, costVars>>

-----------------------------------------------------------------------------
\* The range of dimension d that node n reports for its tensors: its own
\* loop, or the nearest loop below it, in both cases ended by the length of
\* the very last iteration.
DimRange(n, d) ==
  LET range(first, trips, o) ==
        [low |-> dim_skew[d] + first * o.step,
         high |-> dim_skew[d] + (trips - 1) * o.step + o.last]
      first(m) == IF m = n THEN FrameOf(n, d).ori ELSE 0
      trips(m) == IF m = n THEN FrameOf(n, d).end ELSE LoopOf(m, d).res
      rangeOf(m) == range(first(m), trips(m), Offsets[d][m])
  IN  rangeOf(BFSOffsetLoop[d][n])

NewRanges(n, t) == [d \in ToSet(TensorDims[t]) |-> DimRange(n, d)]

\* addCurrentTensor asserts that BFSOffsetLoop finds a loop over the dimension,
\* and calTensorMapDM, which the root does not call, that there is a range.
RangesDefined(n) ==
  \A t \in input_tensors_[n] \cup output_tensors_[n] :
    /\ Parent(n) # nullptr => TensorDims[t] # <<>>
    /\ \A i \in DOMAIN TensorDims[t] : BFSOffsetLoop[TensorDims[t][i]][n] # nullptr

\* Bug: a tensor that the tile holds any part of is not moved again.
InputMovedOnce(n, t) ==
  IF Parent(n) = nullptr \/ resident[n][t] # <<>> THEN 0
  ELSE calTensorMapDM(resident[n][t], NewRanges(n, t))

\* The movement of input t into node n; nothing is moved into the root.
InputMoved(n, t) ==
  IF Parent(n) = nullptr THEN 0
  ELSE calTensorMapDM(resident[n][t], NewRanges(n, t))

OutputMoved(n) ==
  IF Parent(n) = nullptr THEN 0
  ELSE MapThenSumSet(LAMBDA t : Volume(NewRanges(n, t)), output_tensors_[n])

\* The leaf before the first leaf of n, if that is a Trans node: its tensor,
\* the first of an unordered map, is what n gets from it.
PreviousLeaf(n) ==
  LET i == LeafIndex(findFirstLeaf[n])
  IN  IF i = 1 THEN nullptr ELSE leaf_vec_[i - 1]

AfterTrans(n) == PreviousLeaf(n) # nullptr /\ Tree[PreviousLeaf(n)].kind = "Trans"

TransTensors(n) == IF AfterTrans(n) THEN output_tensors_[PreviousLeaf(n)] ELSE {""}

\* The transfers of tile n and their cost; the root has none.  moved is the
\* movement of each input, dm_out that of all outputs, name the tensor that
\* comes over a Trans node.
TransferTile(n, moved, dm_out, name) ==
  LET dm_trans == SumOver(LAMBDA t : moved[t], DOMAIN moved \cap {name})
      dm_tile == SumOver(LAMBDA t : moved[t], DOMAIN moved \ {name})
      isRoot == Parent(n) = nullptr
  IN  \E i \in IF isRoot THEN Free ELSE getInputLatency(n, dm_tile, dm_trans),
         o \in IF isRoot THEN Free ELSE getOutputLatency(n, dm_out) :
        /\ outcome' = IF i.outcome # "computed" THEN i.outcome
                      ELSE IF o.outcome # "computed" THEN o.outcome ELSE outcome
        /\ data_movements_' = data_movements_ + dm_tile + dm_trans + dm_out
        /\ latency' = [latency EXCEPT ![n].in = i.latency, ![n].out = o.latency]

\* addCurrentTensor for inputs and outputs, and the latencies of the tile.
addCurrentTensor(n) ==
  LET moved == [t \in input_tensors_[n] |-> InputMoved(n, t)]
      kept == [t \in input_tensors_[n] |-> NewRanges(n, t)]
      over(t) == IF t \in input_tensors_[n] THEN InputMoved(n, t) ELSE 0
  IN  /\ \E name \in TransTensors(n) : TransferTile(n, moved, OutputMoved(n), name)
      /\ resident' = [resident EXCEPT ![n] = Over(kept, @)]
      /\ loaded' = [loaded EXCEPT ![n] = [t \in Tensor |-> @[t] + over(t)]]
      /\ latency_vec_' = [latency_vec_ EXCEPT ![n] = <<>>]
      /\ UNCHANGED executed

\* Bug: the loops above the tile have to be in their first iteration too.
isFirstLoopOfAll(n) == \A i \in DOMAIN frames : frames[i].start = frames[i].ori

\* The frames of n are all in their first iteration.
isFirstLoop(n) ==
  \A i \in DOMAIN frames : frames[i].node = n => frames[i].start = frames[i].ori

MeasureTile(n) ==
  CASE AfterTrans(n) /\ TransTensors(n) = {} ->
         outcome' = Undefined /\ UNCHANGED costVars
    [] ~RangesDefined(n) ->
         outcome' = Abort /\ UNCHANGED costVars
    [] OTHER ->
         /\ addCurrentTensor(n)
         /\ latency_sub_vec_' = [latency_sub_vec_ EXCEPT ![n] = <<>>]

\* The head of an iteration.
BeginIteration ==
  /\ Walking
  /\ frames # <<>>
  /\ IsLoop(Current) /\ ~InBody(Current)
  /\ Current.start < Current.end
  /\ vec_last_dim_' = [vec_last_dim_ EXCEPT ![DimOf(Current)] =
                         Append(@, Current.start + 1 >= Current.end)]
  /\ frames' = Replace(Step(Current))
  /\ LET n == Current.node IN
       IF isInnermost(Current) /\ isFirstLoop(n)
       THEN MeasureTile(n)
       ELSE /\ latency_sub_vec_' = IF isInnermost(Current)
                 THEN [latency_sub_vec_ EXCEPT ![n] = <<>>] ELSE latency_sub_vec_
            /\ UNCHANGED <<outcome, resident, data_movements_, latency,
                           latency_vec_, executed, loaded>>
  /\ UNCHANGED <<loop_start, dim_skew>>

-----------------------------------------------------------------------------
\* What the caller does with the latency of a child that has returned: a
\* Scope leaves Trans nodes out.
Collected(caller, child, l) ==
  IF Tree[caller].kind = "Scope" /\ Tree[child].kind = "Trans"
  THEN latency_sub_vec_
  ELSE [latency_sub_vec_ EXCEPT ![caller] = Append(@, l)]

\* The elements of a tensor that one execution of operation o touches.
BlockVolume(o, t) ==
  LET factor(d) == IF d \in LoopDims(o) THEN LoopOf(o, d).end ELSE 0
  IN  FoldLeft(LAMBDA acc, d : acc * factor(d), 1, TensorDims[t])

visitOp ==
  /\ Walking
  /\ frames # <<>>
  /\ AtChild(Current)
  /\ LET o == Child(Current)
         l == [in |-> 0, out |-> 0, proc |-> ComputeCycles(Level(o))]
     IN  /\ Tree[o].kind = "Op"
         /\ data_movements_' = data_movements_
              + MapThenSumSet(LAMBDA t : BlockVolume(o, t), input_tensors_[o])
              + MapThenSumSet(LAMBDA t : BlockVolume(o, t), output_tensors_[o])
         /\ latency' = [latency EXCEPT ![o] = l]
         /\ latency_sub_vec_' = Collected(Current.node, o, l)
         /\ executed' = [executed EXCEPT ![o] = Append(@, dim_skew)]
  /\ frames' = Replace(Step(Current))
  /\ UNCHANGED <<outcome, loop_start, vec_last_dim_, dim_skew, resident,
                 latency_vec_, loaded>>

\* Bug: a Trans node does not hand the traversal back.
visitTransStuck ==
  /\ Walking
  /\ frames # <<>>
  /\ AtChild(Current)
  /\ Tree[Child(Current)].kind = "Trans"
  /\ UNCHANGED walkVars

\* A Trans node costs nothing.  It looks at the leaf before it, and after
\* another Trans node divides 0 by the bandwidth between the two.
visitTrans ==
  /\ Walking
  /\ frames # <<>>
  /\ AtChild(Current)
  /\ LET x == Child(Current) IN
       /\ Tree[x].kind = "Trans"
       /\ \E r \in IF PreviousLeaf(x) = nullptr THEN {Result(Undefined, 0)}
                   ELSE IF AfterTrans(x)
                   THEN Transfers(Level(PreviousLeaf(x)), Level(x), 0) ELSE Free :
            outcome' = IF r.outcome = "computed" THEN "walking" ELSE r.outcome
       /\ latency' = [latency EXCEPT ![x] = Zero]
       /\ latency_sub_vec_' = Collected(Current.node, x, Zero)
  /\ frames' = Replace(Step(Current))
  /\ UNCHANGED <<loop_start, vec_last_dim_, dim_skew, resident, data_movements_,
                 latency_vec_, executed, loaded>>

EnterScope ==
  /\ Walking
  /\ frames # <<>>
  /\ AtChild(Current)
  /\ LET s == Child(Current) IN
       /\ Tree[s].kind = "Scope"
       /\ frames' = Append(frames, ScopeFrame(s))
       /\ latency_sub_vec_' = [latency_sub_vec_ EXCEPT ![s] = <<>>]
  /\ UNCHANGED <<outcome, loop_start, vec_last_dim_, dim_skew, resident,
                 data_movements_, latency, latency_vec_, executed, loaded>>

\* The end of visitScope and what the caller does: a tile takes the Scope's
\* latencies for its own and visits no further child.
ExitScope ==
  /\ Walking
  /\ frames # <<>>
  /\ ~IsLoop(Current) /\ Current.kid > Steps(Current)
  /\ LET s == Current.node
         caller == frames[Len(frames) - 1]
         under == SubSeq(frames, 1, Len(frames) - 1)
     IN  IF latency_sub_vec_[s] = <<>>
         THEN outcome' = Undefined /\ UNCHANGED <<frames, latency_sub_vec_>>
         ELSE /\ IF IsLoop(caller)
                 THEN /\ latency_sub_vec_' = [latency_sub_vec_ EXCEPT
                                                ![caller.node] = latency_sub_vec_[s]]
                      /\ frames' = [under EXCEPT ![Len(under)].kid = Steps(caller) + 1]
                 ELSE /\ latency_sub_vec_' = Collected(caller.node, s, latency[s])
                      /\ frames' = [under EXCEPT ![Len(under)] = Step(caller)]
              /\ UNCHANGED outcome
  /\ UNCHANGED <<loop_start, vec_last_dim_, dim_skew, resident, data_movements_,
                 latency, latency_vec_, executed, loaded>>

-----------------------------------------------------------------------------
\* The end of the body of an iteration.
EndIteration ==
  /\ Walking
  /\ frames # <<>>
  /\ IsLoop(Current) /\ Current.kid > Steps(Current)
  /\ LET n == Current.node
         d == DimOf(Current)
         step == Offsets[d][n].step
     IN  /\ latency_vec_' = IF isInnermost(Current)
              THEN [latency_vec_ EXCEPT ![n] = Append(@, latency_sub_vec_[n])]
              ELSE latency_vec_
         /\ vec_last_dim_' = [vec_last_dim_ EXCEPT ![d] = Front(@)]
         /\ dim_skew' = [dim_skew EXCEPT ![d] = @ + step]
         /\ frames' = Replace([Current EXCEPT !.kid = 0, !.start = @ + 1,
                                              !.moved = @ + step])
  /\ UNCHANGED <<outcome, loop_start, resident, data_movements_, latency,
                 latency_sub_vec_, executed, loaded>>

\* The stack after the innermost activation returned.
Returned ==
  LET under == SubSeq(frames, 1, Len(frames) - 1)
  IN  IF under = <<>> THEN <<>>
      ELSE [under EXCEPT ![Len(under)] = Step(@)]

\* Bug: a cheaper visit does not replace the latency of an earlier one.
TileLatencyGrows(n, proc) == [latency[n] EXCEPT !.proc = Larger(proc, @)]

\* The latency of tile n, which a computed 0 leaves as it was.
TileLatency(n, proc) ==
  IF proc = 0 THEN latency[n] ELSE [latency[n] EXCEPT !.proc = proc]

\* The tile is over, with end for the outcome of computeLatency.
FinishTile(n, end) ==
  IF end # "computed"
  THEN outcome' = end /\ UNCHANGED <<latency, latency_sub_vec_>>
  ELSE /\ latency' = [latency EXCEPT ![n] =
                        TileLatency(n, computeLatency(n, latency_vec_[n]))]
       /\ latency_sub_vec_' = IF n = root THEN latency_sub_vec_
                              ELSE Collected(Parent(n), n, latency'[n])
       /\ outcome' = IF n = root THEN "finished" ELSE outcome

\* Bug: the offset moves back by the full count of the loop, tail or not.
RestoredByFullCount(f) ==
  [dim_skew EXCEPT ![DimOf(f)] =
     @ - LoopOf(f.node, DimOf(f)).end * Offsets[DimOf(f)][f.node].step]

\* The offset that the loop of frame f found.
Restored(f) == [dim_skew EXCEPT ![DimOf(f)] = @ - f.moved]

\* Bug: the loop variable is left at its last value.
StartLeft(f) == [loop_start EXCEPT ![f.node][f.idx] = f.start]

\* The start that the loop of frame f found.
StartRestored(f) == [loop_start EXCEPT ![f.node][f.idx] = f.ori]

\* The loop is over: offset and start are restored, and after the outermost
\* loop of a tile the tile's latency is computed.
ExitLoop ==
  /\ Walking
  /\ frames # <<>>
  /\ IsLoop(Current) /\ ~InBody(Current)
  /\ Current.start >= Current.end
  /\ dim_skew' = Restored(Current)
  /\ loop_start' = StartRestored(Current)
  /\ frames' = Returned
  /\ LET n == Current.node IN
       IF Current.idx = 1
       THEN FinishTile(n, LatencyOutcome(n, latency_vec_[n]))
       ELSE UNCHANGED <<outcome, latency, latency_sub_vec_>>
  /\ UNCHANGED <<vec_last_dim_, resident, data_movements_, latency_vec_,
                 executed, loaded>>

WalkNext ==
  \/ StartWalk \/ EnterTile \/ EnterInnerLoop \/ BeginIteration
  \/ visitOp \/ visitTrans \/ EnterScope \/ ExitScope
  \/ EndIteration \/ ExitLoop
=============================================================================
