---------------------------- MODULE InitAnalysis ----------------------------
(***************************************************************************)
(* InitAnalysis (src/src/loop-analysis/init.cpp): the passes that prepare  *)
(* a mapping for the performance analysis.  The offset passes compute the  *)
(* tables MappingTree!Offsets.  initOpTensor collects the leaves and the   *)
(* producer of every tensor; initTensor then spreads each tensor over the  *)
(* nodes it passes between its producer (or the root) and its consumer.    *)
(* A TensorMap is its name here: its dimensions are TensorDims, and no     *)
(* pass of this visitor gives it ranges.                                   *)
(***************************************************************************)
EXTENDS MappingTree, StdMap

VARIABLES
  pass,            \* the pass that is running, or how the visitor ended
  todo,            \* the nodes the pass has still to visit
  op_num_,         \* operations not yet handled by initTensor
  leaf_vec_,       \* the Op and Trans nodes, left to right
  producer_map_,   \* the operation that writes a tensor
  input_tensors_,  \* per node: the tensors it takes in
  output_tensors_  \* per node: the tensors it gives out

tensorVars == <<pass, todo, op_num_, leaf_vec_, producer_map_,
                input_tensors_, output_tensors_>>

Ins(o) == ToSet(Workloads[Tree[o].name].ins)

Out(o) == Workloads[Tree[o].name].out

\* An operation names tensors of the problem.
ASSUME TensorsAssumption ==
  \A n \in Node : Tree[n].kind = "Op" => Ins(n) \subseteq Tensor /\ Out(n) \in Tensor

\* std::find in leaf_vec_.
LeafIndex(n) == CHOOSE i \in DOMAIN leaf_vec_ : leaf_vec_[i] = n

\* Node n takes the tensors of the set ts; the maps keep one entry per name.
Added(tensors, nodes, ts) ==
  [n \in DOMAIN tensors |-> IF n \in nodes THEN tensors[n] \cup ts
                                           ELSE tensors[n]]

-----------------------------------------------------------------------------
TensorsEmpty ==
  /\ pass = "offset"
  /\ todo = <<>>
  /\ op_num_ = 0
  /\ leaf_vec_ = <<>>
  /\ producer_map_ = <<>>
  /\ input_tensors_ = [n \in Nodes |-> {}]
  /\ output_tensors_ = [n \in Nodes |-> {}]

TensorInit == root \in Roots /\ TensorsEmpty

\* initOffset and getOffset: the assertion of getOffset decides.
OffsetPasses ==
  /\ pass = "offset"
  /\ IF OffsetsDefined(root)
     THEN pass' = "initOp" /\ todo' = PostOrder[root]
     ELSE pass' = "aborted" /\ todo' = <<>>
  /\ UNCHANGED <<root, op_num_, leaf_vec_, producer_map_, input_tensors_,
                 output_tensors_>>

\* initOpTensor at an operation.  Its output must have no producer yet.
initOp(n) ==
  /\ Tree[n].kind = "Op"
  /\ op_num_' = op_num_ + 1
  /\ leaf_vec_' = Append(leaf_vec_, n)
  /\ input_tensors_' = Added(input_tensors_, {n}, Ins(n))
  /\ output_tensors_' = Added(output_tensors_, {n}, {Out(n)})
  /\ IF Out(n) \in DOMAIN producer_map_
     THEN /\ pass' = "aborted"
          /\ todo' = <<>>
          /\ UNCHANGED producer_map_
     ELSE /\ producer_map_' = Put(producer_map_, Out(n), n)
          /\ todo' = Tail(todo)
          /\ UNCHANGED pass

\* Bug: Trans nodes are counted as operations.
initLeafCounted(n) ==
  /\ Tree[n].kind # "Op"
  /\ leaf_vec_' = IF Tree[n].kind = "Trans" THEN Append(leaf_vec_, n)
                                            ELSE leaf_vec_
  /\ op_num_' = IF Tree[n].kind = "Trans" THEN op_num_ + 1 ELSE op_num_
  /\ todo' = Tail(todo)
  /\ UNCHANGED <<pass, producer_map_, input_tensors_, output_tensors_>>

\* initOpTensor at a node of another kind: a Trans node is a leaf too.
initLeaf(n) ==
  /\ Tree[n].kind # "Op"
  /\ leaf_vec_' = IF Tree[n].kind = "Trans" THEN Append(leaf_vec_, n)
                                            ELSE leaf_vec_
  /\ todo' = Tail(todo)
  /\ UNCHANGED <<pass, op_num_, producer_map_, input_tensors_, output_tensors_>>

initOpTensor ==
  /\ pass = "initOp"
  /\ todo # <<>>
  /\ initOp(Head(todo)) \/ initLeaf(Head(todo))
  /\ UNCHANGED root

StartTensorPass ==
  /\ pass = "initOp"
  /\ todo = <<>>
  /\ pass' = "initTensor"
  /\ todo' = PostOrder[root]
  /\ UNCHANGED <<root, op_num_, leaf_vec_, producer_map_, input_tensors_,
                 output_tensors_>>

-----------------------------------------------------------------------------
\* The index in the path above n of the nearest ancestor shared with m that
\* is no Scope.
CommonIndex(n, m) ==
  LET shared(i) == /\ Tree[Ancestors[n][i]].kind # "Scope"
                   /\ Ancestors[n][i] \in ToSet(Ancestors[m])
  IN  CHOOSE i \in DOMAIN Ancestors[n] :
        shared(i) /\ \A j \in 1 .. i - 1 : ~shared(j)

Distance(source, target) == LeafIndex(target) - LeafIndex(source)

\* Bug: the consumer's path keeps the common ancestor.
ConsumerPathWithCommon(source, target) ==
  SubSeq(Ancestors[target], 1, CommonIndex(target, source))

\* consumer_path_ of findCommonNode: up to the common ancestor, without it.
consumer_path_(source, target) ==
  SubSeq(Ancestors[target], 1, CommonIndex(target, source) - 1)

\* Bug: the leaves in between are counted from the producer itself.
ProducerPathFromSource(source, target) ==
  IF Distance(source, target) = 1
  THEN SubSeq(Ancestors[source], 1, CommonIndex(source, target) - 2)
  ELSE SubSeq(leaf_vec_, LeafIndex(source), LeafIndex(target) - 2)

\* producer_path_ of findCommonNode: between neighbouring leaves the path is
\* cut one node before the common ancestor; otherwise it is the leaves that
\* lie in between.
producer_path_(source, target) ==
  IF Distance(source, target) = 1
  THEN SubSeq(Ancestors[source], 1, CommonIndex(source, target) - 2)
  ELSE SubSeq(leaf_vec_, LeafIndex(source) + 1, LeafIndex(target) - 1)

\* erase(begin() + i - 1, ...) with i = 0: an iterator before the vector.
ErasesBeforeBegin(source, target) ==
  Distance(source, target) = 1 /\ CommonIndex(source, target) = 1

\* The producers of the tensors that o reads.
Produced(o) == Ins(o) \cap DOMAIN producer_map_

\* addParentTensor for the inputs of o: a produced tensor along the
\* consumer's path, any other tensor on every ancestor.
InputsAfter(o) ==
  [n \in Nodes |-> input_tensors_[n]
     \cup {t \in Produced(o) : n \in ToSet(consumer_path_(producer_map_[t], o))}
     \cup (IF n \in ToSet(Ancestors[o]) THEN Ins(o) \ Produced(o) ELSE {})]

\* Bug: the count of the operations is taken down after the test.
isLastOpLate == op_num_ = 0

\* op_num_ has come down to 0 with this operation.
isLastOp == op_num_ = 1

\* Outputs: a produced tensor along the producer's path; the output of the
\* last operation on every leaf from there on and on every ancestor of the
\* last leaf.
OutputsAfter(o) ==
  LET leaves == SubSeq(leaf_vec_, LeafIndex(o), Len(leaf_vec_))
      final == ToSet(leaves) \cup ToSet(Ancestors[Last(leaf_vec_)])
  IN  [n \in Nodes |-> output_tensors_[n]
         \cup {t \in Produced(o) :
                 n \in ToSet(producer_path_(producer_map_[t], o))}
         \cup (IF isLastOp /\ n \in final THEN {Out(o)} ELSE {})]

initTensor ==
  /\ pass = "initTensor"
  /\ todo # <<>>
  /\ LET n == Head(todo) IN
       IF Tree[n].kind # "Op"
       THEN /\ todo' = Tail(todo)
            /\ UNCHANGED <<pass, op_num_, input_tensors_, output_tensors_>>
       ELSE /\ op_num_' = op_num_ - 1
            /\ IF \E t \in Produced(n) : ErasesBeforeBegin(producer_map_[t], n)
               THEN /\ pass' = "undefined"
                    /\ todo' = <<>>
                    /\ UNCHANGED <<input_tensors_, output_tensors_>>
               ELSE /\ input_tensors_' = InputsAfter(n)
                    /\ output_tensors_' = OutputsAfter(n)
                    /\ todo' = Tail(todo)
                    /\ UNCHANGED pass
  /\ UNCHANGED <<root, leaf_vec_, producer_map_>>

FinishTensors ==
  /\ pass = "initTensor"
  /\ todo = <<>>
  /\ pass' = "done"
  /\ UNCHANGED <<root, todo, op_num_, leaf_vec_, producer_map_,
                 input_tensors_, output_tensors_>>

TensorNext ==
  \/ OffsetPasses
  \/ initOpTensor
  \/ StartTensorPass
  \/ initTensor
  \/ FinishTensors

TensorStopped ==
  pass \in {"done", "aborted", "undefined"} /\ UNCHANGED <<root, tensorVars>>

TensorSpec ==
  TensorInit /\ [][TensorNext \/ TensorStopped]_<<root, tensorVars>>

-----------------------------------------------------------------------------
Subtree(n) == ToSet(PreOrder[n])

Tiles == {n \in Nodes : Tree[n].kind = "Tile"}

\* Type invariant.  The leaves and producers found so far are those of the
\* nodes visited, and op_num_ counts the operations still to be handled.
TensorTypeOK ==
  /\ root \in Roots
  /\ pass \in {"offset", "initOp", "initTensor", "done", "aborted", "undefined"}
  /\ ToSet(todo) \subseteq Nodes
  /\ ToSet(leaf_vec_) \subseteq {n \in Nodes : Kids(n) = <<>>}
  /\ producer_map_ \in [DOMAIN producer_map_ -> Ops]
  /\ DOMAIN producer_map_ \subseteq Tensor
  /\ input_tensors_ \in [Nodes -> SUBSET Tensor]
  /\ output_tensors_ \in [Nodes -> SUBSET Tensor]
  /\ pass = "initTensor" => op_num_ = Cardinality(Ops \cap ToSet(todo))

\* What a tile takes in are exactly the tensors that are live into it: read
\* by an operation below it and not written by one below it.  In particular
\* a fused intermediate never appears as an input of the root, whatever the
\* order of producer and consumer and however many Scopes lie between.
InputsAreLiveIn ==
  pass = "done" =>
    \A n \in Tiles : input_tensors_[n] =
      {t \in Tensor : /\ \E o \in Ops \cap Subtree(n) : t \in Ins(o)
                      /\ ~\E o \in Ops \cap Subtree(n) : t = Out(o)}

\* The tensor that the last operation writes.
FinalTensor ==
  Out(leaf_vec_[Max({i \in DOMAIN leaf_vec_ : Tree[leaf_vec_[i]].kind = "Op"})])

\* A Trans node gives out exactly the tensors that pass over it: written by
\* an operation on its left and read by one on its right, and after the last
\* operation the final result.  There may be none or several of them, while
\* performance.cpp 528 takes the first one for the tensor of the node.
TransCarriesLive ==
  (pass = "done" /\ Ops # {}) =>
    \A i \in DOMAIN leaf_vec_ :
      LET x == leaf_vec_[i]
          before == {leaf_vec_[j] : j \in 1 .. i - 1} \cap Ops
          after == {leaf_vec_[j] : j \in i + 1 .. Len(leaf_vec_)} \cap Ops
      IN  Tree[x].kind = "Trans" =>
            output_tensors_[x] =
              {t \in Tensor : /\ \E p \in before : t = Out(p)
                             /\ \E o \in after : t \in Ins(o)}
              \cup (IF after = {} THEN {FinalTensor} ELSE {})

\* The output of the last operation is given out by every node above the
\* last leaf, and nothing else leaves the root: no intermediate does.
ResultLeavesRoot ==
  (pass = "done" /\ Ops # {}) =>
    /\ output_tensors_[root] = {FinalTensor}
    /\ \A n \in ToSet(Ancestors[Last(leaf_vec_)]) : FinalTensor \in output_tensors_[n]

\* init.cpp 178 says of the producer's path between neighbouring operations
\* that it "contains the common ancestor, this is the write-back mode", and
\* init.cpp 197 that it must not contain it.  On either reading the tiles
\* below the common ancestor, on the producer's side, write the tensor back.
ProducerTilesWriteBack ==
  pass = "done" =>
    \A o \in Ops : \A t \in Produced(o) :
      LET p == producer_map_[t] IN
        Distance(p, o) = 1 =>
          \A i \in 1 .. CommonIndex(p, o) - 1 :
            Tree[Ancestors[p][i]].kind = "Tile" =>
              t \in output_tensors_[Ancestors[p][i]]
=============================================================================
