---------------------------- MODULE MappingTree ----------------------------
(***************************************************************************)
(* The mapping tree of LATIAS: the shape of the EvaNode tree the analyses  *)
(* walk (src/src/loop-analysis/common.cpp), and the offsets that           *)
(* InitAnalysis::getOffset gives to every loop                             *)
(* (src/src/loop-analysis/init.cpp).                                       *)
(*                                                                         *)
(* A mapping is the sequence of its nodes, parents before children.        *)
(* Mappings is the forest of all candidate mappings of one workload; the   *)
(* evaluation starts at one of its roots.                                  *)
(***************************************************************************)
EXTENDS MappingNode, FiniteSets

CONSTANTS
  Mappings,          \* the nodes of the candidate mappings, see Forest
  FactorizedBounds,  \* the workload's dimensions and their sizes
  Workloads,         \* the operations: their input tensors and their output
  TensorDims         \* the dimensions that a tensor's projection names

VARIABLE root        \* the root of the mapping under evaluation

Dim == DOMAIN FactorizedBounds
Tensor == DOMAIN TensorDims

-----------------------------------------------------------------------------
\* Node::add_child and EvaNode::set_parent: a child knows its parent.
add_child(nodes) ==
  [n \in DOMAIN nodes |->
    [nodes[n] EXCEPT !.parent =
       LET P == {p \in DOMAIN nodes : n \in ToSet(nodes[p].kids)}
       IN  IF P = {} THEN nullptr ELSE CHOOSE p \in P : TRUE]]

\* Bound on the nodes of a mapping.
Stride == 20

\* Linked mappings side by side: node k of mapping i is Stride * i + k.
SideBySide(linked) ==
  [n \in UNION {{Stride * i + k : k \in DOMAIN linked[i]} : i \in DOMAIN linked} |->
    LET base == Stride * (n \div Stride)
    IN  [linked[n \div Stride][n % Stride] EXCEPT
           !.kids = [i \in DOMAIN @ |-> base + @[i]],
           !.parent = IF @ = nullptr THEN nullptr ELSE base + @]]

Forest(mappings) ==
  SideBySide([i \in DOMAIN mappings |-> add_child(mappings[i])])

Tree == Mappings

Node == DOMAIN Tree

-----------------------------------------------------------------------------
Kids(n) == Tree[n].kids

Parent(n) == Tree[n].parent

LoopDims(n) == {Tree[n].loops[i].dim : i \in DOMAIN Tree[n].loops}

\* A loop of a mapping: its dimension, its trip count and its residual count.
Loop == [dim : Dim, end : Int, res : Int]

\* Every node hangs under exactly the node that lists it as a child, and it is
\* listed once; a loop nest names dimensions of the workload, each one once.
ASSUME TreeAssumption ==
  /\ IsFiniteSet(Node) /\ Node \subseteq Nat \ {nullptr}
  /\ \A n \in Node :
       /\ Tree[n].kind \in {"Tile", "Scope", "Op", "Trans"}
       /\ Kids(n) \in Seq(Node)
       /\ \A i \in DOMAIN Kids(n) : Kids(n)[i] > n /\ Parent(Kids(n)[i]) = n
       /\ \A i, j \in DOMAIN Kids(n) : Kids(n)[i] = Kids(n)[j] => i = j
       /\ Parent(n) # nullptr => Parent(n) \in Node /\ n \in ToSet(Kids(Parent(n)))
       /\ Parent(n) = nullptr => Tree[n].kind = "Tile"
       /\ Tree[n].loops \in Seq(Loop)
       /\ \A i, j \in DOMAIN Tree[n].loops :
             Tree[n].loops[i].dim = Tree[n].loops[j].dim => i = j

Roots == {n \in Node : Parent(n) = nullptr}

\* The nodes above n, the nearest first.
Ancestors ==
  LET above[n \in Node] == IF Parent(n) = nullptr THEN <<>>
                            ELSE <<Parent(n)>> \o above[Parent(n)]
  IN  [n \in Node |-> above[n]]

PreOrder ==
  LET pre[n \in Node] ==
        <<n>> \o FlattenSeq([i \in DOMAIN Kids(n) |-> pre[Kids(n)[i]]])
  IN  [n \in Node |-> pre[n]]

\* The nodes of the mapping with root r.
NodesOf == [r \in Roots |-> {n \in Node : r = n \/ r \in ToSet(Ancestors[n])}]

\* The nodes of the mapping under evaluation.
Nodes == NodesOf[root]

Ops == {n \in Nodes : Tree[n].kind = "Op"}

PostOrder ==
  LET post[n \in Node] ==
        FlattenSeq([i \in DOMAIN Kids(n) |-> post[Kids(n)[i]]]) \o <<n>>
  IN  [n \in Node |-> post[n]]

\* PerfAnalysis::findFirstLeaf.
findFirstLeaf ==
  LET first[n \in Node] == IF Kids(n) = <<>> THEN n ELSE first[Kids(n)[1]]
  IN  [n \in Node |-> first[n]]

\* The last child all the way down: findLastOpTrans, findSource and
\* getInterConNode each walk down like this.
LastLeaf ==
  LET last[n \in Node] == IF Kids(n) = <<>> THEN n ELSE last[Last(Kids(n))]
  IN  [n \in Node |-> last[n]]

\* PerfAnalysis::findCurrentNodePosition.
findCurrentNodePosition(n) ==
  CHOOSE i \in DOMAIN Kids(Parent(n)) : Kids(Parent(n))[i] = n

LoopOf(n, d) ==
  Tree[n].loops[CHOOSE i \in DOMAIN Tree[n].loops : Tree[n].loops[i].dim = d]

-----------------------------------------------------------------------------
\* BFSOffsetLoop: breadth first from n, the first node with a loop over d.
BFSOffsetLoop ==
  [d \in Dim |->
    LET bfs[q \in Seq(Node)] ==
          IF q = <<>> THEN nullptr
          ELSE IF d \in LoopDims(Head(q)) THEN Head(q)
          ELSE bfs[Tail(q) \o Kids(Head(q))]
    IN  [n \in Node |-> bfs[<<n>>]]]

\* getOffset looks below n for the loop over d, child by child.
LoopBelow(n, d) ==
  LET found == {i \in DOMAIN Kids(n) : BFSOffsetLoop[d][Kids(n)[i]] # nullptr}
  IN  IF found = {} THEN nullptr ELSE BFSOffsetLoop[d][Kids(n)[Min(found)]]

\* The offsets of a loop, from the loop l below it and the offsets o of l.
FromBelow(l, o) ==
  [step |-> l.end * o.step, last |-> (l.res - 1) * o.step + o.last]

\* dim_offset_ and last_dim_offset_ of node n for dimension d, after the
\* passes initOffset (all 1) and getOffset (children first).
Offsets ==
  [d \in Dim |->
    LET off[n \in Node] ==
          LET from(m) == IF m = nullptr THEN [step |-> 1, last |-> 1]
                         ELSE FromBelow(LoopOf(m, d), off[m])
          IN  from(IF d \in LoopDims(n) THEN LoopBelow(n, d) ELSE nullptr)
    IN  [n \in Node |-> off[n]]]

\* getOffset asserts that every loop of an inner node is found again below.
OffsetsDefined(r) ==
  \A n \in NodesOf[r] :
    Tree[n].kind = "Tile" => \A d \in LoopDims(n) : LoopBelow(n, d) # nullptr
=============================================================================
