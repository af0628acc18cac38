--------------------------- MODULE MCInitAnalysis ---------------------------
(* A chain of three operations mapped in the ways that make the paths of    *)
(* the tensors differ: fused in a Scope, in neighbouring tiles, with Trans  *)
(* nodes in between, at different depths, with the consumer on the left of  *)
(* its producer; and mappings that the passes refuse.                       *)
EXTENDS InitAnalysis

F == [d |-> <<2, 2>>]
T(kids) == TileNode("Temporal", F, <<"d">>, "L1", "Forward", kids)
O(name) == OpNode(name, F, <<"d">>, "Vec", "Forward")
X == TransNode("L0", "Forward")

Pipeline == << T(<<2>>), ScopeNode("Pipeline", "", <<3, 4, 5>>), O("P"), O("Q"), O("R") >>

Neighbours == << T(<<2, 4, 6>>), T(<<3>>), O("P"), T(<<5>>), O("Q"), T(<<7>>), O("R") >>

Transfers == << T(<<2, 4, 5, 7, 8, 10>>), T(<<3>>), O("P"), X, T(<<6>>), O("Q"), X,
                T(<<9>>), O("R"), X >>

\* P and Q share a tile and a Scope below the root, R has its own tile.
Nested == << T(<<2, 8>>), T(<<3>>), ScopeNode("Sequential", "", <<4, 6>>),
             T(<<5>>), O("P"), T(<<7>>), O("Q"), T(<<9>>), O("R") >>

\* Q is at another depth than its producer, with Trans nodes on the way.
Deep == << T(<<2, 4, 5>>), T(<<3>>), O("P"), X, T(<<6, 9>>), T(<<7, 8>>),
           O("Q"), X, T(<<10>>), O("R") >>

\* The consumer comes first.
Backwards == << T(<<2, 4, 6>>), T(<<3>>), O("R"), T(<<5>>), O("P"), T(<<7>>), O("Q") >>

\* Only two of the operations.
Prefix == << T(<<2, 4>>), T(<<3>>), O("P"), T(<<5, 6>>), O("Q"), X >>

\* A Trans node that nothing passes over, and one that two tensors pass over.
Unread == << T(<<2, 4, 5>>), T(<<3>>), O("P"), X, T(<<6>>), O("S") >>
TwoPass == << T(<<2, 4, 6, 7, 9>>), T(<<3>>), O("P"), T(<<5>>), O("S"), X, T(<<8>>), O("U"), X >>

\* Refused: neighbouring operations right below one tile; a tensor with two
\* producers; a loop without a loop over its dimension below it.
SameParent == << T(<<2, 3>>), O("P"), O("Q") >>
TwoProducers == << T(<<2, 4>>), T(<<3>>), O("P"), T(<<5>>), O("P") >>
NoLoopBelow == << TileNode("Temporal", [k |-> <<2, 2>>], <<"k">>, "L1", "Forward", <<2>>), O("P") >>

MCMappings == << Pipeline, Neighbours, Transfers, Nested, Deep, Prefix,
                 SameParent, TwoProducers, NoLoopBelow, Backwards, Unread, TwoPass >>
MCBounds == [d |-> 4, k |-> 2]
MCWorkloads == [P |-> [ins |-> <<"A", "W">>, out |-> "B"],
                Q |-> [ins |-> <<"B">>, out |-> "C"],
                R |-> [ins |-> <<"C", "A">>, out |-> "D"],
                S |-> [ins |-> <<"A">>, out |-> "E"],
                U |-> [ins |-> <<"B", "E">>, out |-> "G"]]
MCTensorDims == [t \in {"A", "W", "B", "C", "D", "E", "G"} |-> <<"d">>]
MCForest == Forest(MCMappings)
=============================================================================
