---------------------------- MODULE MCLoopCount ----------------------------
(* Every pair of trip counts up to 3 for the loops of two sibling tiles     *)
(* under one loop, over a dimension of 7 points, and three trees with two   *)
(* dimensions, a Scope and Trans nodes.                                     *)
EXTENDS LoopCount

F(b) == [d |-> b]

\* Two sibling tiles with their own trip counts b and c below a loop a.
Siblings(a, b, c, e) ==
  << TileNode("Temporal", F(a), <<"d">>, "DRAM", "Write_back", <<2, 4>>),
     TileNode("Temporal", F(b), <<"d">>, "L1", "Write_back", <<3>>),
     OpNode("P", F(e), <<"d">>, "Vec", "Write_back"),
     TileNode("Temporal", F(c), <<"d">>, "L1", "Write_back", <<5>>),
     OpNode("Q", F(e), <<"d">>, "Vec", "Write_back") >>

G(d, k) == [d |-> d, k |-> k]

\* tests/01: a spatial tile, two temporal ones with tails, Trans nodes.
Gemm(k) ==
  << TileNode("Spatial", G(<<2, 2>>, <<k, k>>), <<"d", "k">>, "DRAM", "Forward", <<2, 6>>),
     TileNode("Temporal", G(<<1, 1>>, <<2, 1>>), <<"d", "k">>, "L1", "Forward", <<3, 5>>),
     TileNode("Temporal", G(<<2, 2>>, <<1, 1>>), <<"d", "k">>, "L0", "Forward", <<4>>),
     OpNode("P", G(<<2, 1>>, <<1, 1>>), <<"d", "k">>, "Cube", "Forward"),
     TransNode("L0C", "Forward"),
     TransNode("DRAM", "Forward") >>

\* tests/03: a Scope with two operations.
Fused ==
  << TileNode("Temporal", G(<<1, 1>>, <<1, 1>>), <<"d", "k">>, "DRAM", "Write_back", <<2>>),
     TileNode("Temporal", G(<<4, 4>>, <<3, 3>>), <<"d", "k">>, "UB", "Write_back", <<3>>),
     ScopeNode("Pipeline", "", <<4, 5>>),
     OpNode("P", G(<<2, 1>>, <<1, 1>>), <<"d", "k">>, "Vec", "Write_back"),
     OpNode("Q", G(<<2, 1>>, <<1, 1>>), <<"k", "d">>, "Vec", "Write_back") >>

\* A tile without a child is refused.
Bare == << TileNode("Temporal", G(<<7, 7>>, <<3, 3>>), <<"d", "k">>, "DRAM", "Write_back", <<>>) >>

\* All choices, numbered: outer count, the two siblings, the tail of the op.
Digit(i, unit, base) == ((i \div unit) % base) + 1
Pair(i, unit) == <<Digit(i, unit, 3), Digit(i, 3 * unit, 3)>>

MCMappings ==
  [i \in 1 .. 486 |->
     Siblings(<<Digit(i, 1, 3), Digit(i, 1, 3)>>, Pair(i, 3), Pair(i, 27),
              <<2, Digit(i, 243, 2)>>)]
  \o << Gemm(2), Gemm(3), Fused, Bare >>

MCBounds == [d |-> 7, k |-> 3]
MCWorkloads == [P |-> [ins |-> <<"A">>, out |-> "B"],
                Q |-> [ins |-> <<"B">>, out |-> "C"]]
MCTensorDims == [A |-> <<"d">>, B |-> <<"d">>, C |-> <<"d">>]
MCForest == Forest(MCMappings)
=============================================================================
