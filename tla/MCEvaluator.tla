---------------------------- MODULE MCEvaluator ----------------------------
(* Mappings of a workload of two operations over two dimensions.  Tailed:   *)
(* small forms of the mappings in tests/01 to tests/03 and variations, with *)
(* tails at every level.  Whole: the same kinds without tails.  Refused:    *)
(* one mapping for each way in which the evaluation can fail.               *)
EXTENDS Evaluator

\* A node as a row: what it is, its level, its mode, its children, its trip
\* count and residual count (two digits) for d and for k, its permutation.
\* A row leaves out what its node does not have.
Order(s) == CASE s = "dk" -> <<"d", "k">>
              [] s = "kd" -> <<"k", "d">>
              [] s = "d" -> <<"d">>
              [] OTHER -> <<>>

\* A variable (a negative count) is its own residual count.
Counts(x) == IF x < 0 THEN <<x, x>> ELSE <<x \div 10, x % 10>>

Factors(d, k) == [d |-> Counts(d), k |-> Counts(k)]

NodeOf(r) ==
  CASE r[1] \in {"Temporal", "Spatial"} ->
         TileNode(r[1], Factors(r[5], r[6]), Order(r[7]), r[2], r[3], r[4])
    [] r[1] \in DOMAIN Workloads ->
         OpNode(r[1], Factors(r[4], r[5]), Order(r[6]), r[2], r[3])
    [] r[1] = "Trans" -> TransNode(r[2], "Forward")
    [] OTHER -> ScopeNode(r[1], "", r[2])

Build(mappings) ==
  Forest([m \in DOMAIN mappings |->
            [n \in DOMAIN mappings[m] |-> NodeOf(mappings[m][n])]])

\* A GEMM forwarded over Trans nodes (tests/01), twice; two operations fused
\* in a Scope (tests/03), in three ways; tiles in a Scope; neighbouring tiles
\* that split the same block in different ways; unicast to as many targets as
\* there are iterations; a GEMM whose inner tiles all forward to the Trans
\* nodes of the root; a tile that takes its input over a Trans node.
Tailed ==
  << << <<"Spatial", "DRAM", "Forward", <<2, 6>>, 22, 22, "dk">>,
        <<"Temporal", "L1", "Forward", <<3, 5>>, 21, 11, "dk">>,
        <<"Temporal", "L0", "Forward", <<4>>, 22, 11, "kd">>,
        <<"P", "Cube", "Forward", 11, 22, "dk">>,
        <<"Trans", "L0C">>,
        <<"Trans", "DRAM">> >>,
     << <<"Spatial", "DRAM", "Forward", <<2, 6>>, 22, 11, "dk">>,
        <<"Temporal", "L1", "Forward", <<3, 5>>, 11, 22, "dk">>,
        <<"Temporal", "L0", "Forward", <<4>>, 21, 11, "kd">>,
        <<"P", "Cube", "Forward", 22, 22, "dk">>,
        <<"Trans", "L0C">>,
        <<"Trans", "DRAM">> >>,
     << <<"Spatial", "DRAM", "Write_back", <<2>>, 22, 11, "dk">>,
        <<"Temporal", "UB", "Write_back", <<3>>, 21, 32, "kd">>,
        <<"Pipeline", <<4, 5>>>>,
        <<"P", "Vec", "Write_back", 22, 22, "dk">>,
        <<"Q", "Vec", "Write_back", 22, 22, "dk">> >>,
     << <<"Spatial", "DRAM", "Write_back", <<2>>, 22, 11, "dk">>,
        <<"Temporal", "UB", "Write_back", <<3>>, 11, 11, "kd">>,
        <<"Sequential", <<4, 5>>>>,
        <<"P", "Vec", "Write_back", 42, 44, "dk">>,
        <<"Q", "Vec", "Write_back", 42, 44, "dk">> >>,
     << <<"Spatial", "DRAM", "Write_back", <<2>>, 11, 11, "dk">>,
        <<"Temporal", "UB", "Write_back", <<3>>, 22, 22, "kd">>,
        <<"Parallel", <<4, 5>>>>,
        <<"P", "Vec", "Write_back", 33, 22, "dk">>,
        <<"Q", "Vec", "Write_back", 33, 22, "dk">> >>,
     << <<"Temporal", "DRAM", "Write_back", <<2>>, 22, 11, "kd">>,
        <<"Sequential", <<3, 5>>>>,
        <<"Temporal", "UB", "Write_back", <<4>>, 21, 22, "dk">>,
        <<"P", "Vec", "Write_back", 22, 22, "dk">>,
        <<"Temporal", "UB", "Write_back", <<6>>, 21, 22, "kd">>,
        <<"Q", "Vec", "Write_back", 22, 22, "dk">> >>,
     << <<"Temporal", "DRAM", "Write_back", <<2, 4>>, 22, 11, "dk">>,
        <<"Temporal", "UB", "Write_back", <<3>>, 21, 22, "dk">>,
        <<"P", "Vec", "Write_back", 22, 22, "dk">>,
        <<"Temporal", "UB", "Write_back", <<5>>, 42, 22, "kd">>,
        <<"Q", "Vec", "Write_back", 11, 22, "dk">> >>,
     << <<"Spatial", "HBM", "Write_back", <<2>>, 22, 11, "dk">>,
        <<"Temporal", "L1", "Write_back", <<3>>, 21, 11, "dk">>,
        <<"P", "Cube", "Write_back", 22, 44, "dk">> >>,
     << <<"Temporal", "DRAM", "Forward", <<2, 5, 6>>, 22, 11, "dk">>,
        <<"Temporal", "L1", "Forward", <<3>>, 21, 22, "dk">>,
        <<"Temporal", "L0", "Forward", <<4>>, 11, 22, "kd">>,
        <<"P", "Cube", "Forward", 22, 11, "dk">>,
        <<"Trans", "L0C">>,
        <<"Trans", "DRAM">> >>,
     << <<"Temporal", "DRAM", "Forward", <<2, 4, 5, 7>>, 22, 22, "dk">>,
        <<"Temporal", "UB", "Forward", <<3>>, 42, 22, "dk">>,
        <<"P", "Vec", "Forward", 11, 11, "dk">>,
        <<"Trans", "UB">>,
        <<"Temporal", "UB", "Forward", <<6>>, 21, 22, "kd">>,
        <<"Q", "Vec", "Forward", 22, 11, "dk">>,
        <<"Trans", "DRAM">> >> >>

\* Ways to fail: no connection at all for a child; a fanout of 0; no Trans
\* node to forward to, or another node in its place; nothing before a Trans
\* node; a tile without loops; a Scope of Trans nodes only; a bandwidth that
\* is not declared; a Trans node that takes no tensor; a Scope in a Scope,
\* which has no level to be connected to; a dimension without any loop; a
\* variable in two loops, whose product the legality check accepts; a tensor
\* without dimensions.
Refused ==
  << << <<"Temporal", "L0", "Write_back", <<2>>, 66, 44, "dk">>,
        <<"P", "Vec", "Write_back", 11, 11, "dk">> >>,
     << <<"Spatial", "SPM", "Write_back", <<2>>, 66, 44, "dk">>,
        <<"P", "Cube", "Write_back", 11, 11, "dk">> >>,
     << <<"Temporal", "DRAM", "Forward", <<2>>, 66, 44, "dk">>,
        <<"Temporal", "L1", "Forward", <<3>>, 11, 11, "dk">>,
        <<"P", "Cube", "Forward", 11, 11, "dk">> >>,
     << <<"Temporal", "DRAM", "Forward", <<2, 4>>, 66, 44, "dk">>,
        <<"Temporal", "UB", "Forward", <<3>>, 11, 11, "dk">>,
        <<"P", "Vec", "Forward", 11, 11, "dk">>,
        <<"Temporal", "UB", "Write_back", <<5>>, 11, 11, "dk">>,
        <<"Q", "Vec", "Write_back", 11, 11, "dk">> >>,
     << <<"Temporal", "DRAM", "Forward", <<2, 3>>, 66, 44, "dk">>,
        <<"Trans", "L1">>,
        <<"P", "Cube", "Forward", 11, 11, "dk">> >>,
     << <<"Temporal", "DRAM", "Write_back", <<2>>, 66, 44, "dk">>,
        <<"Temporal", "L1", "Write_back", <<3>>, 11, 11, "">>,
        <<"P", "Cube", "Write_back", 11, 11, "dk">> >>,
     << <<"Temporal", "DRAM", "Forward", <<2, 3>>, 66, 44, "dk">>,
        <<"P", "Vec", "Forward", 11, 11, "dk">>,
        <<"Sharing", <<4, 5>>>>,
        <<"Trans", "UB">>,
        <<"Trans", "UB">> >>,
     << <<"Temporal", "UB", "Write_back", <<2>>, 11, 11, "dk">>,
        <<"Temporal", "L1", "Write_back", <<3>>, 66, 44, "dk">>,
        <<"P", "Cube", "Write_back", 11, 11, "dk">> >>,
     << <<"Temporal", "DRAM", "Forward", <<2, 4, 5, 6>>, 22, 44, "dk">>,
        <<"Temporal", "UB", "Write_back", <<3>>, 33, 11, "dk">>,
        <<"P", "Vec", "Write_back", 11, 11, "dk">>,
        <<"Trans", "UB">>,
        <<"Trans", "UB">>,
        <<"Temporal", "UB", "Forward", <<7>>, 33, 11, "dk">>,
        <<"R", "Vec", "Write_back", 11, 11, "dk">> >>,
     << <<"Temporal", "UB", "Write_back", <<2>>, 66, 44, "dk">>,
        <<"Sharing", <<3, 4>>>>,
        <<"P", "Vec", "Write_back", 11, 11, "dk">>,
        <<"Parallel", <<5>>>>,
        <<"Q", "Vec", "Write_back", 11, 11, "dk">> >>,
     << <<"Temporal", "UB", "Write_back", <<2>>, 66, 11, "d">>,
        <<"P", "Vec", "Write_back", 11, 11, "d">> >>,
     << <<"Temporal", "DRAM", "Write_back", <<2>>, -1, 44, "dk">>,
        <<"Temporal", "UB", "Write_back", <<3>>, 66, 11, "dk">>,
        <<"P", "Vec", "Write_back", -1, 11, "dk">> >>,
     << <<"Temporal", "DRAM", "Write_back", <<2>>, 66, 44, "dk">>,
        <<"Temporal", "UB", "Write_back", <<3>>, 11, 11, "dk">>,
        <<"S", "Vec", "Write_back", 11, 11, "dk">> >> >>

MCForest == Build(Tailed \o Refused)
MCTailedForest == Build(Tailed)
MCBounds == [d |-> 6, k |-> 4]

\* The same kinds of mappings without tails.
Whole ==
  << << <<"Spatial", "DRAM", "Forward", <<2, 6>>, 22, 11, "dk">>,
        <<"Temporal", "L1", "Forward", <<3, 5>>, 11, 22, "dk">>,
        <<"Temporal", "L0", "Forward", <<4>>, 22, 22, "kd">>,
        <<"P", "Cube", "Forward", 11, 11, "dk">>,
        <<"Trans", "L0C">>,
        <<"Trans", "DRAM">> >>,
     << <<"Spatial", "DRAM", "Write_back", <<2>>, 22, 11, "dk">>,
        <<"Temporal", "UB", "Write_back", <<3>>, 22, 22, "kd">>,
        <<"Pipeline", <<4, 5>>>>,
        <<"P", "Vec", "Write_back", 11, 22, "dk">>,
        <<"Q", "Vec", "Write_back", 11, 22, "dk">> >>,
     << <<"Temporal", "DRAM", "Write_back", <<2>>, 22, 22, "kd">>,
        <<"Sequential", <<3, 5>>>>,
        <<"Temporal", "UB", "Write_back", <<4>>, 22, 11, "dk">>,
        <<"P", "Vec", "Write_back", 11, 22, "dk">>,
        <<"Temporal", "UB", "Write_back", <<6>>, 22, 11, "kd">>,
        <<"Q", "Vec", "Write_back", 11, 22, "dk">> >>,
     << <<"Temporal", "DRAM", "Write_back", <<2, 4>>, 22, 22, "dk">>,
        <<"Temporal", "UB", "Write_back", <<3>>, 22, 22, "dk">>,
        <<"P", "Vec", "Write_back", 11, 11, "dk">>,
        <<"Temporal", "UB", "Write_back", <<5>>, 11, 22, "kd">>,
        <<"Q", "Vec", "Write_back", 22, 11, "dk">> >> >>

MCWholeForest == Build(Whole)
MCWholeBounds == [d |-> 4, k |-> 4]

MCWorkloads == [P |-> [ins |-> <<"A", "W">>, out |-> "B"],
                Q |-> [ins |-> <<"B">>, out |-> "C"],
                R |-> [ins |-> <<"A">>, out |-> "D"],
                S |-> [ins |-> <<"Z">>, out |-> "D"]]
MCTensorDims == [A |-> <<"d", "k">>, W |-> <<"k">>, B |-> <<"d", "k">>, C |-> <<"k", "d">>,
                 D |-> <<"d">>, Z |-> <<>>]

\* One chip with two cores; the scratchpad has more instances than the Cube.
MCLevels ==
  LET level(num, cycles) == [num |-> num, cycles |-> cycles]
  IN  [l \in {"DRAM", "HBM"} |-> level(1, 0)]
        @@ [l \in {"L1", "L0", "L0C", "UB"} |-> level(2, 0)]
        @@ [SPM |-> level(4, 0), Cube |-> level(2, 2), Vec |-> level(2, 1)]

MCConnections ==
  << <<"DRAM", "L1", "BC", 2>>, <<"L1", "L0", "HD", 2>>, <<"L0", "Cube", "HD", 4>>,
     <<"Cube", "L0C", "HD", 4>>, <<"L0C", "DRAM", "FD", 3>>, <<"DRAM", "UB", "BC", 2>>,
     <<"UB", "DRAM", "BC", 2>>, <<"UB", "Vec", "FD", 4>>, <<"HBM", "L1", "UC", 9>>,
     <<"L1", "HBM", "UC", 2>>, <<"L1", "Cube", "FD", 4>>, <<"UB", "UB", "Ring", 2>>,
     <<"SPM", "Cube", "BC", 2>>, <<"DRAM", "Vec", "FD", 2>>, <<"UB", "L1", "FD", 2>>,
     <<"Cube", "Inner", "HD", 8>>, <<"HBM", "L1", "UC", 2>>,
     <<"Vec", "UB", "FD", 4>>, <<"Vec", "DRAM", "FD", 2>> >>

\* Every mapping but the one with a variable is regular, and there are such.
ASSUME RegularMappings ==
  /\ \E r \in Roots : CountsPositive(r)
  /\ \A r \in Roots : CountsPositive(r) => Regular(r)

\* A mapping whose counts are set and that has no tails is even, and there are
\* such whose operations loop over the dimensions of their inputs.
ASSUME EvenMappings ==
  /\ \A r \in Roots : CountsPositive(r) /\ Untailed(r) => Even(r)
  /\ \E r \in Roots : Even(r) /\ InputsLooped(r)
=============================================================================
