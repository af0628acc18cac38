------------------------------ MODULE MCLoader ------------------------------
(* A chip with two cores, two operations that share a tensor and number     *)
(* their dimensions each in its own way, and a mapping with a node of each  *)
(* kind; then inputs that differ from it in one place or two, so that every *)
(* parser meets all it may accept and all it may refuse.                    *)
EXTENDS Loader

Number(n) == <<"number", "", n>>
Name(w) == <<"name", w, 0>>
Variable(w) == <<"variable", w, NoDigits>>
X0 == <<"variable", "X", 0>>

\* rec with the fields of new; rec without field f.
With(new, rec) == new @@ rec
Without(f, rec) == [g \in DOMAIN rec \ {f} |-> rec[g]]

Level(name, type, num, attributes) ==
  [name |-> name, level_name |-> type, level_num |-> num, attributes |-> attributes]

Levels == << Level("DRAM", "DRAM", 1, [sizeKB |-> 9]),
             Level("L1", "SRAM", 2, [word_bits |-> 8, depth |-> 3]),
             Level("Cube", "MAC", 2, [compute_cycles |-> 4]) >>

\* Twice the same level; a level without a number; an unknown type.
OtherLevels ==
  { Append(Levels, Level("L1", "REG", 4, <<>>)),
    [Levels EXCEPT ![2] = Without("level_num", @)],
    [Levels EXCEPT ![3] = With([level_name |-> "TPU"], @)] }

Connection(source, target, type, bandwidth) ==
  [source |-> source, target |-> target, type |-> type, bandwidth |-> bandwidth]

Connections == << Connection("DRAM", "L1", "BC", 2),
                  Connection("L1", "DRAM", "FD", 3),
                  Connection("L1", "Cube", "HD", 4),
                  Connection("Cube", "Inner", "Mesh", 8) >>

\* No bandwidth; an unknown type; levels that are not declared, on both sides
\* and on one; the same connection twice.
OtherConnections ==
  { [Connections EXCEPT ![2] = Without("bandwidth", @)],
    [Connections EXCEPT ![3] = With([type |-> "Bus"], @)],
    Append(Connections, Connection("UB", "SPM", "FD", 2)),
    Append(Connections, Connection("UB", "L1", "FD", 2)),
    Append(Connections, Connection("DRAM", "UB", "FD", 2)),
    Append(Connections, Connection("DRAM", "L1", "UC", 5)) }

-----------------------------------------------------------------------------
Tensor(name, projection) == [name |-> name, projection |-> projection]

OpP == [name |-> "P", dimensions |-> <<"K", "M">>, coefficients |-> <<>>,
        spaces |-> << Tensor("A", << <<<<"M">>>>, <<<<"K">>>> >>),
                      Tensor("B", << <<<<"M">>>> >>) >>,
        ins |-> <<"A">>, outs |-> <<"B">>, type |-> "MATRIX"]

OpQ == [name |-> "Q", dimensions |-> <<"N", "M">>, coefficients |-> <<"c", "s">>,
        spaces |-> << Tensor("B", << <<<<"M">>>> >>),
                      Tensor("C", << <<<<"N", "s">>, <<"M">>>>, <<<<"M", "c">>>> >>) >>,
        ins |-> <<"B">>, outs |-> <<"C">>, type |-> "VECTOR"]

Problem0 == [io |-> TRUE, dimensions |-> <<"M", "N", "K">>, ops |-> <<OpP, OpQ>>,
             instance |-> [M |-> Number(4), N |-> Number(3), K |-> Name("kk")]]

WithOpQ(new) == With([ops |-> <<OpP, With(new, OpQ)>>], Problem0)

\* A problem that is one operation; sections that are missing; a bound that
\* is missing or no number; an operation with a known name, a dimension that
\* the problem has not, a tensor of another rank or with another projection,
\* a projection over an unknown dimension or coefficient, two outputs, an
\* unknown type; a coefficient that two operations have; a dimension twice.
OtherProblems ==
  { With(Without("ops", Problem0), With([dimensions |-> <<"M", "K">>], OpP)),
    Without("io", Problem0),
    Without("dimensions", Problem0),
    Without("instance", Problem0),
    With([instance |-> [M |-> Number(4), K |-> Number(2)]], Problem0),
    With([instance |-> [M |-> Name("m"), N |-> Number(3), K |-> Number(2)]], Problem0),
    With([dimensions |-> <<"M", "N", "K", "M">>], Problem0),
    WithOpQ([name |-> "P"]),
    WithOpQ([dimensions |-> <<"N", "M", "L">>]),
    WithOpQ([spaces |-> << Tensor("A", << <<<<"M">>>> >>), OpQ.spaces[2] >>]),
    WithOpQ([spaces |-> << Tensor("A", << <<<<"N">>>>, <<<<"M">>>> >>), OpQ.spaces[2] >>]),
    WithOpQ([spaces |-> << Tensor("B", << <<<<"K">>>> >>), OpQ.spaces[2] >>]),
    WithOpQ([spaces |-> << Tensor("D", << <<<<"N", "z">>>> >>), OpQ.spaces[2] >>]),
    WithOpQ([outs |-> <<"C", "B">>]),
    WithOpQ([type |-> "DSP"]),
    With([ops |-> <<OpQ, With([name |-> "R", spaces |-> <<Tensor("E", << <<<<"M", "s">>>> >>)>>],
                              OpQ), OpP>>], Problem0) }

-----------------------------------------------------------------------------
Tile(target, factors, permutation, subtree) ==
  [node_type |-> "tile", target |-> target, dataflow_mode |-> "forward",
   factors |-> factors, permutation |-> permutation, subtree |-> subtree]

Leaf(name, factors) ==
  [node_type |-> "op", name |-> name, target |-> "Cube",
   dataflow_mode |-> "write-back", factors |-> factors]

\* The list is not in the order in which the tree is walked.
Mapping0 ==
  << With([type |-> "spatial"],
          Tile("DRAM", << <<"M", Number(2)>>, <<"N", Number(3), Number(1)>> >>,
               <<"N", "M">>, <<4, 2>>)),
     [node_type |-> "scope", type |-> "sequential", subtree |-> <<5, 6>>],
     Leaf("P", << <<"M", Name("kk")>> >>),
     Tile("L1", << <<"M", Number(2), Number(1)>>, <<"N", Number(1)>> >>, <<"M", "N">>, <<3>>),
     Leaf("Q", << <<"N", Number(1)>>, <<"M", Number(2)>> >>),
     [node_type |-> "trans", target |-> "L1", dataflow_mode |-> "forward"] >>

WithNode(n, new) == [Mapping0 EXCEPT ![n] = With(new, @)]
WithoutIn(n, field) == [Mapping0 EXCEPT ![n] = Without(field, @)]

\* Fields that are missing or unknown; types by default; a Scope on a level; a
\* residual that is a macro, which is no number; a factor that is none; a
\* permutation that is too short, or over a dimension without a factor or
\* that the problem has not; a dimension with two factors; an operation that
\* the problem has not.
OtherMappings ==
  { WithoutIn(n, "node_type") : n \in {1, 6} }
    \cup { WithoutIn(n, "target") : n \in {2, 3, 4, 6} }
    \cup { WithoutIn(n, "dataflow_mode") : n \in {4, 5, 6} }
    \cup { WithoutIn(n, "type") : n \in {1, 2} }
    \cup { WithoutIn(3, "name"), WithoutIn(3, "factors"), WithoutIn(4, "factors"),
           WithoutIn(1, "permutation") }
    \cup { WithNode(n, [type |-> "unknown"]) : n \in {1, 2} }
    \cup { WithNode(2, [type |-> t]) : t \in {"parallel", "pipeline", "sharing"} }
    \cup { WithNode(4, [node_type |-> "loop"]), WithNode(2, [target |-> "L1"]),
           WithNode(6, [target |-> "UB"]), WithNode(6, [dataflow_mode |-> "reduce"]),
           WithNode(3, [factors |-> << <<"M", Number(2), Name("kk")>> >>]),
           WithNode(3, [factors |-> << <<"M", Name("two")>> >>]),
           WithNode(1, [permutation |-> <<"N">>]),
           WithNode(1, [permutation |-> <<"N", "L">>]),
           WithNode(1, [factors |-> << <<"N", Number(2)>>, <<"M", Variable("X")>>,
                                       <<"N", Variable("X"), Number(1)>> >>]),
           WithNode(5, [name |-> "S"]) }

\* Variables and macros in the places of two factors of a tile, of one of a
\* later tile and of one of an operation.
Words == {Number(2), Variable("X"), X0, Variable("?"), Variable("tX")}

WithWords(a, b, c, d) ==
  [Mapping0 EXCEPT
     ![1].factors = << <<"M", a>>, <<"N", Number(3), b>> >>,
     ![4].factors = << <<"M", c>>, <<"N", Number(1)>> >>,
     ![3].factors = << <<"M", d, d>> >>]

VariableMappings == {WithWords(w[1], w[2], w[3], w[4]) : w \in Words \X Words \X Words \X Words}

\* A name that would be a variable is a macro.
Macros == (Name("kk") :> 2) @@ (<<"variable", "MAX", NoDigits>> :> 2)

-----------------------------------------------------------------------------
Config0 == [levels |-> Levels, connections |-> Connections, problem |-> Problem0,
            mapping |-> Mapping0, macros |-> Macros]

MCConfigs ==
  {Config0}
    \cup {With([levels |-> l], Config0) : l \in OtherLevels}
    \cup {With([connections |-> c], Config0) : c \in OtherConnections}
    \cup {With([problem |-> p], Config0) : p \in OtherProblems}
    \cup {With([mapping |-> m], Config0) : m \in OtherMappings \cup VariableMappings}
    \cup {With([mapping |-> WithWords(a, a, a, b)], Config0) :
            a, b \in {<<"variable", "MAX", NoDigits>>, Variable("X")}}

\* A permutation names a dimension twice and another one not at all.
MCPermutations ==
  {With([mapping |-> WithNode(4, [permutation |-> <<"M", "M">>])], Config0)}
=============================================================================
