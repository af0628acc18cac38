------------------------------- MODULE Loader -------------------------------
(***************************************************************************)
(* main up to the evaluation (src/src/application/main.cpp): it reads the  *)
(* levels, the connections, the problem and the mapping, each by the       *)
(* parser of its section and each with what the sections before it left    *)
(* behind in global tables.  A failed assertion, an error or an uncaught   *)
(* exception ends the program.                                             *)
(***************************************************************************)
EXTENDS MappingParser

vars == <<config, stage, next, archVars, problemVars, mappingVars>>

Init ==
  /\ config \in Configs
  /\ stage = "levels"
  /\ next = 1
  /\ ArchInit
  /\ ProblemInit
  /\ MappingInit

ParseArchitecture == ArchNext /\ UNCHANGED <<config, problemVars, mappingVars>>

ParseWorkloads == ProblemNext /\ UNCHANGED <<config, archVars, mappingVars>>

ParseMapping == MappingNext /\ UNCHANGED <<config, archVars, problemVars>>

Parse == ParseArchitecture \/ ParseWorkloads \/ ParseMapping

\* The evaluation begins, or the program has ended.
Ended == stage \in {"loaded", Abort, Undefined}

Stop == Ended /\ UNCHANGED vars

Next == Parse \/ Stop

\* One thread reads the sections to their end.
Spec == Init /\ [][Next]_vars /\ WF_vars(Parse)

-----------------------------------------------------------------------------
\* Whatever the input, the program comes to a mapping or stops reading.
LoadEnds == <>Ended

\* The entry of the input that node n was made from.
Input(n) == config.mapping[origin[n]]

\* The mapping that RecursiveParse returns is the tree of the input: its root
\* is the root's entry, the children of a node are made from the entries that
\* its own entry lists, in that order, and each node but the root is once a
\* child of the one node it has as its parent, which was there before it; the
\* kinds are those of the entries, and every target is a level that the
\* architecture declared.
ParsedIsTree ==
  stage = "loaded" =>
    /\ nodes # <<>>
    /\ origin[1] = 1
    /\ \A n \in DOMAIN nodes :
         LET kids == nodes[n].kids
             parent == nodes[n].parent
         IN  /\ nodes[n].kind = Kind(Input(n))
             /\ nodes[n].target = lookupValue(Input(n), "target", "")
             /\ nodes[n].target # "" => \E i \in DOMAIN config.levels :
                                          config.levels[i].name = nodes[n].target
             /\ [i \in DOMAIN kids |-> origin[kids[i]]] = Subtree(Input(n))
             /\ \A i \in DOMAIN kids : /\ nodes[kids[i]].parent = n
                                       /\ \A j \in 1 .. i - 1 : kids[j] < kids[i]
             /\ IF n = 1 THEN parent = nullptr
                ELSE parent \in 1 .. n - 1 /\ n \in ToSet(nodes[parent].kids)

-----------------------------------------------------------------------------
\* The words of the factors of node n that its loops keep: a factor is a pair
\* of its position and of the part (2 for the end, 3 for the residual end).
Factors(n) == lookupValue(Input(n), "factors", <<>>)

Kept(n) ==
  {k \in (DOMAIN Factors(n)) \X {2, 3} :
    LET f == Factors(n)[k[1]] IN
      /\ k[2] \in DOMAIN f
      /\ \A g \in k[1] + 1 .. Len(Factors(n)) : Factors(n)[g][1] # f[1]
      /\ \E i \in DOMAIN nodes[n].loops : nodes[n].loops[i].dim = f[1]}

Read == UNION {{<<n, k[1], k[2]>> : k \in Kept(n)} : n \in DOMAIN nodes}

WordOf(r) == Factors(r[1])[r[2]][r[3]]

\* What the loop over dimension d has for a part of its factor.
LoopPart(loops, d, part) ==
  LET l == CHOOSE i \in DOMAIN loops : loops[i].dim = d
  IN  IF part = 2 THEN loops[l].end ELSE loops[l].res

\* What the loops of the mapping have in the place of a word.
ValueOf(r) == LoopPart(nodes[r[1]].loops, Factors(r[1])[r[2]][1], r[3])

IsAnonymous(word) == Anonymous(<<word[2], word[3]>>)

\* Two factors anywhere in the mapping are the same variable (a negative
\* number) only if they are written with the same name, or if one of them is
\* anonymous and the other one was given the name it got: two anonymous
\* factors are never one variable, and one name is never two.
VariablesByName ==
  stage = "loaded" =>
    LET variables == {r \in Read : ValueOf(r) < 0}
        anonymous == {r \in variables : IsAnonymous(WordOf(r))}
        named == variables \ anonymous
    IN  /\ \A r, s \in anonymous : ValueOf(r) = ValueOf(s) => r = s
        /\ \A r, s \in named : ValueOf(r) = ValueOf(s) <=> WordOf(r) = WordOf(s)

\* "Op Node must declare all factors" (mapping.cpp 213): a loop of an
\* operation has a variable only if a tile brought that variable in, wherever
\* the tile stands in the tree.
OpsReuseVariables ==
  \A n \in DOMAIN nodes : nodes[n].kind = "Op" =>
    \A i \in DOMAIN nodes[n].loops :
      \A v \in {nodes[n].loops[i].end, nodes[n].loops[i].res} :
        v < 0 => declaredIn[-v] = "Tile"

\* The id of every loop (FactorizedDimensionNameToID of the shape that is the
\* current one while the mapping is read) leads to the bound that the problem
\* gives to the dimension the loop is written over, although every operation
\* numbers the dimensions in its own way.
LoopsHaveBounds ==
  stage = "loaded" =>
    \A n \in DOMAIN nodes : \A i \in DOMAIN nodes[n].loops :
      /\ dimension[n][i] \in DOMAIN factorized_bounds_
      /\ factorized_bounds_[dimension[n][i]] = BoundOf(nodes[n].loops[i].dim)

\* "permutation & factor iter mismatch" (mapping.cpp 144): a tile or an
\* operation has a loop for every dimension that it has a factor for.
PermutationMatchesFactors ==
  \A n \in DOMAIN nodes :
    {nodes[n].loops[i].dim : i \in DOMAIN nodes[n].loops}
      = {Factors(n)[f][1] : f \in DOMAIN Factors(n)}
=============================================================================
