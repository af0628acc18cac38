--------------------------- MODULE MappingParser ---------------------------
(***************************************************************************)
(* ParseMapping (src/src/mapping/parser.cpp): RecursiveParse goes down the *)
(* section `mapping' and builds the nodes with their constructors          *)
(* (src/src/mapping/mapping.cpp).  Its recursion is the stack calls; step  *)
(* says where in the topmost activation the program is.                    *)
(*                                                                         *)
(* config.mapping is the list of the YAML nodes, the root first; subtree   *)
(* is the list of the numbers of the children.  Lower case is taken to be  *)
(* applied.  A match of the regular expression in ParseFactors is          *)
(* <<dimension, end>> or <<dimension, end, residual_end>>.                 *)
(***************************************************************************)
EXTENDS ArchParser, Problem, SymbolTable, MappingNode

VARIABLES
  calls,        \* the activations of RecursiveParse
  step,         \* "node", "end", "residual" or "children"
  nodes,        \* the nodes that were constructed, in that order
  dimension,    \* per node: the ids of the dimensions of its loops
  factor,       \* the match of ParseFactors that is next
  end,          \* the end that was read in this match
  loop_bounds,  \* what ParseFactors has collected
  symbol_num,   \* the number of variables when an operation begins
  origin,       \* history: the entry of the input that each node is made from
  declaredIn    \* history: the kind of node that brought each variable in

parserVars == <<calls, step, nodes, dimension, factor, end, loop_bounds,
                symbol_num, origin, declaredIn>>

mappingVars == <<parserVars, symbolVars>>

\* An activation: its argument, the node it has made, the child that is next.
Call(cfg, node, kid) == [cfg |-> cfg, node |-> node, kid |-> kid]

Current == Last(calls)

Cfg == config.mapping[Current.cfg]

Subtree(cfg) == lookupValue(cfg, "subtree", <<>>)

\* The list of nodes is a YAML tree: it has a root, and children are nodes.
\* The expression of ParseFactors has two groups or three; it matches digits
\* but no sign.
ASSUME MappingAssumption ==
  \A c \in Configs :
    /\ IsList(c.mapping)
    /\ c.mapping # <<>>
    /\ \A n \in DOMAIN c.mapping :
         LET cfg == c.mapping[n]
             factors == lookupValue(cfg, "factors", <<>>)
         IN  /\ Subtree(cfg) \in Seq(DOMAIN c.mapping)
             /\ IsList(lookupValue(cfg, "permutation", <<>>))
             /\ IsList(factors)
             /\ \A f \in DOMAIN factors :
                  /\ DOMAIN factors[f] = 1 .. Len(factors[f])
                  /\ Len(factors[f]) \in {2, 3}
                  /\ \A p \in DOMAIN factors[f] \ {1} :
                       LET word == factors[f][p]
                       IN  /\ word = <<word[1], word[2], word[3]>>
                           /\ IsNumber(word) => word[3] \in Nat

MappingInit ==
  /\ SymbolsInit
  /\ calls = <<Call(1, nullptr, 1)>>
  /\ step = "node"
  /\ nodes = <<>>
  /\ dimension = <<>>
  /\ factor = 1
  /\ end = 0
  /\ loop_bounds = <<>>
  /\ symbol_num = 0
  /\ origin = <<>>
  /\ declaredIn = <<>>

-----------------------------------------------------------------------------
NodeKind == [tile |-> "Tile", op |-> "Op", scope |-> "Scope", trans |-> "Trans"]

\* name2dataflow_mode_.
DataflowMode == Put(Put(<<>>, "forward", "Forward"), "write-back", "Write_back")

\* The type of a tile, by the first of "temp" and "spatial" it contains.
TileType == [temporal |-> "Temporal", spatial |-> "Spatial"]

ScopeType == [sequential |-> "Sequential", parallel |-> "Parallel",
              pipeline |-> "Pipeline", sharing |-> "Sharing"]

Kind(cfg) == NodeKind[cfg.node_type]

HasLoops(cfg) == Kind(cfg) \in {"Tile", "Op"}

\* Node::Node: the target is a level (LevelName2IdxMap), only a Scope may do
\* without.
LevelLegal(cfg) ==
  IF exists(cfg, "target") THEN cfg.target \in DOMAIN archTopoName2Idx_map_
                           ELSE Kind(cfg) = "Scope"

\* Node::Node and the beginning of the constructors.
NodeLegal(cfg) ==
  /\ lookupValue(cfg, "node_type", "") \in DOMAIN NodeKind
  /\ LevelLegal(cfg)
  /\ Kind(cfg) # "Scope" => lookupValue(cfg, "dataflow_mode", "") \in DOMAIN DataflowMode
  /\ Kind(cfg) = "Scope" => lookupValue(cfg, "type", "sequential") \in DOMAIN ScopeType
  /\ Kind(cfg) = "Tile" => lookupValue(cfg, "type", "temporal") \in DOMAIN TileType
  /\ Kind(cfg) = "Op" => exists(cfg, "name")
  /\ HasLoops(cfg) => exists(cfg, "factors")

\* The new node n is that of the current activation.
Constructed(n, ids) ==
  /\ nodes' = Append(nodes, n)
  /\ dimension' = Append(dimension, ids)
  /\ origin' = Append(origin, Current.cfg)
  /\ calls' = [calls EXCEPT ![Len(calls)] = Call(Current.cfg, Len(nodes) + 1, 1)]
  /\ step' = "children"

InMapping(s) == stage = "mapping" /\ step = s

\* A Tile or an Op goes on with its factors.
BeginNode ==
  /\ InMapping("node")
  /\ NodeLegal(Cfg)
  /\ HasLoops(Cfg)
  /\ step' = "end"
  /\ factor' = 1
  /\ loop_bounds' = <<>>
  /\ symbol_num' = idx
  /\ UNCHANGED <<stage, next, calls, nodes, dimension, end, origin, declaredIn, symbolVars>>

\* A Scope or a Trans node has no loops.
LooplessNode ==
  /\ InMapping("node")
  /\ NodeLegal(Cfg)
  /\ \/ /\ Kind(Cfg) = "Scope"
        /\ Constructed(ScopeNode(ScopeType[lookupValue(Cfg, "type", "sequential")],
                                 lookupValue(Cfg, "target", ""), <<>>), <<>>)
     \/ /\ Kind(Cfg) = "Trans"
        /\ Constructed(TransNode(Cfg.target, DataflowMode[Cfg.dataflow_mode]), <<>>)
  /\ UNCHANGED <<stage, next, factor, end, loop_bounds, symbol_num, declaredIn,
                 symbolVars>>

RefuseNode ==
  /\ InMapping("node")
  /\ ~NodeLegal(Cfg)
  /\ Exit(Abort)
  /\ UNCHANGED mappingVars

-----------------------------------------------------------------------------
Match == Cfg.factors[factor]

MoreFactors == factor <= Len(Cfg.factors)

\* Who brought in the variables of the table.
Declared == declaredIn' = [i \in 1 .. idx' |-> IF i \in DOMAIN declaredIn
                                              THEN declaredIn[i] ELSE Kind(Cfg)]

\* The variable that a word names goes into the table.
InsertWord(word) == insert(<<word[2], word[3]>>) /\ Declared

InsertedWord(word) == Inserted(<<word[2], word[3]>>)

\* The end of a loop: a macro, a variable, or else a number; what is none of
\* them is 0.
ReadEnd(word) ==
  IF IsVariable(word) /\ ~IsMacro(word)
  THEN InsertWord(word) /\ end' = InsertedWord(word)
  ELSE /\ end' = IF IsMacro(word) THEN config.macros[word] ELSE strtol(word)
       /\ UNCHANGED <<symbolVars, declaredIn>>

ParseEnd ==
  /\ InMapping("end")
  /\ MoreFactors
  /\ ReadEnd(Match[2])
  /\ step' = "residual"
  /\ UNCHANGED <<stage, next, calls, nodes, dimension, factor, loop_bounds, symbol_num,
                 origin>>

\* A later factor of the same dimension replaces an earlier one.
Bound(residual) ==
  /\ loop_bounds' = Put(loop_bounds, Match[1], <<end, residual>>)
  /\ factor' = factor + 1
  /\ step' = "end"
  /\ UNCHANGED <<stage, next>>

\* The residual count: the end if none is given, a variable, or a number for
\* std::stoi.  Macros are not looked up.
ParseResidual ==
  /\ InMapping("residual")
  /\ \/ /\ Len(Match) = 2
        /\ Bound(end)
        /\ UNCHANGED <<symbolVars, declaredIn>>
     \/ /\ Len(Match) = 3
        /\ IsVariable(Match[3])
        /\ InsertWord(Match[3])
        /\ Bound(InsertedWord(Match[3]))
     \/ /\ Len(Match) = 3
        /\ IsNumber(Match[3])
        /\ Bound(strtol(Match[3]))
        /\ UNCHANGED <<symbolVars, declaredIn>>
  /\ UNCHANGED <<calls, nodes, dimension, end, symbol_num, origin>>

RefuseResidual ==
  /\ InMapping("residual")
  /\ Len(Match) = 3 /\ ~IsVariable(Match[3]) /\ ~IsNumber(Match[3])
  /\ Exit(Abort)
  /\ UNCHANGED mappingVars

-----------------------------------------------------------------------------
\* iters: the permutation, or the factors in any order (an unordered_map).
Iterations(cfg) ==
  IF exists(cfg, "permutation") THEN {cfg.permutation}
  ELSE SetToSeqs(DOMAIN loop_bounds)

\* Bug: the number of variables is not compared.
OpMayDeclare(cfg, iters) ==
  /\ Len(iters) = Cardinality(DOMAIN loop_bounds)
  /\ ToSet(iters) \subseteq DOMAIN CurrentDims
  /\ Kind(cfg) = "Op" => cfg.name \in DOMAIN workloads_

\* The rest of the constructor: an operation has no variable of its own; the
\* permutation is as long as there are factors; the current shape has the
\* dimensions and the problem the operation.
LoopsLegal(cfg, iters) ==
  /\ Kind(cfg) = "Op" => symbol_num = idx
  /\ Len(iters) = Cardinality(DOMAIN loop_bounds)
  /\ ToSet(iters) \subseteq DOMAIN CurrentDims
  /\ Kind(cfg) = "Op" => cfg.name \in DOMAIN workloads_

WithLoops(cfg, iters) ==
  LET mode == DataflowMode[cfg.dataflow_mode]
  IN  IF Kind(cfg) = "Op" THEN OpNode(cfg.name, loop_bounds, iters, cfg.target, mode)
      ELSE TileNode(TileType[lookupValue(cfg, "type", "temporal")], loop_bounds,
                    iters, cfg.target, mode, <<>>)

FinishNode ==
  /\ InMapping("end")
  /\ ~MoreFactors
  /\ \E iters \in Iterations(Cfg) :
       IF LoopsLegal(Cfg, iters)
       THEN /\ Constructed(WithLoops(Cfg, iters),
                           Reverse([i \in DOMAIN iters |-> CurrentDims[iters[i]]]))
            /\ UNCHANGED <<stage, next>>
       ELSE Exit(Abort) /\ UNCHANGED <<nodes, dimension, calls, step, origin>>
  /\ UNCHANGED <<factor, end, loop_bounds, symbol_num, declaredIn, symbolVars>>

-----------------------------------------------------------------------------
MoreChildren == Current.kid <= Len(Subtree(Cfg))

ParseChild ==
  /\ InMapping("children")
  /\ MoreChildren
  /\ calls' = Append(calls, Call(Subtree(Cfg)[Current.kid], nullptr, 1))
  /\ step' = "node"
  /\ UNCHANGED <<stage, next, nodes, dimension, factor, end, loop_bounds,
                 symbol_num, origin, declaredIn, symbolVars>>

\* Bug: a node is hung under the node that was constructed before it.
AddToPrevious(parent, child) ==
  [nodes EXCEPT ![child - 1] = push_child(@, child), ![child] = set_parent(@, child - 1)]

\* Node::add_child.
add_child(parent, child) ==
  LET pushed == [nodes EXCEPT ![parent] = push_child(@, child)]
  IN  [pushed EXCEPT ![child] = set_parent(@, parent)]

\* RecursiveParse returns: to the caller, which adds the child, or to main.
Return ==
  /\ InMapping("children")
  /\ ~MoreChildren
  /\ LET under == Front(calls)
     IN  IF under = <<>>
         THEN /\ Turn("loaded")
              /\ UNCHANGED <<nodes, calls>>
         ELSE /\ nodes' = add_child(Last(under).node, Current.node)
              /\ calls' = [under EXCEPT ![Len(under)] = Call(@.cfg, @.node, @.kid + 1)]
              /\ UNCHANGED <<stage, next>>
  /\ UNCHANGED <<step, dimension, factor, end, loop_bounds, symbol_num,
                 origin, declaredIn, symbolVars>>

MappingNext ==
  \/ BeginNode \/ LooplessNode \/ RefuseNode \/ ParseEnd \/ ParseResidual
  \/ RefuseResidual \/ FinishNode \/ ParseChild \/ Return
=============================================================================
