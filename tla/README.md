# A TLA+ model of LATIAS (TileExp)

LATIAS evaluates how a tensor workload, mapped as a tree of loop tiles, runs on
an accelerator: how much data moves between the memory levels and how long it
takes. It is a sequential C++ program: parse four YAML sections, build a tree,
run three passes of visitors over it, print. There is no concurrency, no
persistence and no message. What is hard in it is the state that one pass leaves
to the next, and the state that mutually recursive visitors push, pop, add and
subtract while they walk the same tree thousands of times; none of it is
asserted in the code, and a mistake shows as a plausible number.

## The system

| part | source | state | operations |
|---|---|---|---|
| `main` | `application/main.cpp` | the global tables that one parser leaves to the next | reads levels, connections, problem and mapping in this order, then `evaluate` |
| hardware | `model/hardware.cpp`, `model/interconnection.cpp` | `archTopo_map_`: instances and attributes of levels; `intercon_attri_map_`: bandwidth, type, fanout and fanin of connections | `ParseArchTopology`, `ParseInterConnection` |
| problem | `problem/problem.cpp` | `common_shape_`: ids of dimensions, tensors and coefficients, projections; `workloads_`; bounds; the static `current_shape_` | `ParseWorkloads`, `add_workload`, `set_dims` |
| symbol table | `mapper/symbol.hpp` | free variables of a mapping by name | `insert` |
| mapping parser | `mapping/parser.cpp` | the recursion, the factors read so far | `ParseMapping`, `RecursiveParse`, `ParseFactors` |
| mapping tree | `mapping/mapping.cpp`, `mapping.hpp` | Tile, Scope, Op and Trans nodes; loop nests of (end, residual_end) | constructors, `add_child`, `getInterConNode` |
| `Evaluator` | `loop-analysis/common.cpp`, `analysis.hpp` | the EvaNode tree that all passes write to | `evaluate`: `reset`, then the three passes |
| `GetLoopCount` | `loop-analysis/constraint.cpp` | `inherit_loopnests_` of every node | a pre-order visit; aborts an illegal mapping |
| `InitAnalysis` | `loop-analysis/init.cpp` | offsets of loops; `leaf_vec_`, `producer_map_`, tensors of nodes | `initOffset`, `getOffset`, `initOpTensor`, `initTensor` |
| `PerfAnalysis` | `loop-analysis/performance.cpp` | `dim_skew`, `vec_last_dim_`, the loop variables in the tree, resident ranges, latencies | `visitTileLoop` and the other visits, `addCurrentTensor`, `computeLatency` |
| `calTensorMapDM` | `mapper/expr.cpp` | none | movement between two sets of ranges |
| input | `compound-config`, `util` | | YAML access |
| unused | `model/graph.cpp`, `mapper/checker.cpp` | | not called by `main` |

The parsers interact through global tables: the connections need the instances
of the levels, the nodes of a mapping need the levels, the dimension ids of
`common_shape_` (reached through `current_shape_`, which every operation of the
problem redirects while it is read) and the names of the operations. The passes
interact only through the tree. `GetLoopCount` promises that the
loops above each operation multiply out to the bounds, tails included;
`InitAnalysis` turns them into offsets and gives every node its tensors;
`PerfAnalysis` relies on both without checking them.

What makes the parts correct:

* the reading: nothing of one list entry is left in the next; every number that
  an operation gives to a dimension or a tensor is translated to the one common
  number; the tree is the tree of the input; a variable is one variable wherever
  its name stands, and two that have no name are two;
* the walk: the loops over a dimension tile it exactly, with tails only on the
  path of last iterations, and `dim_skew` is always the true position;
* the legality check: a mapping is accepted only if that walk covers the bounds;
* the tensors: a tile takes in exactly what is live into it, a Trans node carries
  what is written before and read after it, the result and nothing else leaves the root;
* the data movement: a load moves what is needed and not yet held, and what is
  held covers what the operations below use;
* the evaluation: every block of every operation is executed once, and the
  program comes to an end, by a result or by a named failure, and by a result if
  the mapping has the connections, Trans nodes and tensors that the analyses look up.

The hazards behind these properties, each with its line, are in `PROJECT.json`.

## Modules

| module | models | notes |
|---|---|---|
| `DimWalk` | one dimension of `visitTileLoop` | the protocol of `dim_skew` and `vec_last_dim_`, as an abstract specification for any tree of loops; what the other modules must implement and what is proved |
| `DimWalkProofs` | | its proofs |
| `Induction` | | induction, and what the folds over sequences compute: lemmas that the other proofs cite |
| `StdMap` | `std::map`, `std::unordered_map` | functions on their keys |
| `Sections` | `main`'s input, `lookupValue`, macros, the ways a parser ends | extended by all parsers |
| `Connection` | one entry of the list of connections | used by `ArchParser` and `Hardware` |
| `ArchParser` | `ParseArchTopology`, `ParseInterConnection` | one step per entry |
| `Problem` | `ParseWorkloads`, `add_workload`, timeloop's `Shape::Parse` | one step per tensor and per bound |
| `SymbolTable` | `Symbol::SymbolTable::insert` | |
| `MappingNode` | the constructors of nodes | used by the parser and by `MappingTree` |
| `MappingParser` | `RecursiveParse`, `ParseFactors` | one step per word of a factor |
| `Loader` | `main` up to `evaluate` | composes the three parsers |
| `LoaderProofs` | | what the parsers of the architecture and the problem leave behind; what the parser of the mapping builds |
| `MappingTree` | tree shape, `BFSOffsetLoop`, `getOffset` | extended by all passes |
| `LoopCount` | `GetLoopCount`, `Evaluator::reset` | the visitor's recursion is the list of the nodes it has still to accept |
| `InitAnalysis` | the class of that name | |
| `PassProofs` | | paths and traversals of a forest, and the proofs of `LoopCount` and `InitAnalysis` |
| `TensorMap`, `DataMove` | `calTensorMapDM`; one retained tensor of a tile | |
| `TensorMapProofs`, `DataMoveProofs` | | what the overlap and the movement compute; the proofs of `DataMove` |
| `Hardware`, `Latency` | parsed connections; routes, transfers, `computeScopeLatency`, `computeLatency` | |
| `PerfAnalysis` | the walk over all dimensions with data movement and latency | |
| `Evaluator` | composes `LoopCount`, `InitAnalysis` and `PerfAnalysis` | `Walk(d)` instantiates `DimWalk` for each dimension |
| `EvaluatorProofs` | | the refinement of `DimWalk`, and the passes one after the other |
| `TilingProofs` | | what the walk runs through: blocks executed once, tiles that keep and load what is read |
| `MC*` | instances for TLC | |

**Reading.** `stage` is the section that `main` is in or how the program ended,
`next` the entry of its list. A YAML node is a record with the fields it has; a
word is a number, a name or a variable, and `strtol`, `IsMacro` and `IsVariable`
say what each conversion makes of it. The recursion of `RecursiveParse` is the
sequence `calls`. An entry is read in one step, its refusal (an assertion, an
exception, an `exit`) is an action of its own and ends the program. A variable
that the code declares and does not set before it is read takes any value of
`UnsetValues`. `declaredIn` (the kind of node that brought a variable in) and
`origin` (the entry of the input that a node was made from) are history variables:
no action reads them. `ParsedIsTree` compares the tree with the input through
`origin`.

**State.** Variables of the evaluation carry the names of the members they stand for. A node is an
integer; `Mappings` is a function from nodes to records (kind, loops, children,
parent), `root` the mapping under evaluation. The C++ call stack of
`visitTileLoop` and `visitScope` is the sequence `frames`: one record per
activation, with the loop variable, the start it found, its end, what it has moved `dim_skew` by
(`current_dim_skew_`) and the next child to visit. The loop variable of the code is
a field of the tree that a call takes over and puts back: `loop_start` is what the last call
left there. `from` in a frame, `executed`
and `loaded` are history variables: no action reads them.

**Actions.** A call into a loop (`Enter`, `EnterTile`, `EnterInnerLoop`), the
head of an iteration with its measurement (`BeginIteration`), the visit of a
leaf, the end of an iteration and the return are one action each, with
everything the code does between those points. The visitors of `LoopCount` and
`InitAnalysis` take one step per node. A failed `TILEEXP_ASSERT` is the outcome
`"aborted"`, in the parsers as in the passes. A null dereference, an index outside a vector, a division by zero
is `"undefined"`: the model says that it is reached and nothing of what follows.
The bandwidth of a connection that is not declared is uninitialised in the code
(`InterConNode(){}`): any value of `UnsetBandwidths`, 0 included.

**Data.** Names of levels, tensors and dimensions are strings that are only
compared. Printing is left out, and so is the width of `int` and `int64_t`.

## Runs

| run | instance | shows |
|---|---|---|
| `load` | 683 inputs: one that all parsers accept, one for each single field, name or number they may refuse, read wrongly or find missing, and 625 ways to write numbers, named and anonymous variables into four factors of a mapping | what is loaded is what was written: `LevelsAsDeclared`, `ConnectionsPrintable`, `TensorKeepsFirstProjection`, `WorkloadsComplete`, `ParsedIsTree`, `VariablesByName`, `OpsReuseVariables`, `LoopsHaveBounds`; reading ends (`LoadEnds`) |
| `dim_walk` | loops on three levels with a tail on each, two siblings, replays | `SkewIsPosition`, `ExactTiling`, `InBounds`, `SkewRestored` |
| `loop_count` | all 486 mappings of two siblings with trip and residual counts up to 3, three trees with Scope and Trans nodes, one without children; evaluate up to twice | what is accepted covers the bounds when walked (`AcceptedCoversBounds`, against a recursive reference), tails fit, nests are inherited once each |
| `tensors` | chains, fused operations, Trans nodes that none, one or two tensors pass over, Scopes | `InputsAreLiveIn`, `TransCarriesLive`, `ResultLeavesRoot` |
| `data_move` | every pair of two-dimensional ranges in 4 by 3 points | `MovesWhatIsMissing`, against a set of points |
| `evaluate` | 10 mappings with tails (small forms of `tests/01` to `tests/03` and variations) and 13 that fail, each in another way; one of them has a variable as its trip count, one a tensor without dimensions | `WalksEachDim` (refinement of `DimWalk` in every dimension), `ExecutesEachBlockOnce`, `TrafficGrowsInward`, `LatencyFloor`, `LatencyCeiling`, `SoundMappingsFinish`, `Terminates` |
| `reuse` | 4 mappings without tails | `ResidentHoldsBlock`, `LoadsWholeTensor` |

**Bounds.** The inputs of `load` have 3 levels, up to 5 connections, 2 or 3
operations that number their dimensions differently and share a tensor, and 6
nodes of all four kinds, so that every table is looked up by one section after
another one wrote it. `UnsetValues` is {0, 1, 3}: a divisor, a number of
instances equal to that of another level, and one that is larger. The
four words that vary stand in two tiles and an operation, as trip and as residual
counts: the least for a name that a tile brings in and that another tile, or an
operation, takes up. Three nested tiles with tails are enough for each combination of last
and not last iteration on the levels above a tail, for siblings, and for a replay
of an inner loop by a loop over another dimension; dimensions have 4 to 7 points
(32 in `dim_walk`, where there is only one). A tree has at most 10 nodes (`Stride`
allows 20). `MaxEvaluations` bounds the calls of `evaluate`. The evaluation is
deterministic but for uninitialised bandwidths and the order of an unordered map,
so that its runs are long and narrow: about 2000 states in over 200 steps.

**Deadlock** is checked in all runs; a pass may stutter only once it has ended.

**Fairness.** `Loader!Spec` and `Evaluator!Spec` assume weak fairness of the actions of the
parsers and of the passes: one thread runs them, nothing blocks. The specifications of single
passes have none, they state safety only; `DimWalk` could not have it, since its loops may be
replayed by the other dimensions without bound.

**Liveness.** `LoadEnds` and `Terminates` say that the program comes to an end, and a
failure is an end. `SoundMappingsFinish` says when the end is a result: for a mapping that
the legality check has accepted and that is `SoundMapping`, no assertion, lookup or
dereference of the later passes fails and no loop that a visit left behind is
skipped. `SoundMapping` collects from the mapping what the analyses rely on and
do not check in advance:
* it is `Regular` (see the proofs);
* a tile has loops, starts with a tile or an operation, and holds its children directly or in
  one Scope; it is connected with each of them, with a fanout if it is spatial (`BodyWired`);
* the levels that a tile takes from and gives to are connected with it. One that forwards is
  followed by a Trans node, and one that stands after a Trans node has an operation before
  that (`TileWired`);
* a Trans node comes after a leaf it is connected with, and between the writer and a reader of
  some tensor where more follows (`TransWired`);
* every tensor has one writer and a dimension, every operation loops over the dimensions of the tensors, and
  a producer does not stand directly in a tile above its consumer (`OpsSound`).

The ten mappings with tails of `evaluate` are sound; each of the other thirteen violates one of these
conditions and has a behaviour that fails.

### Where code and comments differ

Five runs expect a violation; each is a finding in `PROJECT.json` with the
quoted comment.

* `permutation`: the permutation of a tile is compared with its factors by its
  length only. `MM` for factors of `M` and `N` is accepted and leaves `N` without
  a loop.
* `offset_step`: the step of a loop is that of its first child, also for a
  sibling that covers another extent. The legality check accepts such mappings:
  below a loop of count 2, tiles with (2, 2) and (3, 1) both reach the bound 7, the
  step is 4 and the second tile needs 6.
* `evaluate_twice`: `reset` clears the root and its children only; a second
  `evaluate` refuses a mapping it accepted. `main` calls it once.
* `write_back`: between neighbouring operations the producer's path is cut one
  node too early.
* `tail_resident`: a full tile is measured with the length of the tail. A comment
  in `analysis.hpp` knows of an inaccuracy. Without tails the property holds
  (`reuse`).

## Proofs

The theorems hold for every value of the constants that satisfies the named
assumptions: every tree of loops, every input, every forest of mappings. Each
assumption is evaluated by TLC on the instances of the runs.

**Induction.** The provers cannot instantiate the induction theorems of the
library, which take an operator as parameter. `Induction` proves the form that
the other modules use: a set of naturals that is not empty has a least element
(and a family of subsets of a finite set has a smallest member), so a proof by
induction looks at the set of its counterexamples. From it follow facts about
recursive definitions: the equations behind `FoldLeft` and `FlattenSeq` have a
solution, and it is known what it does when an element is appended. `PassProofs`
derives in the same way what `Ancestors`, `PreOrder` and `PostOrder` compute: the
path of a node is a chain, and a traversal lists every node below its start once.
This reaches every recursion of the modules below that is written as a fold or
a recursive function; `RECURSIVE` operators occur in no module with a theorem.

**`DimWalkProofs`** (`DimWalk`): `TypeOK`, `SkewIsPosition`, `ExactTiling`,
`InBounds`, and `SkewRestored` of every step. The
assumptions are about what the earlier passes leave: the offsets of a loop are the
full and the tail extent of every loop directly inside it, and the loops multiply out to the
bound (`OffsetsAssumption`); no tail is longer than a
full tile (`TailAssumption`, from `GetLoopCount`). `getOffset` looks at the first loop inside
only, so `OffsetsAssumption` is a restriction: it holds for mappings whose loops inside one
loop run through the same points (`SplitsAlike`), and `offset_step` shows an accepted mapping where it
fails. In `evaluate` they are the
constants that `INSTANCE` puts in. None of the properties is inductive. `ExactTiling` speaks of the running
iteration only, and `SkewIsPosition` needs to know that what a frame has moved is
its number of iterations times its offset. The inductive invariant `IInv` adds
`Nesting` (a frame's loop is below the loop of the frame under it, or on top),
`Counts` (a frame's end is the residual count exactly when all flags under it are
set, its offset is start times step, a flag is set exactly in the last
iteration), `Froms` (a frame begins at the position of the frame under it) and
`Within` (a frame's extent lies in the bound). There is one lemma for each
action, and one, `SliceFits`, for the arithmetic that an iteration stays in its
activation. `RestoreCorrect` follows from `ExitIInv`.

**`TensorMapProofs`, `DataMoveProofs`** (`DataMove`): `TypeOK` and `MovesWhatIsMissing`, for tensors
of every rank that is not 0. The clamped difference of `calTensorMapDM` counts the points that two
ranges share (`OverlapCounts`). The product of the lengths of the ranges of a tensor is the number
of points of a box, by induction over the set of dimensions with the cardinality
of a product of two sets; the common part of two boxes is a box again, and
`MovementCounts` is the difference. Assumption: `RangesAssumption`, a range is a
record of two integers with low not above high and all ranges of a tensor are over the same
finite set of dimensions, which is not empty: the assertions of `calTensorMapDM`. In the evaluation
`RangesDefined` makes the check, and a mapping of `evaluate` fails it.

**`PassProofs`**, the legality check (`LoopCount`): the closed formula of `get_loop_count` is what
the walk with its tails does (`CountIsWalk`), for every sequence of loops, and
the assertions on residual counts keep tails inside full tiles (`TailsFit`). The
inductive invariant `CountInv` says that the list of nodes to accept holds no node
twice nor a node and one above it, that whatever is not below a node of the list
has been visited, that in the first evaluation a visited node has the nests of
its path, and that an operation that was visited has passed the assertions on
its path. It gives `CountTypeOK`, `InheritedIsPath`, `AcceptedCoversBounds`, and
`AcceptedTailsFit`. The last is proved for forests without free variables
(`CountsSet`): a variable is a negative trip count, and a product with it bounds
nothing. Assumption: `TreeAssumption`, the forest is one.

**`PassProofs`**, the tensors (`InitAnalysis`): `TensorTypeOK`, `InputsAreLiveIn`,
`ResultLeavesRoot`, `TransCarriesLive`. None is inductive: the last three say nothing before the
visitor is done. `PassInv` says at every step what the nodes visited so far
account for. `leaf_vec_` has the leaves visited in the order of the walk and
`producer_map_` their operations (`CollectedInv`); `op_num_` counts operations up
in one pass and down in the other (`CountedInv`); a tile has what is live into it
as far as the readers have been handled (`InputsInv`), and the root gives nothing
out until no operation is left (`OutputsInv`). Two facts about paths carry the
proof: a tile is on the consumer's path exactly if it is above the consumer and
not above the producer (`ConsumerPath`), and the producer's path never reaches
the root, on either of its two forms (`ProducerPathInner`). That the operation
handled when `op_num_` is 1 is the last one of `leaf_vec_` (`LastIsFinal`) needs the
order of both passes. For the Trans nodes (`TransCarriesWhatPasses`) the invariant is that such a node has what
passes over it as far as the readers have been handled, and a Trans node is on the path from a
producer to a consumer exactly if it stands between them (`PathOverTrans`). Assumptions: `TreeAssumption`, and `TensorsAssumption`, an
operation names tensors of the problem (`WorkloadsComplete` shows that the
parser puts them there). `TensorTypeCorrect` and `TransCarriesWhatPasses` have the hypothesis `LeavesBare`, Op and Trans
nodes have no children: `GetLoopCount` has refused any other mapping before.
A visitor that stops in an assertion or in undefined behaviour is not done, and
the theorems promise nothing of its tensors.

**`LoaderProofs`**, the tables (`Loader`, whose steps are those of the parsers):
`ConnectionsPrintable` and `LevelsAsDeclared` from `ArchInv`, which relates the table of levels
to the entries read so far; `WorkloadsComplete` and
`TensorKeepsFirstProjection` from `ProblemInv` and `TensorInv`: the ids that an
operation gives to its dimensions, and those of the common shape, lead to the same names, and a
tensor's projection is that of the first entry among those read. Assumptions:
`LevelsAssumption`, `ProblemAssumption` (what the YAML library returns as a list
is a list, else it throws).

**`LoaderProofs`**, the tree (`Loader`): `LoopsHaveBounds`, `ParsedIsTree`,
`OpsReuseVariables`, `VariablesByName`. `MappingInv` describes the tree while it
is built: `TreeInv` says of the activations of `RecursiveParse` that each is the
call for the child that the one under it has come to (`CallsNested`), that a node
that is open has the children already returned and in their order (`KidsAt`), that the nodes on
the stack are in the order of construction (`OpenInOrder`), and that a node that
is closed is linked in both directions (`ClosedAt`). `VariableInv` says that every negative count is
a number of the table, and who brought it in. `NameInv` says of every word read so far, in
finished nodes, in `loop_bounds` and in the match that is being read, that it
fits the number it was given; that an anonymous variable finds a free name among
the first `idx + 1` is the pigeonhole principle. The last two theorems have the
hypothesis `MacrosCounted`, no macro is negative: the code does not check it, and
would take the value for a variable. Assumption: `MappingAssumption` (the entries
form a list whose children are entries; a factor has two or three groups, and a
number matched has no sign).

**`EvaluatorProofs`** (`Evaluator`): the refinement `WalksEachDim`, for every
forest of mappings, and in every dimension `OffsetIsPosition` and
`LoopsReturnHome`. A stack of frames for all loops of all dimensions has to be
read as one stack per dimension (`LoopsIn`), so the inductive invariant `WalkInv`
describes the shape of the whole stack (`StackShape`: a frame is the next loop of
the tile of the frame under it, or the first of a child of it, and no loop is
entered before the outer ones of its tile) what the flags of each dimension
correspond to (`FlagsFit`), and that the start which a call finds in the tree is always 0 (`StartsZero`). There is one lemma for each action; that the loop a
frame is entered for is below the loop of its dimension in the stack, with nothing over that dimension between
them, is where the shape is needed. `BFSFinds` shows that the breadth-first search
of the code returns the nearest loop below, and that a loop whose search returns
nothing has none. The theorems of `DimWalk` that need its assumptions are
not carried over mechanically (tlapm cannot cite a theorem through `INSTANCE` with
a parameter). `PassesTypeCorrect`, `EvaluationCovers` and `EvaluationTensors` lift
the results about single passes to the sequence of passes: `PassesInv` keeps
`CountInv` while the later passes run, and drops the hypothesis `LeavesBare`
because a mapping that violates it was refused.

**`TilingProofs`** (`Evaluator`): `ExecutesBlocks`, the walk executes every
operation at the corner of each of its blocks, once. It is proved for the mappings
that are `Regular`, whatever their tails, depth and siblings:
* trip counts and residual counts are at least 1 (`CountsPositive`; a variable that
  nobody has set is a negative count, and its loop does not run);
* the loops over a dimension that stand directly inside one loop run through the same
  points (`SplitsAlike`). `getOffset` takes the step of the outer loop from the
  first one that its search finds, and nothing compares it with the others;
* an operation has a loop over every dimension that is looped over above it, and
  its residual count is not above its trip count (`OpsLoop`; the legality check compares
  residual counts from the second loop on only);
* a Scope is the last child of its tile (`ScopesLast`; the loop over the children
  ends at a Scope).

All mappings of `evaluate` and `reuse` but the one with a variable are regular, and
`MCEvaluator` assumes so (`RegularMappings`), for TLC to evaluate. That the outermost loops run through
the whole bound is no hypothesis: it is derived from the legality check. The
property speaks of the end of the walk only. The inductive invariant `TiledInv`
says what lies behind the walk at every step. A frame of the stack runs through a
cell of the iteration space, given in each dimension by an `Origin` and a `Span`; a
loop cuts the cell of the frame under it into slices (`LoopSlice`), and the cells
on the stack are nested (`CellsNest`). `TilingInv` says that `dim_skew` is the
origin of the innermost cell, and that every loop fits into the cell that it was
entered in. A point is `Made` if it lies in an iteration that some loop has
behind it, or in a running cell whose body is past the child that leads to the operation;
`ExecInv` says that an operation was executed at the corners of its blocks that
are made, each once. One lemma for each kind of step (`EnterMade`, `BeginMade`,
`LeafMade`, `EndMade`, `ReturnMade`) shows what becomes made: nothing, but for the block
that a visit of the operation executes. At the end of the walk everything is
(`FinishMade`). `TopsCovered` connects this with the legality check: the recurrence
of `get_loop_count` along a path computes the extents of the cells (`Agree`), so
the value it compares with the bound is the extent of the outermost loop.

**`TilingProofs`**, what the tiles keep (`Evaluator`): `TilesHoldBlocks` and
`TilesLoadTensors`, for mappings that are `Even`: regular, without tails (`Untailed`), and with
outermost loops over a dimension that run through the same points (`TopsAlike`; `BFSOffsetLoop`
returns the first that it finds). With tails `ResidentHoldsBlock` is false, as
`tail_resident` shows. A tile is measured once per visit, at its first iteration, and the range
that it reports is put together from `dim_skew`, its own loop or one below it, and the step of
that. `MeasuredRange` shows that this is the cell that all loops of the tile run
through together. `HoldsInv` says that a tile keeps it from then on while its
loops run (`Begun`): in between, `dim_skew` and the frames above change and the cell does not.
The block of an operation lies in the innermost cell, which lies in the cells
around it (`BlockIsHeld`). `TilesLoadTensors` has the hypothesis `InputsLooped` besides (an
operation loops over the dimensions of its inputs, and no tensor names one
twice). `LoadInv` says that, for each tile and tensor, some set no larger than what was
loaded has in it all that the tile keeps and all that the operations below it have touched so
far: a load adds the missing points to both (`MovementCounts`), an
execution touches only what is kept. At the end the blocks executed are all
blocks (`ExecInv`), and they cover the tensor (`BlocksCover`), whose size is the product
of its bounds (`TensorSize`). All mappings of `reuse`, and some of `evaluate`, satisfy the
hypotheses (`EvenMappings` of `MCEvaluator`).

**Only model-checked**: of `Evaluator`, `TrafficGrowsInward`, `LatencyFloor`, the part of
`TypeOK` about the walk, and the action property `LatencyCeiling`; and all liveness
(`LoadEnds`, `SoundMappingsFinish`, `Terminates`), which needs `ENABLED` and is outside the prover.

## What two properties leave out

`LatencyCeiling` says that a tile is charged no more than its children took in
the visit that ends, had nothing overlapped. It leaves out the three places where
the code takes a value over from before and no comment says what is meant: a
visit of latency 0, which leaves `process_latency_` alone; a child of a Pipeline
that is neither HD nor FD connected and gets the `dm_latency` of the child before
it; and more rounds over unicast than `fanout_`. `LatencyFloor` leaves out the
last of them too.

`ExecutesEachBlockOnce` is not true of a mapping with a child after a Scope: the loop over the
children ends there. No mapping of the runs has one, and the theorem excludes it.

## Not modelled

* Lexing: the regular expression of `ParseFactors`, lower case, the letters of a
  permutation and the check that a dimension's name is one letter. A list of
  factors is given as its matches; text that does not match is skipped by the
  code in silence and is no part of the model.
* Of the problem: flattened dimensions (no operation of the tests flattens),
  densities, and `set_coeffs`, whose result no pass reads.
* Of the mapping: `split`, `bypass`, `fixed`, `profile`, `tag`, `ParseFanoutMap`
  and `constructLoopNest`, which the evaluation does not read. `ParseAndConstruct`,
  `InterRecursiveParse` and `ParseStorageLevel` belong to an earlier interface
  that `main` does not call.
* `Graph` and `Checker`: `main` calls neither, and `check()` has no active body.
* `ParseArgs`, reading of files, the variables of a compound config, printing.
* The widths of `int` and `int64_t`. The attributes of memory levels (size, width)
  are read (`LevelsAsDeclared`) and not used by any pass; `get_mem_info` is empty.
* `gdb-15.1` and the timeloop sources, which are third-party code and nearly all
  of the lines in the repository. Of timeloop only `Shape::Parse` and the static
  `current_shape_` are modelled, where the problem's parser uses them.

The evaluation does not start from what `Loader` leaves behind: its runs have
their own mappings, for which `TreeAssumption` states what is taken from the
parser (each dimension at most once in a loop nest, one parent per node, a Tile
at the root). `ParsedIsTree` shows the second for every input;
`permutation` shows that the first is not checked by the code.

## Plan

1. Proofs: `TrafficGrowsInward` for even mappings, from `HoldsInv` and what is touched in one
   visit of the outer tile.
2. Mappings with more rounds than a unicast connection has targets, and children
   after a Scope.
