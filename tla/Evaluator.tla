----------------------------- MODULE Evaluator -----------------------------
(***************************************************************************)
(* Evaluator::evaluate (src/src/loop-analysis/common.cpp): the legality    *)
(* check, the initialising passes and the performance analysis, one after  *)
(* the other on the same tree of EvaNodes.  A pass starts when the one     *)
(* before it has returned; a failed assertion in any of them ends all.     *)
(***************************************************************************)
EXTENDS LoopCount, PerfAnalysis

vars == <<root, unvisited, inherit_loopnests_, verdict, evaluations,
          tensorVars, walkVars>>

Init ==
  /\ CountInit
  /\ TensorsEmpty
  /\ WalkEmpty

\* reset and get_loop_count.  main calls evaluate once.
GetLoopCount ==
  /\ (Evaluate /\ evaluations = 0) \/ Visit \/ FinishCount
  /\ UNCHANGED <<tensorVars, walkVars>>

\* init_analysis.
Initialise ==
  /\ verdict = "accepted"
  /\ TensorNext
  /\ UNCHANGED <<unvisited, inherit_loopnests_, verdict, evaluations, walkVars>>

\* analysis_latias.
Analyse ==
  /\ pass = "done"
  /\ WalkNext
  /\ UNCHANGED <<root, unvisited, inherit_loopnests_, verdict, evaluations,
                 tensorVars>>

Failed == Abort \in {verdict, pass, outcome} \/ Undefined \in {pass, outcome}

Ended == Failed \/ outcome = "finished"

\* main prints the result and returns, or the program was aborted.
Stop == Ended /\ UNCHANGED vars

Next == GetLoopCount \/ Initialise \/ Analyse \/ Stop

\* One thread runs the passes to their end.
Spec ==
  /\ Init
  /\ [][Next]_vars
  /\ WF_vars(GetLoopCount \/ Initialise \/ Analyse)

-----------------------------------------------------------------------------
(***************************************************************************)
(* The walk of all dimensions together, seen from one of them, is the      *)
(* protocol of module DimWalk.                                             *)
(***************************************************************************)
TileLoops(d) == {n \in Node : Tree[n].kind = "Tile" /\ d \in LoopDims(n)}

\* The nearest loop over d above n, or nullptr.
LoopAbove(n, d) ==
  LET above == {i \in DOMAIN Ancestors[n] : Ancestors[n][i] \in TileLoops(d)}
  IN  IF above = {} THEN nullptr ELSE Ancestors[n][Min(above)]

\* What the protocol of one dimension keeps of a frame.
Activation(f) ==
  [loop |-> f.node, start |-> f.start, end |-> f.end, moved |-> f.moved,
   from |-> f.from]

\* The activations of loops over d in the stack fs.
LoopsIn(fs, d) ==
  FoldLeft(LAMBDA acc, f : IF IsLoop(f) /\ DimOf(f) = d
                           THEN Append(acc, Activation(f)) ELSE acc, <<>>, fs)

LoopFrames(d) == LoopsIn(frames, d)

\* The loops over d that stand directly inside n, or inside none (nullptr).
LoopsInside ==
  [d \in Dim |-> [n \in TileLoops(d) \cup {nullptr} |->
                   {m \in TileLoops(d) : LoopAbove(m, d) = n}]]

Walk(d) == INSTANCE DimWalk WITH
  Loop <- TileLoops(d),
  Top <- LoopsInside[d][nullptr],
  Below <- [n \in TileLoops(d) |-> LoopsInside[d][n]],
  End <- [n \in TileLoops(d) |-> LoopOf(n, d).end],
  Residual <- [n \in TileLoops(d) |-> LoopOf(n, d).res],
  Offset <- [n \in TileLoops(d) |-> Offsets[d][n].step],
  LastOffset <- [n \in TileLoops(d) |-> Offsets[d][n].last],
  Bound <- FactorizedBounds[d],
  frames <- LoopFrames(d),
  vec_last_dim_ <- vec_last_dim_[d],
  dim_skew <- dim_skew[d]

\* Every step of the performance analysis is, for each dimension, a step of
\* the protocol of that dimension or leaves it alone: the evaluation
\* implements Walk(d)!Spec for every d (TLC wants the conjunction inside).
WalksEachDim ==
  /\ \A d \in Dim : Walk(d)!Init
  /\ [][\A d \in Dim : [Walk(d)!Next]_(Walk(d)!vars)]_vars

\* Type invariant of the whole evaluation.
TypeOK ==
  /\ CountTypeOK
  /\ TensorTypeOK
  /\ outcome \in {"walking", "finished", Abort, Undefined}
  /\ \A i \in DOMAIN frames : frames[i].node \in Nodes
  /\ \A i \in 2 .. Len(frames) :
        frames[i].idx <= 1 => frames[i - 1].node = Parent(frames[i].node)
  /\ data_movements_ \in Nat
  /\ \A d \in Dim : dim_skew[d] \in Nat

\* Every execution of an operation that the walk has to make is made, and
\* made once: the positions at which an operation ran are the corners of the
\* blocks that tile the iteration space, each of them one time.
BlocksOf(o, d) ==
  IF d \in LoopDims(o)
  THEN {b \in 0 .. FactorizedBounds[d] - 1 : b % LoopOf(o, d).end = 0}
  ELSE {0}

ExecutesEachBlockOnce ==
  outcome = "finished" =>
    \A o \in Ops :
      /\ ToSet(executed[o]) = {p \in [Dim -> UNION {BlocksOf(o, d) : d \in Dim}] :
                                 \A d \in Dim : p[d] \in BlocksOf(o, d)}
      /\ \A i, j \in DOMAIN executed[o] : executed[o][i] = executed[o][j] => i = j

\* The points of d that a loop of node m runs through: with its trip count,
\* and on the path of last iterations with its residual count.
FullRun(m, d) == LoopOf(m, d).end * Offsets[d][m].step
TailRun(m, d) == (LoopOf(m, d).res - 1) * Offsets[d][m].step + Offsets[d][m].last

\* The trip counts and the residual counts are at least 1: none is a variable.
CountsPositive(r) ==
  \A n \in NodesOf[r] : \A i \in DOMAIN Tree[n].loops :
    Tree[n].loops[i].end >= 1 /\ Tree[n].loops[i].res >= 1

\* Loops over d inside one and the same loop run through the same points:
\* getOffset looks at the first of them only.
SplitsAlike(r) ==
  \A d \in Dim : \A m, n \in NodesOf[r] :
    (/\ d \in LoopDims(m) \cap LoopDims(n)
     /\ LoopAbove(m, d) = LoopAbove(n, d) /\ LoopAbove(m, d) # nullptr) =>
      TailRun(m, d) = TailRun(n, d) /\ FullRun(m, d) = FullRun(n, d)

\* An operation has a loop over every dimension that a node above it loops
\* over, and no tail of its own is longer than its block.
OpsLoop(r) ==
  \A o \in NodesOf[r] : Tree[o].kind = "Op" =>
    /\ \A n \in ToSet(Ancestors[o]) : LoopDims(n) \subseteq LoopDims(o)
    /\ \A i \in DOMAIN Tree[o].loops : Tree[o].loops[i].res <= Tree[o].loops[i].end

\* A Scope is the last child of its tile, which visits no child after it.
ScopesLast(r) ==
  \A n \in NodesOf[r] : Tree[n].kind = "Tile" => \A i \in DOMAIN Kids(n) :
    Tree[Kids(n)[i]].kind = "Scope" => i = Len(Kids(n))

\* The mappings that ExecutesEachBlockOnce is proved of.
Regular(r) ==
  CountsPositive(r) /\ SplitsAlike(r) /\ OpsLoop(r) /\ ScopesLast(r)

\* The mappings without tails, in which also the loops over d that stand
\* inside none run through the same points: ResidentHoldsBlock is proved of them.
Untailed(r) ==
  \A n \in NodesOf[r] : \A i \in DOMAIN Tree[n].loops :
    Tree[n].loops[i].res = Tree[n].loops[i].end

TopsAlike(r) ==
  \A d \in Dim : \A m, n \in NodesOf[r] :
    (/\ d \in LoopDims(m) \cap LoopDims(n)
     /\ LoopAbove(m, d) = nullptr /\ LoopAbove(n, d) = nullptr) =>
      FullRun(m, d) = FullRun(n, d)

Even(r) == Regular(r) /\ Untailed(r) /\ TopsAlike(r)

\* An operation loops over the dimensions of its inputs, of which there are
\* some, and no input names a dimension twice: LoadsWholeTensor is proved of
\* the mappings that are also even.
InputsLooped(r) ==
  \A o \in NodesOf[r] : Tree[o].kind = "Op" => \A t \in Ins(o) :
    LET dims == TensorDims[t] IN
      /\ dims \in Seq(LoopDims(o)) /\ dims # <<>>
      /\ \A i, j \in DOMAIN dims : dims[i] = dims[j] => i = j

\* Whenever an operation runs, every tile above it that takes a tensor in
\* holds the part of it that the operation's block touches.
BlockAt(o, d) ==
  LET l == LoopOf(o, d) IN
    dim_skew[d] .. dim_skew[d] + (IF isLastLoop(d) THEN l.res ELSE l.end) - 1

ResidentHoldsBlock ==
  (outcome = "walking" /\ frames # <<>> /\ AtChild(Current)
     /\ Tree[Child(Current)].kind = "Op") =>
    LET o == Child(Current) IN
      \A n \in ToSet(Ancestors[o]) \cap Tiles : \A t \in input_tensors_[n] \cap Ins(o) :
        \A d \in ToSet(TensorDims[t]) \cap LoopDims(o) :
          BlockAt(o, d) \subseteq resident[n][t][d].low .. resident[n][t][d].high - 1

\* Compulsory traffic: a tile below the root loads every element of each
\* tensor that it takes in at least once, whatever it kept for reuse.
LoadsWholeTensor ==
  outcome = "finished" =>
    \A n \in Tiles \ {root} : \A t \in input_tensors_[n] :
      loaded[n][t] >= FoldLeft(LAMBDA acc, d : acc * FactorizedBounds[d], 1,
                               TensorDims[t])

\* A tile inside another one loads at least what the outer one loads: data
\* that comes into a level has to leave the level above.
TrafficGrowsInward ==
  outcome = "finished" =>
    \A n \in Tiles : \A m \in (ToSet(Ancestors[n]) \cap Tiles) \ {root} :
      \A t \in input_tensors_[n] \cap input_tensors_[m] :
        loaded[m][t] <= loaded[n][t]

\* The number of operations that may run at the same time.
Parallelism(n) ==
  CASE Tree[n].kind = "Tile" /\ Tree[n].type = "Spatial" -> getInterConNode(n, 1).fanout
    [] Tree[n].kind = "Scope" /\ Tree[n].type = "Parallel" -> Len(Kids(n))
    [] OTHER -> 1

\* The latency reported for the mapping is no less than its work divided by
\* all the parallelism there is.  (computeLatency weights the rounds over a
\* unicast connection by repeat - i * fanout, which falls below 0 from some
\* round on; a mapping with that many rounds is outside this property.)
LatencyFloor ==
  outcome = "finished" =>
    latency[root].proc
      * FoldLeft(LAMBDA acc, n : acc * Parallelism(n), 1, PreOrder[root])
    >= MapThenSumSet(LAMBDA o : Len(executed[o]) * ComputeCycles(Level(o)), Ops)

\* What the children of n took in this visit, one after the other.  For the
\* rounds of a spatial tile a movement counts as input and as output.
Serial(n) ==
  LET moves == IF Tree[n].type = "Spatial" THEN 2 ELSE 1
      took == FlattenSeq(latency_vec_[n])
  IN  FoldLeft(LAMBDA acc, l : acc + moves * (l.in + l.out) + l.proc, 0, took)

\* A pipelined child on a connection that sets no dm_latency has the one of
\* the child before it.
TakesOver(n, i) ==
  /\ scopeType(n) = "Pipeline"
  /\ getInterConNode(n, i).type \notin {"HD", "FD"}
  /\ \E j \in 1 .. i - 1 : getInterConNode(n, j).type \in {"HD", "FD"}

Rounds(n) == Len(latency_vec_[n]) > getInterConNode(n, 1).fanout

\* The latency that a tile is left with is that of the visit which ends, and
\* no more than its children took in this visit if nothing overlapped: nothing
\* of an earlier visit, of a full tile before a tail, is charged again.  (Not
\* for a visit of latency 0, which leaves process_latency_ alone, nor for a
\* child that takes dm_latency over from its neighbour, nor for several rounds
\* over unicast, see LatencyFloor.)
LatencyCeiling ==
  [][LET n == Current.node IN
       (/\ frames # <<>> /\ Len(frames') < Len(frames)
        /\ IsLoop(Current) /\ Current.idx = 1
        /\ outcome' \in {"walking", "finished"}
        /\ computeLatency(n, latency_vec_[n]) # 0
        /\ \A i \in DOMAIN Last(latency_vec_[n]) : ~TakesOver(n, i)
        /\ Tree[n].type = "Spatial" /\ getInterConNode(n, 1).type = "UC" => ~Rounds(n))
       => latency'[n].proc <= Serial(n)]_vars

\* The order of the mapping: the node before n, and the first one after all
\* that is below n (nullptr if there is none).
PlaceOf(n) == CHOOSE i \in DOMAIN PreOrder[root] : PreOrder[root][i] = n

NodeAt(i) == IF i \in DOMAIN PreOrder[root] THEN PreOrder[root][i] ELSE nullptr

NodeBefore(n) == NodeAt(PlaceOf(n) - 1)

NodeAfter(n) == NodeAt(PlaceOf(n) + Len(PreOrder[n]))

IsKind(n, kinds) == n # nullptr /\ Tree[n].kind \in kinds

\* A connection that is declared, with a bandwidth.
Wired(source, target) ==
  <<source, target>> \in DOMAIN InterCon /\ InterCon[<<source, target>>].bandwidth > 0

\* Where a tile takes its data from and gives it to is connected with it.  A
\* forwarding tile gives to a Trans node, which comes next, and after a Trans
\* node takes from an operation, which comes before that one.
TileWired(n) ==
  /\ Wired(TileAbove(n), Level(n)) \/ TileAbove(n) = Level(n)
  /\ Tree[n].mode # "Forward" => Wired(Level(n), TileAbove(n))
  /\ Tree[n].mode = "Forward" =>
       /\ IsKind(NodeAfter(n), {"Trans"})
       /\ Wired(Level(Last(PreOrder[n])), Level(NodeAfter(n)))
       /\ IsKind(NodeBefore(n), {"Trans"}) =>
            LET o == NodeBefore(NodeBefore(n))
            IN  IsKind(o, {"Op"}) /\ Wired(Level(o), Level(n))

\* A Trans node comes after the leaf it takes its data from, and where more
\* follows it stands between the writer and a reader of a tensor.
TransWired(x) ==
  /\ IsKind(NodeBefore(x), {"Op", "Trans"})
  /\ Wired(Level(NodeBefore(x)), Level(x))
  /\ IsKind(NodeAfter(x), {"Tile", "Scope", "Op"}) =>
       \E p, o \in Ops : /\ PlaceOf(p) < PlaceOf(x) /\ PlaceOf(x) < PlaceOf(o)
                         /\ Out(p) \in Ins(o)

\* A tile has loops, and operations, tiles or Trans nodes below it that it is
\* connected with, directly or in its one Scope; a spatial tile fans out.
BodyWired(n) ==
  LET scoped == \E i \in DOMAIN Kids(n) : Tree[Kids(n)[i]].kind = "Scope"
      body == IF scoped THEN Kids(Kids(n)[1]) ELSE Kids(n)
  IN  /\ Tree[n].loops # <<>>
      /\ scoped => Len(Kids(n)) = 1
      /\ IsKind(body[1], {"Tile", "Op"})
      /\ \A i \in DOMAIN body :
           /\ Tree[body[i]].kind # "Scope"
           /\ Tree[body[i]].kind # "Trans" => Wired(Level(n), Level(body[i]))
      /\ Tree[n].type = "Spatial" => InterCon[<<Level(n), Level(body[1])>>].fanout > 0

\* The operations: every tensor has one writer, that hands it over across two
\* tiles or in a Scope, and dimensions, over which each operation loops.
OpsSound ==
  \A o, p \in Ops :
    /\ o # p => Out(o) # Out(p)
    /\ Out(p) \in Ins(o) =>
         ~(Tree[Parent(p)].kind = "Tile" /\ Parent(p) \in ToSet(Ancestors[o]))
    /\ \A t \in Ins(p) \cup {Out(p)} :
         TensorDims[t] # <<>> /\ ToSet(TensorDims[t]) \subseteq LoopDims(o)

SoundMapping ==
  /\ Regular(root)
  /\ OpsSound
  /\ \A n \in Nodes :
       /\ Tree[n].kind = "Tile" => BodyWired(n) /\ (n # root => TileWired(n))
       /\ Tree[n].kind = "Trans" => TransWired(n)

\* A mapping that the legality check accepts and whose connections, Trans nodes
\* and tensors are as the analyses expect them comes to its result: none of
\* the assertions, lookups and dereferences of the passes after the check
\* fails for it, and none of the loops goes on for ever.
SoundMappingsFinish ==
  (verdict = "accepted" /\ SoundMapping) ~> (outcome = "finished")

\* The evaluation comes to an end.
Terminates == <>Ended
=============================================================================
