----------------------------- MODULE LoopCount -----------------------------
(***************************************************************************)
(* The legality check Evaluator::get_loop_count: the visitor GetLoopCount  *)
(* (src/src/loop-analysis/constraint.cpp) hands the loop nests of a node   *)
(* down to its children and compares, at every operation, the product of   *)
(* the loops above it with the workload's bounds.                          *)
(***************************************************************************)
EXTENDS MappingTree

CONSTANT MaxEvaluations   \* bound on the calls of Evaluator::evaluate

ASSUME EvaluationsAssumption == MaxEvaluations \in Nat \ {0}

VARIABLES
  unvisited,          \* the nodes the visitor has still to accept, next first
  inherit_loopnests_, \* per node: the loop nests inherited and its own
  verdict,            \* "idle", "running", "accepted" or "aborted"
  evaluations         \* how often evaluate was called

countVars == <<root, unvisited, inherit_loopnests_, verdict, evaluations>>

-----------------------------------------------------------------------------
\* The loops over d in a sequence of loop nests, outermost first.
LoopsOver(nests, d) ==
  FoldLeft(LAMBDA acc, l : IF l.dim = d THEN Append(acc, l) ELSE acc,
           <<>>, FlattenSeq(nests))

\* The product of the trip counts of the loops inside loop i.
InnerTrips(ls, i) ==
  FoldLeft(LAMBDA acc, l : acc * l.end, 1, SubSeq(ls, i + 1, Len(ls)))

\* Bug: off by one, a residual count is taken whole.
DimResultWhole(ls) ==
  1 + FoldLeftDomain(LAMBDA acc, i : acc + InnerTrips(ls, i) * ls[i].res, 0, ls)

\* dim_results of get_loop_count for the loops over one dimension.
DimResult(ls) ==
  1 + FoldLeftDomain(LAMBDA acc, i : acc + InnerTrips(ls, i) * (ls[i].res - 1),
                     0, ls)

\* Bug: the assertion on the tails is left out.
AnyTail(ls) == TRUE

\* get_loop_count asserts end >= residual_end except for the outermost loop.
TailsLegal(ls) == \A i \in 2 .. Len(ls) : ls[i].end >= ls[i].res

-----------------------------------------------------------------------------
CountInit ==
  /\ root \in Roots
  /\ unvisited = <<>>
  /\ inherit_loopnests_ = [n \in Nodes |-> <<>>]
  /\ verdict = "idle"
  /\ evaluations = 0

\* Evaluator::reset clears the root and its children, no node below them.
ResetNodes(r) == {r} \cup ToSet(Kids(r))

\* evaluate(): reset, then the visitor starts at the root.
Evaluate ==
  /\ verdict \in {"idle", "accepted"}
  /\ evaluations < MaxEvaluations
  /\ inherit_loopnests_' =
       [n \in DOMAIN inherit_loopnests_ |->
          IF n \in ResetNodes(root) THEN <<>> ELSE inherit_loopnests_[n]]
  /\ unvisited' = <<root>>
  /\ verdict' = "running"
  /\ evaluations' = evaluations + 1
  /\ UNCHANGED root

\* The loop nest that a node adds to those it inherits.
OwnNests(n) == IF Tree[n].kind \in {"Tile", "Op"} THEN <<Tree[n].loops>> ELSE <<>>

Inherited(n) ==
  IF Parent(n) = nullptr THEN <<>> ELSE inherit_loopnests_[Parent(n)]

\* Bug: a node appends its own nest before those of its parent.
NestsOwnFirst(n) ==
  inherit_loopnests_[n] \o OwnNests(n) \o Inherited(n)

\* Bug: the inherited nests and the node's loops are merged into one nest.
NestsMerged(n) ==
  inherit_loopnests_[n]
    \o (IF Tree[n].kind \in {"Tile", "Op"}
        THEN <<FlattenSeq(Inherited(n)) \o Tree[n].loops>> ELSE Inherited(n))

\* visitTile, visitScope, visitOp, visitTrans: what a node's nests become.
Nests(n) == inherit_loopnests_[n] \o Inherited(n) \o OwnNests(n)

\* The assertion on the number of children of each kind of node.
ChildrenLegal(n) == (Kids(n) = <<>>) <=> (Tree[n].kind \in {"Op", "Trans"})

\* The assertions of visitOp: every loop on the way down, and its own, must
\* multiply out to the bound of its dimension.
BoundsMatch(n) ==
  \A d \in Dim :
    LET ls == LoopsOver(Nests(n), d) IN
      ls # <<>> => TailsLegal(ls) /\ DimResult(ls) = FactorizedBounds[d]

NodeLegal(n) == ChildrenLegal(n) /\ (Tree[n].kind = "Op" => BoundsMatch(n))

\* One visit; the children are accepted before what is left of the tree.  A
\* failed assertion ends the program.
Visit ==
  /\ verdict = "running"
  /\ unvisited # <<>>
  /\ LET n == Head(unvisited) IN
       /\ inherit_loopnests_' = [inherit_loopnests_ EXCEPT ![n] = Nests(n)]
       /\ verdict' = IF NodeLegal(n) THEN verdict ELSE "aborted"
       /\ unvisited' = IF NodeLegal(n) THEN Kids(n) \o Tail(unvisited) ELSE <<>>
  /\ UNCHANGED <<root, evaluations>>

FinishCount ==
  /\ verdict = "running"
  /\ unvisited = <<>>
  /\ verdict' = "accepted"
  /\ UNCHANGED <<root, unvisited, inherit_loopnests_, evaluations>>

\* The program ends: abort() or the return from evaluate for good.
CountStopped ==
  /\ verdict = "aborted" \/ (verdict = "accepted" /\ evaluations = MaxEvaluations)
  /\ UNCHANGED countVars

CountNext == Evaluate \/ Visit \/ FinishCount \/ CountStopped

CountSpec == CountInit /\ [][CountNext]_countVars

-----------------------------------------------------------------------------
\* The loop nests on the way from the root to n, n's own included.
PathNests(n) ==
  LET path == Reverse(Ancestors[n]) \o <<n>>
  IN  FlattenSeq([i \in DOMAIN path |-> OwnNests(path[i])])

\* What the loops over a dimension really do: the number of innermost
\* iterations that are run when a loop takes its residual count exactly on
\* the path of last iterations (visitTileLoop).  A recursive reference.
WalkedPoints(ls) ==
  LET walk[k \in 1 .. Len(ls) + 1] ==
        IF k > Len(ls) THEN [full |-> 1, tail |-> 1]
        ELSE [full |-> (ls[k].end - 1) * walk[k + 1].full + walk[k + 1].full,
              tail |-> (ls[k].res - 1) * walk[k + 1].full + walk[k + 1].tail]
  IN  walk[1].tail

\* Type invariant.  What a node holds are whole loop nests of the tree.
CountTypeOK ==
  /\ root \in Roots
  /\ ToSet(unvisited) \subseteq Nodes
  /\ DOMAIN inherit_loopnests_ = Nodes
  /\ \A n \in Nodes : \A i \in DOMAIN inherit_loopnests_[n] :
        \E m \in Nodes : inherit_loopnests_[n][i] = Tree[m].loops
  /\ verdict \in {"idle", "running", "accepted", "aborted"}
  /\ evaluations \in 0 .. MaxEvaluations

\* An accepted mapping runs, for every operation, exactly as many points of
\* each dimension as the workload has: the closed formula of get_loop_count
\* agrees with the walk that the performance analysis makes later.
AcceptedCoversBounds ==
  verdict = "accepted" =>
    \A n \in Ops : \A d \in Dim :
      LET ls == LoopsOver(PathNests(n), d) IN
        ls # <<>> => WalkedPoints(ls) = FactorizedBounds[d]

\* An accepted mapping has no tail longer than the full tile below its
\* outermost loop: the tail of one dimension never runs past its tile.
AcceptedTailsFit ==
  verdict = "accepted" =>
    \A n \in Ops : \A d \in Dim :
      LET ls == LoopsOver(PathNests(n), d) IN
        \A k \in 2 .. Len(ls) :
          WalkedPoints(SubSeq(ls, k, Len(ls))) <= InnerTrips(ls, k - 1)

\* The visitor has still to come to n: n or a node above it is in the list.
Pending(n) == \E m \in ToSet(unvisited) : m = n \/ m \in ToSet(Ancestors[n])

\* A node that was visited has inherited the nests on its path once each,
\* outermost first.
InheritedIsPath ==
  \A n \in Nodes :
    (verdict \in {"running", "accepted"} /\ evaluations = 1 /\ ~Pending(n))
      => inherit_loopnests_[n] = PathNests(n)

\* init.cpp 305: "offset" is the change of the dimension when the loop count
\* of the node grows by one.  For an accepted mapping this must hold for each
\* operation below a loop that takes more than one step: a step moves past
\* all that the loops inside it cover, whichever child the operation is under.
OffsetIsStep ==
  verdict = "accepted" =>
    \A n \in Ops : \A i \in DOMAIN Ancestors[n] :
      LET t == Ancestors[n][i]
          below == SelectSeq(<<n>> \o SubSeq(Ancestors[n], 1, i - 1),
                             LAMBDA m : Tree[m].kind # "Scope")
          trips(d) == FoldLeft(LAMBDA acc, m : acc *
                        (IF d \in LoopDims(m) THEN LoopOf(m, d).end ELSE 1),
                        1, below)
      IN  \A d \in LoopDims(t) :
            LoopOf(t, d).res > 1 => Offsets[d][t].step = trips(d)

\* analysis.hpp 144 says of EvaNode::reset that it resets loop nests and
\* tensors, and evaluate begins with Evaluator::reset: a mapping that was
\* accepted once is accepted again.
AcceptedAgain == evaluations = 2 => verdict # "aborted"
=============================================================================
