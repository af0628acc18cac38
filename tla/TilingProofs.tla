---------------------------- MODULE TilingProofs ----------------------------
(***************************************************************************)
(* What the walk of the performance analysis runs through: the activations *)
(* of the loops cut the iteration space into cells, one inside the other,  *)
(* and every operation is executed at every corner of its blocks once.  In *)
(* a mapping without tails a tile keeps, from the moment it is measured    *)
(* until it returns, the cell that it runs through, and has loaded all of  *)
(* its tensors when the walk is over.                                      *)
(***************************************************************************)
EXTENDS EvaluatorProofs, TensorMapProofs

-----------------------------------------------------------------------------
(* The offsets of a mapping that the passes before the walk accept.         *)

\* A node below a node of a mapping is in the mapping.
LEMMA NodesBelow ==
  ASSUME NEW r \in Roots, NEW n \in NodesOf[r], NEW m \in Node, Under(m, n)
  PROVE  m \in NodesOf[r]
<1>1. NodesOf[r] = {k \in Node : r = k \/ r \in Above(k)}
  BY DEF NodesOf, Above
<1>2. CASE m = n
  BY <1>2
<1>3. CASE n \in Above(m)
  <2>1. Above(n) \subseteq Above(m)
    BY <1>3, AboveTransitive
  <2> QED  BY <1>1, <1>3, <2>1
<1> QED  BY <1>2, <1>3 DEF Under

\* The nodes above a node of a mapping are in the mapping.
LEMMA NodesAbove ==
  ASSUME NEW r \in Roots, NEW n \in NodesOf[r], NEW m \in Above(n)
  PROVE  m \in NodesOf[r]
<1>1. NodesOf[r] = {k \in Node : r = k \/ r \in Above(k)}
  BY DEF NodesOf, Above
<1>2. r \in Node /\ Parent(r) = nullptr /\ n \in Node
  BY <1>1 DEF Roots
<1>3. Above(r) = {}
  BY <1>2, AboveStep
<1>4. r \in Above(n)
  BY <1>1, <1>3
<1>5. Under(m, r) \/ Under(r, m)
  BY <1>2, <1>4, AboveChain
<1>6. m \in Node
  BY <1>2, AboveBefore
<1> QED  BY <1>1, <1>3, <1>5, <1>6 DEF Under

\* The nearest loop over d above a node is above it.
LEMMA LoopAboveAbove ==
  ASSUME NEW n \in Node, NEW d, LoopAbove(n, d) # nullptr
  PROVE  LoopAbove(n, d) \in Above(n)
<1> DEFINE up == {i \in DOMAIN Ancestors[n] : Ancestors[n][i] \in TileLoops(d)}
<1>1. up # {} /\ LoopAbove(n, d) = Ancestors[n][Min(up)]
  BY DEF LoopAbove
<1>2. up \in SUBSET Nat
  BY AncestorsType
<1>3. Min(up) \in up
  <2> HIDE DEF up
  <2> QED  BY <1>1, <1>2, MinIsLeast
<1> QED  BY <1>1, <1>3 DEF Above, ToSet

\* Without a loop over d in between, two nodes have the same loop above.
LEMMA SameLoopAbove ==
  ASSUME NEW d, NEW k \in Node, NEW m \in Node, Under(m, k),
         \A p \in Above(m) : Under(p, k) => p \notin TileLoops(d)
  PROVE  LoopAbove(m, d) = LoopAbove(k, d)
<1> DEFINE LoopFree(j) == Under(j, k) /\ \A p \in Above(j) : Under(p, k) => p \notin TileLoops(d)
           Bad == {j \in Node : LoopFree(j) /\ LoopAbove(j, d) # LoopAbove(k, d)}
<1>1. SUFFICES ASSUME Bad # {} PROVE FALSE
  OBVIOUS
<1>2. PICK j \in Bad : Parent(j) # nullptr => Parent(j) \in Node /\ Parent(j) \notin Bad
  <2>1. Bad \in SUBSET Node
    OBVIOUS
  <2> HIDE DEF Bad
  <2> QED  BY <1>1, <2>1, FirstNode
<1> DEFINE p == Parent(j)
<1>3. j \in Node /\ LoopFree(j) /\ LoopAbove(j, d) # LoopAbove(k, d)
  OBVIOUS
<1>4. k \in Above(j)
  BY <1>3 DEF Under
<1>5. p # nullptr /\ Above(j) = {p} \cup Above(p)
  BY <1>3, <1>4, AboveStep
<1>6. Under(p, k) /\ p \in Node /\ p \notin Bad /\ p \in Above(j)
  BY <1>2, <1>4, <1>5 DEF Under
<1>7. LoopFree(p)
  BY <1>3, <1>5, <1>6
<1>8. LoopAbove(p, d) = LoopAbove(k, d)
  BY <1>6, <1>7
<1>9. p \notin TileLoops(d)
  BY <1>3, <1>6
<1> QED  BY <1>3, <1>5, <1>8, <1>9, LoopAboveStep

\* getOffset finds, below a loop over d, a loop over d directly inside it.
LEMMA LoopBelowIsInside ==
  ASSUME NEW d \in Dim, NEW n \in Node, LoopBelow(n, d) # nullptr
  PROVE  /\ LoopBelow(n, d) \in Node /\ n \in Above(LoopBelow(n, d))
         /\ d \in LoopDims(LoopBelow(n, d))
         /\ n \in TileLoops(d) => LoopAbove(LoopBelow(n, d), d) = n
<1> DEFINE found == {i \in DOMAIN Kids(n) : BFSOffsetLoop[d][Kids(n)[i]] # nullptr}
           k == Kids(n)[Min(found)]
           m == BFSOffsetLoop[d][k]
<1>1. found # {} /\ LoopBelow(n, d) = m
  BY DEF LoopBelow
<1>2. Min(found) \in found
  <2>1. found \in SUBSET Nat
    BY KidsAfter
  <2> HIDE DEF found
  <2> QED  BY <1>1, <2>1, MinIsLeast
<1>3. Min(found) \in DOMAIN Kids(n) /\ m # nullptr
  BY <1>2
<1>4. k \in Node /\ Above(k) = {n} \cup Above(n) /\ Parent(k) = n
  BY <1>3, AboveKid, KidsAfter
<1> HIDE DEF k
<1>5. /\ m \in Node /\ Under(m, k) /\ d \in LoopDims(m)
      /\ \A p \in Above(m) : Under(p, k) => d \notin LoopDims(p)
  BY <1>3, <1>4, BFSFinds
<1> HIDE DEF m
<1>6. LoopAbove(m, d) = LoopAbove(k, d)
  BY <1>4, <1>5, SameLoopAbove DEF TileLoops
<1>7. n \in TileLoops(d) => LoopAbove(k, d) = n
  <2>1. Parent(k) # nullptr
    BY <1>4, NodesAreNumbers DEF nullptr
  <2> QED  BY <1>4, <2>1, LoopAboveStep
<1>8. n \in Above(m)
  BY <1>4, <1>5, AboveTransitive DEF Under
<1> QED  BY <1>1, <1>5, <1>6, <1>7, <1>8

\* The offsets of a loop are what the loops directly inside it run through.
LEMMA StepIsRun ==
  ASSUME NEW r \in Roots, OffsetsDefined(r), SplitsAlike(r),
         NEW m \in NodesOf[r], NEW d \in LoopDims(m), d \in Dim, LoopAbove(m, d) # nullptr
  PROVE  /\ Offsets[d][LoopAbove(m, d)].step = FullRun(m, d)
         /\ Offsets[d][LoopAbove(m, d)].last = TailRun(m, d)
<1> DEFINE a == LoopAbove(m, d)
           b == LoopBelow(a, d)
<1>1. m \in Node
  BY NodesClosed
<1>2. a \in TileLoops(d) /\ a \in Above(m)
  BY <1>1, LoopAboveIs, LoopAboveAbove
<1>3. a \in NodesOf[r] /\ a \in Node /\ Tree[a].kind = "Tile" /\ d \in LoopDims(a)
  BY <1>2, NodesAbove DEF TileLoops
<1>4. b # nullptr
  BY <1>3 DEF OffsetsDefined
<1> HIDE DEF a
<1>5. b \in Node /\ a \in Above(b) /\ d \in LoopDims(b) /\ LoopAbove(b, d) = a
  BY <1>2, <1>3, <1>4, LoopBelowIsInside
<1>6. b \in NodesOf[r]
  BY <1>3, <1>5, NodesBelow DEF Under
<1>7. TailRun(b, d) = TailRun(m, d) /\ FullRun(b, d) = FullRun(m, d)
  BY <1>5, <1>6 DEF SplitsAlike, a
<1>8. OffsetFrom(a, d) = b
  BY <1>3 DEF OffsetFrom
<1>9. Offsets[d][a] = FromBelow(LoopOf(b, d), Offsets[d][b])
  BY <1>3, <1>4, <1>8, OffsetsStep
<1> QED  BY <1>7, <1>9 DEF FromBelow, FullRun, TailRun, a

\* A node without children moves by one point.
LEMMA LeafOffsets ==
  ASSUME NEW n \in Node, Kids(n) = <<>>, NEW d \in Dim
  PROVE  Offsets[d][n].step = 1 /\ Offsets[d][n].last = 1
<1>1. LoopBelow(n, d) = nullptr
  BY DEF LoopBelow
<1>2. OffsetFrom(n, d) = nullptr
  BY <1>1 DEF OffsetFrom
<1> QED  BY <1>2, OffsetsStep

\* Offsets that lead forward.
Forward == [step : Nat \ {0}, last : Nat \ {0}]

\* With counts that are at least 1 every loop of the mapping moves forward.
LEMMA OffsetsForward ==
  ASSUME NEW r \in Roots, CountsPositive(r), NEW d \in Dim, NEW n \in NodesOf[r]
  PROVE  Offsets[d][n].step \in Nat \ {0} /\ Offsets[d][n].last \in Nat \ {0}
<1> DEFINE P == Nat \ {0}
           N == NodesOf[r]
           h == [m \in Node |-> IF m \in N THEN Offsets[d][m] ELSE [step |-> 1, last |-> 1]]
           next == [m \in Node |-> IF m \in N THEN OffsetFrom(m, d) ELSE nullptr]
<1>0. N \subseteq Node /\ n \in Node
  BY NodesClosed
<1>1. ASSUME NEW m \in N, OffsetFrom(m, d) # nullptr
      PROVE  /\ OffsetFrom(m, d) \in N /\ OffsetFrom(m, d) \in Node
             /\ OffsetFrom(m, d) > m /\ d \in LoopDims(OffsetFrom(m, d))
  <2>1. m \in Node /\ OffsetFrom(m, d) = LoopBelow(m, d)
    BY <1>0, <1>1 DEF OffsetFrom
  <2>2. OffsetFrom(m, d) \in Node /\ m \in Above(OffsetFrom(m, d))
    BY <1>1, <2>1, LoopBelowIsInside
  <2>3. OffsetFrom(m, d) \in N
    BY <2>2, NodesBelow DEF Under
  <2> QED  BY <1>1, <2>1, <2>2, <2>3, OffsetsStep
<1>2. next \in [Node -> Node \cup {nullptr}] /\ \A m \in Node : next[m] # nullptr => next[m] > m
  BY <1>1
<1>3. ASSUME NEW m \in Node, next[m] # nullptr => h[next[m]] \in Forward
      PROVE  h[m] \in Forward
  <2>0. [step |-> 1, last |-> 1] \in Forward
    BY DEF Forward
  <2>1. CASE m \notin N
    BY <2>0, <2>1
  <2>2. CASE m \in N /\ OffsetFrom(m, d) = nullptr
    <3>1. Offsets[d][m] = [step |-> 1, last |-> 1]
      BY <2>2, OffsetsStep
    <3> QED  BY <2>0, <2>2, <3>1
  <2>3. CASE m \in N /\ OffsetFrom(m, d) # nullptr
    <3> DEFINE b == OffsetFrom(m, d)
               l == LoopOf(b, d)
               o == Offsets[d][b]
    <3>1. /\ b \in N /\ b \in Node /\ d \in LoopDims(b)
          /\ Offsets[d][m] = FromBelow(l, o)
      BY <1>1, <2>3, OffsetsStep
    <3>2. l \in Loop /\ \E i \in DOMAIN Tree[b].loops : l = Tree[b].loops[i]
      BY <3>1, LoopOfIs
    <3>3. o \in Forward
      BY <1>3, <2>3, <3>1
    <3> HIDE DEF b
    <3>4. l.end \in P /\ l.res \in P
      <4>1. l.end >= 1 /\ l.res >= 1
        <5> HIDE DEF l
        <5> QED  BY <3>1, <3>2 DEF CountsPositive
      <4> HIDE DEF l
      <4> QED  BY <3>2, <4>1 DEF Loop
    <3>5. o.step \in P /\ o.last \in P
      <4> HIDE DEF o
      <4> QED  BY <3>3 DEF Forward
    <3> HIDE DEF l, o
    <3>6. l.end * o.step \in P /\ (l.res - 1) * o.step \in Nat
      BY <3>4, <3>5, ProductPositive
    <3>7. (l.res - 1) * o.step + o.last \in P
      BY <3>5, <3>6
    <3>8. FromBelow(l, o) \in Forward
      <4> HIDE DEF P
      <4> QED  BY <3>6, <3>7 DEF FromBelow, Forward, P
    <3>9. h[m] = Offsets[d][m]
      BY <2>3
    <3> QED  BY <3>1, <3>8, <3>9
  <2> QED  BY <2>1, <2>2, <2>3
<1>4. h[n] \in Forward
  <2> HIDE DEF h, next, N
  <2> QED  BY <1>0, <1>2, <1>3, DownwardType
<1>5. h[n] = Offsets[d][n]
  BY <1>0
<1> HIDE DEF h
<1> QED  BY <1>4, <1>5 DEF Forward

\* The counts and the runs of a loop of the mapping.
LEMMA RunsPositive ==
  ASSUME NEW r \in Roots, CountsPositive(r), NEW d \in Dim, NEW n \in NodesOf[r],
         d \in LoopDims(n)
  PROVE  /\ LoopOf(n, d).end \in Nat \ {0} /\ LoopOf(n, d).res \in Nat \ {0}
         /\ FullRun(n, d) \in Nat \ {0} /\ TailRun(n, d) \in Nat \ {0}
<1> DEFINE l == LoopOf(n, d)
           s == Offsets[d][n].step
           t == Offsets[d][n].last
<1>1. n \in Node
  BY NodesClosed
<1>2. l \in Loop /\ \E i \in DOMAIN Tree[n].loops : l = Tree[n].loops[i]
  BY <1>1, LoopOfIs
<1>3. l.end >= 1 /\ l.res >= 1
  <2> HIDE DEF l
  <2> QED  BY <1>2 DEF CountsPositive
<1>4. s \in Nat \ {0} /\ t \in Nat \ {0}
  BY OffsetsForward
<1> HIDE DEF l, s, t
<1>5. l.end \in Nat \ {0} /\ l.res \in Nat \ {0}
  BY <1>2, <1>3 DEF Loop
<1>6. l.end * s \in Nat \ {0} /\ (l.res - 1) * s \in Nat
  BY <1>4, <1>5, ProductPositive
<1>7. (l.res - 1) * s + t \in Nat \ {0}
  BY <1>4, <1>6
<1> QED  BY <1>5, <1>6, <1>7 DEF FullRun, TailRun, l, s, t

-----------------------------------------------------------------------------
(* The levels of a stack: what the first i frames say about dimension d.    *)

\* The loops over d among the first i frames.
LoopsTo(fs, i, d) == {j \in 1 .. i : OverDim(fs[j], d)}

\* Where their running iterations are.
Origin(fs, i, d) ==
  LET S == LoopsTo(fs, i, d)
  IN  IF S = {} THEN 0 ELSE fs[Max(S)].from + fs[Max(S)].moved

\* All of them are in their last iterations.
LastTo(fs, i, d) == \A j \in LoopsTo(fs, i, d) : fs[j].start + 1 >= fs[j].end

\* How many points the iteration of the innermost one runs through.
Span(fs, i, d) ==
  LET S == LoopsTo(fs, i, d)
      o == Offsets[d][fs[Max(S)].node]
  IN  IF S = {} THEN FactorizedBounds[d] ELSE IF LastTo(fs, i, d) THEN o.last ELSE o.step

\* Outside all frames a dimension is whole.
LEMMA LevelBase ==
  ASSUME NEW fs, NEW d
  PROVE  Origin(fs, 0, d) = 0 /\ LastTo(fs, 0, d) /\ Span(fs, 0, d) = FactorizedBounds[d]
<1>1. LoopsTo(fs, 0, d) = {}
  BY DEF LoopsTo
<1> QED  BY <1>1 DEF Origin, LastTo, Span

\* A loop over d decides about its level; a frame that is none adds nothing.
LEMMA LevelStep ==
  ASSUME NEW fs, NEW i \in Nat \ {0}, NEW d
  PROVE  /\ OverDim(fs[i], d) =>
              /\ Origin(fs, i, d) = fs[i].from + fs[i].moved
              /\ LastTo(fs, i, d) <=> (LastTo(fs, i - 1, d) /\ fs[i].start + 1 >= fs[i].end)
              /\ Span(fs, i, d) = IF LastTo(fs, i, d) THEN Offsets[d][fs[i].node].last
                                  ELSE Offsets[d][fs[i].node].step
         /\ ~OverDim(fs[i], d) =>
              /\ Origin(fs, i, d) = Origin(fs, i - 1, d)
              /\ LastTo(fs, i, d) <=> LastTo(fs, i - 1, d)
              /\ Span(fs, i, d) = Span(fs, i - 1, d)
<1> DEFINE S == LoopsTo(fs, i, d)
           R == LoopsTo(fs, i - 1, d)
<1>1. \A j : j \in 1 .. i <=> (j \in 1 .. i - 1 \/ j = i)
  OBVIOUS
<1>2. CASE OverDim(fs[i], d)
  <2>1. S = R \cup {i}
    BY <1>1, <1>2 DEF LoopsTo
  <2>2. S \in SUBSET Nat /\ S # {} /\ i \in S /\ \A k \in S : k <= i
    BY <2>1 DEF LoopsTo
  <2> HIDE DEF S, R
  <2>3. Max(S) = i
    <3>1. Max(S) \in S /\ i <= Max(S)
      BY <2>2, MaxIsGreatest
    <3>2. Max(S) \in Nat /\ Max(S) <= i
      BY <2>2, <3>1
    <3> HIDE DEF S
    <3> QED  BY <3>1, <3>2
  <2>4. Origin(fs, i, d) = fs[i].from + fs[i].moved
    BY <2>2, <2>3 DEF Origin, S
  <2>5. LastTo(fs, i, d) <=> (LastTo(fs, i - 1, d) /\ fs[i].start + 1 >= fs[i].end)
    BY <2>1 DEF LastTo, S, R
  <2>6. Span(fs, i, d) = IF LastTo(fs, i, d) THEN Offsets[d][fs[i].node].last
                         ELSE Offsets[d][fs[i].node].step
    BY <2>2, <2>3 DEF Span, S
  <2> QED  BY <1>2, <2>4, <2>5, <2>6
<1>3. CASE ~OverDim(fs[i], d)
  <2>1. S = R
    BY <1>1, <1>3 DEF LoopsTo
  <2> HIDE DEF S, R
  <2>2. LastTo(fs, i, d) <=> LastTo(fs, i - 1, d)
    BY <2>1 DEF LastTo, S, R
  <2>3. Origin(fs, i, d) = Origin(fs, i - 1, d)
    BY <2>1 DEF Origin, S, R
  <2>4. Span(fs, i, d) = Span(fs, i - 1, d)
    BY <2>1, <2>2 DEF Span, S, R
  <2> QED  BY <1>3, <2>2, <2>3, <2>4
<1> QED  BY <1>2, <1>3

\* The levels of alike stacks are the same.
LEMMA LevelAlike ==
  ASSUME NEW fs, NEW gs, NEW i \in Nat, \A j \in 1 .. i : Alike(fs[j], gs[j]), NEW d
  PROVE  /\ Origin(fs, i, d) = Origin(gs, i, d)
         /\ LastTo(fs, i, d) <=> LastTo(gs, i, d)
         /\ Span(fs, i, d) = Span(gs, i, d)
<1>1. ASSUME NEW f, NEW g, Alike(f, g)
      PROVE  /\ f.node = g.node /\ f.idx = g.idx /\ f.start = g.start /\ f.end = g.end
             /\ f.moved = g.moved /\ f.from = g.from
  <2>1. Activation(f).start = Activation(g).start /\ Activation(f).end = Activation(g).end
        /\ Activation(f).moved = Activation(g).moved /\ Activation(f).from = Activation(g).from
    BY <1>1 DEF Alike
  <2> QED  BY <1>1, <2>1 DEF Alike, Activation
<1> DEFINE S == LoopsTo(fs, i, d)
<1>2. S = LoopsTo(gs, i, d) /\ S \in SUBSET (1 .. i)
  BY <1>1 DEF LoopsTo, OverDim, IsLoop, DimOf
<1>3. S # {} => Max(S) \in 1 .. i
  <2> HIDE DEF S
  <2> QED  BY <1>2, MaxOfIndices
<1> HIDE DEF S
<1>4. LastTo(fs, i, d) <=> LastTo(gs, i, d)
  BY <1>1, <1>2 DEF LastTo, S
<1>5. Origin(fs, i, d) = Origin(gs, i, d)
  BY <1>1, <1>2, <1>3 DEF Origin, S
<1>6. Span(fs, i, d) = Span(gs, i, d)
  BY <1>1, <1>2, <1>3, <1>4 DEF Span, S
<1> QED  BY <1>4, <1>5, <1>6

\* The innermost loop over d at a level is that of the nearest loop over d.
LEMMA LevelNode ==
  ASSUME NEW r \in Roots, NEW fs, StackShape(fs, r), NEW i \in 1 .. Len(fs), NEW d
  PROVE  LET m == Nearest(fs[i], d) IN
           /\ m = nullptr => /\ Origin(fs, i, d) = 0 /\ LastTo(fs, i, d)
                             /\ Span(fs, i, d) = FactorizedBounds[d]
           /\ m # nullptr => Span(fs, i, d) = IF LastTo(fs, i, d) THEN Offsets[d][m].last
                                              ELSE Offsets[d][m].step
<1> DEFINE P(k) == LET m == Nearest(fs[k], d) IN
                     /\ m = nullptr => /\ Origin(fs, k, d) = 0 /\ LastTo(fs, k, d)
                                       /\ Span(fs, k, d) = FactorizedBounds[d]
                     /\ m # nullptr => Span(fs, k, d) = IF LastTo(fs, k, d) THEN Offsets[d][m].last
                                                        ELSE Offsets[d][m].step
           G == {k \in 0 .. Len(fs) : k = 0 \/ P(k)}
<1>1. fs \in Seq(FrameType) /\ Len(fs) \in Nat
  BY DEF StackShape
<1>2. ASSUME NEW k \in 1 .. Len(fs), k - 1 = 0 \/ P(k - 1) PROVE P(k)
  <2>1. fs[k] \in FrameType /\ FrameFits(fs[k]) /\ k \in Nat \ {0} /\ fs[k].node \in Node
    <3>1. fs[k] \in FrameType /\ FrameFits(fs[k]) /\ k \in Nat \ {0}
      BY <1>1 DEF StackShape
    <3> QED  BY <3>1 DEF FrameType
  <2>2. CASE OverDim(fs[k], d)
    <3>1. Nearest(fs[k], d) = fs[k].node
      <4>1. fs[k].idx \in Nat /\ fs[k].idx > 0
        BY <2>1, <2>2 DEF OverDim, IsLoop, FrameType
      <4>2. fs[k].idx \in 1 .. fs[k].idx /\ Tree[fs[k].node].loops[fs[k].idx].dim = d
        BY <2>2, <4>1 DEF OverDim, DimOf
      <4> QED  BY <4>2 DEF Nearest
    <3>2. fs[k].node # nullptr
      BY <2>1, NodesAreNumbers DEF nullptr
    <3> QED  BY <2>1, <2>2, <3>1, <3>2, LevelStep
  <2>3. CASE ~OverDim(fs[k], d) /\ k # 1
    <3>1. k - 1 \in 1 .. Len(fs) /\ k \in 2 .. Len(fs) /\ P(k - 1)
      BY <1>1, <1>2, <2>3
    <3>2. fs[k - 1] \in FrameType /\ FrameFits(fs[k - 1]) /\ EnteredFrom(fs[k - 1], fs[k])
      BY <1>1, <3>1 DEF StackShape
    <3>3. Nearest(fs[k], d) = Nearest(fs[k - 1], d)
      BY <2>1, <2>3, <3>2, NearestStep
    <3>4. /\ Origin(fs, k, d) = Origin(fs, k - 1, d)
          /\ LastTo(fs, k, d) <=> LastTo(fs, k - 1, d)
          /\ Span(fs, k, d) = Span(fs, k - 1, d)
      BY <2>1, <2>3, LevelStep
    <3> QED  BY <3>1, <3>3, <3>4
  <2>4. CASE ~OverDim(fs[k], d) /\ k = 1
    <3>1. fs[1].node = r /\ fs[1].idx = 1 /\ Parent(r) = nullptr
      BY <1>1, <2>4 DEF StackShape, Roots
    <3>2. \A j \in 1 .. fs[1].idx : Tree[fs[1].node].loops[j].dim # d
      <4>1. \A j \in 1 .. 1 : j = 1
        OBVIOUS
      <4> QED  BY <2>4, <3>1, <4>1 DEF OverDim, IsLoop, DimOf
    <3>3. Nearest(fs[k], d) = nullptr
      BY <2>1, <2>4, <3>1, <3>2, LoopAboveStep DEF Nearest
    <3>4. /\ Origin(fs, 1, d) = Origin(fs, 1 - 1, d)
          /\ LastTo(fs, 1, d) <=> LastTo(fs, 1 - 1, d)
          /\ Span(fs, 1, d) = Span(fs, 1 - 1, d)
      BY <2>4, LevelStep
    <3>5. 1 - 1 = 0
      OBVIOUS
    <3> QED  BY <2>4, <3>3, <3>4, <3>5, LevelBase
  <2> QED  BY <2>2, <2>3, <2>4
<1> HIDE DEF P
<1>3. 0 \in G /\ \A k \in 1 .. Len(fs) : k - 1 \in G => k \in G
  BY <1>1, <1>2
<1>4. \A k \in 0 .. Len(fs) : k \in G
  <2> HIDE DEF G
  <2> QED  BY <1>1, <1>3, UpInduction
<1>5. P(i)
  BY <1>1, <1>4
<1> QED  BY <1>5 DEF P

\* The frame of a stack, and the one that it was entered from.
LEMMA StackFrame ==
  ASSUME NEW r, NEW fs, StackShape(fs, r), NEW i \in 1 .. Len(fs)
  PROVE  /\ fs \in Seq(FrameType) /\ Len(fs) \in Nat
         /\ fs[i] \in FrameType /\ FrameFits(fs[i]) /\ fs[i].node \in Node
         /\ i > 1 => i - 1 \in 1 .. Len(fs) /\ EnteredFrom(fs[i - 1], fs[i])
<1>1. fs \in Seq(FrameType) /\ Len(fs) \in Nat
  BY DEF StackShape
<1>2. fs[i] \in FrameType /\ FrameFits(fs[i])
  BY <1>1 DEF StackShape
<1>3. fs[i].node \in Node
  BY <1>2 DEF FrameType
<1>4. i > 1 => i - 1 \in 1 .. Len(fs) /\ i \in 2 .. Len(fs)
  BY <1>1
<1> QED  BY <1>1, <1>2, <1>3, <1>4 DEF StackShape

\* The nodes of a stack lie below each other.
LEMMA StackChain ==
  ASSUME NEW r, NEW fs, StackShape(fs, r), NEW i \in 1 .. Len(fs), NEW j \in 1 .. Len(fs), i <= j
  PROVE  Under(fs[j].node, fs[i].node)
<1> DEFINE G == {k \in 0 .. Len(fs) : i <= k => Under(fs[k].node, fs[i].node)}
<1>1. Len(fs) \in Nat
  BY DEF StackShape
<1>2. 0 \in G
  BY <1>1
<1>3. ASSUME NEW k \in 1 .. Len(fs), k - 1 \in G PROVE k \in G
  <2>1. SUFFICES ASSUME i <= k PROVE Under(fs[k].node, fs[i].node)
    BY <1>1
  <2>2. CASE i = k
    BY <2>2 DEF Under
  <2>3. CASE i # k
    <3>1. k > 1 /\ i <= k - 1 /\ Under(fs[k - 1].node, fs[i].node)
      BY <1>1, <1>3, <2>1, <2>3
    <3>2. /\ fs[k].node \in Node /\ k - 1 \in 1 .. Len(fs) /\ EnteredFrom(fs[k - 1], fs[k])
      BY <3>1, StackFrame
    <3>3. fs[k - 1].node \in Node
      BY <3>2, StackFrame
    <3>4. fs[k].node = fs[k - 1].node \/ Parent(fs[k].node) = fs[k - 1].node
      BY <3>2 DEF EnteredFrom
    <3>5. CASE Parent(fs[k].node) = fs[k - 1].node
      <4>1. Above(fs[k].node) = {fs[k - 1].node} \cup Above(fs[k - 1].node)
        BY <3>2, <3>3, <3>5, AboveStep, NodesAreNumbers DEF nullptr
      <4> QED  BY <3>1, <4>1 DEF Under
    <3> QED  BY <3>1, <3>4, <3>5
  <2> QED  BY <2>2, <2>3
<1>4. \A k \in 0 .. Len(fs) : k \in G
  <2> HIDE DEF G
  <2> QED  BY <1>1, <1>2, <1>3, UpInduction
<1> QED  BY <1>1, <1>4

\* The nodes of a stack are nodes of the mapping, and above the innermost one.
LEMMA StackNodes ==
  ASSUME NEW r \in Roots, NEW fs, StackShape(fs, r), NEW i \in 1 .. Len(fs)
  PROVE  /\ fs[i].node \in NodesOf[r]
         /\ Under(fs[Len(fs)].node, fs[i].node)
<1>1. Len(fs) \in Nat /\ 1 \in 1 .. Len(fs) /\ fs # <<>> /\ Len(fs) \in 1 .. Len(fs)
  BY DEF StackShape
<1>2. fs[1].node = r
  BY <1>1 DEF StackShape
<1>3. Under(fs[i].node, r) /\ Under(fs[Len(fs)].node, fs[i].node)
  BY <1>1, <1>2, StackChain
<1>4. r \in NodesOf[r] /\ fs[i].node \in Node
  BY StackFrame DEF NodesOf, Roots
<1> QED  BY <1>3, <1>4, NodesBelow

\* The outermost loop over d above an operation, or its own loop, runs through
\* all of the dimension in the end.
TopsCover(r) ==
  \A o \in NodesOf[r] : Tree[o].kind = "Op" =>
    \A d \in Dim : \A m \in NodesOf[r] :
      (/\ Under(o, m) /\ Tree[m].kind \in {"Tile", "Op"}
       /\ d \in LoopDims(m) /\ LoopAbove(m, d) = nullptr) =>
        TailRun(m, d) = FactorizedBounds[d]

\* A loop runs through what the iteration around it leaves to it.
LEMMA RunFits ==
  ASSUME NEW r \in Roots, OffsetsDefined(r), SplitsAlike(r), TopsCover(r),
         NEW o \in NodesOf[r], Tree[o].kind = "Op",
         NEW fs, StackShape(fs, r), NEW i \in 1 .. Len(fs), IsLoop(fs[i]),
         Under(o, fs[i].node)
  PROVE  LET d == DimOf(fs[i]) IN
           Span(fs, i - 1, d) = IF LastTo(fs, i - 1, d) THEN TailRun(fs[i].node, d)
                                ELSE FullRun(fs[i].node, d)
<1> DEFINE f == fs[i]
           d == DimOf(fs[i])
           a == LoopAbove(fs[i].node, d)
<1>1. Len(fs) \in Nat /\ f \in FrameType /\ FrameFits(f) /\ f.node \in Node
  BY StackFrame
<1>2. d \in Dim /\ f.node \in TileLoops(d) /\ d \in LoopDims(f.node)
  BY <1>1, LoopOfFrame DEF TileLoops
<1>3. f.node \in NodesOf[r]
  BY StackNodes
<1>4. a # nullptr => Offsets[d][a].step = FullRun(f.node, d) /\ Offsets[d][a].last = TailRun(f.node, d)
  BY <1>2, <1>3, StepIsRun
<1>5. a = nullptr => TailRun(f.node, d) = FactorizedBounds[d]
  BY <1>2, <1>3 DEF TopsCover, TileLoops
<1>6. CASE i = 1
  <2>1. f.node = r /\ Parent(r) = nullptr
    BY <1>1, <1>6 DEF StackShape, Roots
  <2>2. a = nullptr
    BY <1>1, <2>1, LoopAboveStep
  <2>3. i - 1 = 0
    BY <1>6
  <2> QED  BY <1>5, <2>2, <2>3, LevelBase
<1>7. CASE i # 1
  <2>1. i > 1
    BY <1>1, <1>7
  <2>2. i - 1 \in 1 .. Len(fs) /\ EnteredFrom(fs[i - 1], f)
    BY <2>1, StackFrame
  <2>3. fs[i - 1] \in FrameType /\ FrameFits(fs[i - 1])
    BY <2>2, StackFrame
  <2>4. Nearest(fs[i - 1], d) = a
    BY <1>1, <2>2, <2>3, NearestAbove DEF OverDim
  <2> HIDE DEF a, d, f
  <2>5. /\ a = nullptr => LastTo(fs, i - 1, d) /\ Span(fs, i - 1, d) = FactorizedBounds[d]
        /\ a # nullptr => Span(fs, i - 1, d) = IF LastTo(fs, i - 1, d) THEN Offsets[d][a].last
                                               ELSE Offsets[d][a].step
    BY <2>2, <2>4, LevelNode
  <2>6. Span(fs, i - 1, d) = IF LastTo(fs, i - 1, d) THEN TailRun(f.node, d) ELSE FullRun(f.node, d)
    BY <1>4, <1>5, <2>5
  <2> QED  BY <2>6 DEF f, d
<1> QED  BY <1>6, <1>7

-----------------------------------------------------------------------------
(* The flags.                                                               *)

\* The activation is in its last iteration.
IsLast(a) == a.start + 1 >= a.end

\* The flags v are those of the activations ls.
FlagsTell(ls, v) == \A k \in 1 .. Len(v) : k \in 1 .. Len(ls) /\ (v[k] <=> IsLast(ls[k]))

\* vec_last_dim_ says of every running iteration whether it is the last one.
FlagInv == \A d \in Dim : FlagsTell(LoopFrames(d), vec_last_dim_[d])

\* A step of the protocol of d keeps the flags of d right.
LEMMA FlagStep ==
  ASSUME WalkInv, WalkInv', FlagInv, NEW d \in Dim, WalkStep(d)
  PROVE  FlagsTell(LoopFrames(d), vec_last_dim_[d])'
<1> DEFINE ls == LoopFrames(d)
           us == LoopFrames(d)'
           v == vec_last_dim_[d]
           w == vec_last_dim_'[d]
<1>1. ls \in Seq(ActivationType) /\ v \in Seq(BOOLEAN) /\ Len(ls) \in Nat /\ Len(v) \in Nat
  BY StackTypes
<1>2. us \in Seq(ActivationType) /\ w \in Seq(BOOLEAN) /\ Len(us) \in Nat /\ Len(w) \in Nat
  <2>1. frames' \in Seq(FrameType) /\ w \in Seq(BOOLEAN)
    BY DEF WalkInv, StackShape
  <2> QED  BY <2>1, LoopsInType DEF LoopFrames
<1>3. FlagsTell(ls, v)
  BY DEF FlagInv
<1>4. Len(v) = Len(ls) \/ Len(v) = Len(ls) - 1
  BY <1>1 DEF WalkInv, FlagsFit
<1>5. SUFFICES FlagsTell(us, w)
  OBVIOUS
<1> HIDE DEF ls, us, v, w
<1>6. ASSUME NEW l \in TileLoops(d), Walk(d)!Enter(l) PROVE FlagsTell(us, w)
  <2>1. PICK a : us = Append(ls, a)
    BY <1>6 DEF Walk!Enter, ls, us
  <2>2. w = v
    BY <1>6 DEF Walk!Enter, v, w
  <2>3. Len(us) = Len(ls) + 1 /\ \A k \in 1 .. Len(ls) : us[k] = ls[k]
    BY <1>1, <2>1
  <2>4. \A k \in 1 .. Len(ls) : k \in 1 .. Len(us)
    BY <1>1, <2>3
  <2> QED  BY <1>3, <2>2, <2>3, <2>4 DEF FlagsTell
<1>7. ASSUME Walk(d)!BeginIteration PROVE FlagsTell(us, w)
  <2>1. us = ls /\ Len(v) # Len(ls) /\ w = Append(v, IsLast(ls[Len(ls)]))
    BY <1>7 DEF Walk!BeginIteration, Walk!InBody, Walk!PushLast, Walk!Top1, IsLast, ls, us, v, w
  <2>2. Len(ls) = Len(v) + 1
    BY <1>1, <1>4, <2>1
  <2>3. Len(w) = Len(v) + 1 /\ w[Len(ls)] = IsLast(ls[Len(ls)]) /\ \A k \in 1 .. Len(v) : w[k] = v[k]
    BY <1>1, <2>1, <2>2
  <2>4. ASSUME NEW k \in 1 .. Len(w) PROVE k \in 1 .. Len(us) /\ (w[k] <=> IsLast(us[k]))
    <3>1. CASE k = Len(ls)
      BY <1>1, <2>1, <2>2, <2>3, <3>1
    <3>2. CASE k # Len(ls)
      <4>1. k \in 1 .. Len(v)
        BY <1>1, <2>2, <2>3, <3>2
      <4> QED  BY <1>3, <2>1, <2>3, <4>1 DEF FlagsTell
    <3> QED  BY <3>1, <3>2
  <2> QED  BY <2>4 DEF FlagsTell
<1>8. ASSUME Walk(d)!EndIteration PROVE FlagsTell(us, w)
  <2>1. PICK b : us = [ls EXCEPT ![Len(ls)] = b]
    BY <1>8 DEF Walk!EndIteration, ls, us
  <2>2. Len(v) = Len(ls) /\ ls # <<>> /\ w = SubSeq(v, 1, Len(v) - 1)
    BY <1>8 DEF Walk!EndIteration, Walk!InBody, Walk!Pop, ls, v, w
  <2> DEFINE n == Len(v) - 1
  <2>3. n \in Nat /\ Len(v) = n + 1 /\ \A k \in 1 .. n : v[k] \in BOOLEAN
    BY <1>1, <2>2
  <2> HIDE DEF n
  <2>4. Len(w) = n /\ \A k \in 1 .. n : w[k] = v[k]
    BY <1>1, <2>2, <2>3 DEF n
  <2>5. Len(us) = Len(ls) /\ \A k \in 1 .. n : us[k] = ls[k]
    <3>0. ls \in [1 .. Len(ls) -> ActivationType]
      BY <1>1
    <3>1. ls \in [1 .. Len(ls) -> ActivationType] /\ Len(ls) = n + 1
      BY <2>2, <2>3, <3>0
    <3>2. DOMAIN us = 1 .. Len(ls) /\ \A k \in 1 .. Len(ls) : k # Len(ls) => us[k] = ls[k]
      BY <2>1, <3>1
    <3>3. Len(us) = Len(ls)
      BY <1>1, <1>2, <3>2
    <3> QED  BY <2>3, <3>1, <3>2, <3>3
  <2>6. \A k \in 1 .. n : k \in 1 .. Len(v)
    BY <2>3
  <2> QED  BY <1>3, <2>4, <2>5, <2>6 DEF FlagsTell
<1>9. ASSUME Walk(d)!Exit PROVE FlagsTell(us, w)
  <2>1. Len(v) # Len(ls) /\ us = SubSeq(ls, 1, Len(ls) - 1) /\ w = v
    BY <1>9 DEF Walk!Exit, Walk!InBody, Walk!Pop, ls, us, v, w
  <2> DEFINE n == Len(ls) - 1
  <2>2. n \in Nat /\ Len(v) = n /\ \A k \in 1 .. n : ls[k] \in ActivationType
    BY <1>1, <1>4, <2>1
  <2> HIDE DEF n
  <2>3. Len(us) = n /\ \A k \in 1 .. n : us[k] = ls[k]
    BY <1>1, <2>1, <2>2 DEF n
  <2> QED  BY <1>3, <2>1, <2>2, <2>3 DEF FlagsTell
<1>10. ASSUME UNCHANGED Walk(d)!vars PROVE FlagsTell(us, w)
  BY <1>3, <1>10 DEF Walk!vars, ls, us, v, w
<1> QED  BY <1>6, <1>7, <1>8, <1>9, <1>10 DEF WalkStep, Walk!Next

\* The activations over d are in their last iterations exactly if the frames
\* over d are.
LEMMA LastOfStack ==
  ASSUME NEW fs \in Seq(FrameType), NEW d
  PROVE  (\A k \in 1 .. Len(LoopsIn(fs, d)) : IsLast(LoopsIn(fs, d)[k])) <=> LastTo(fs, Len(fs), d)
<1>1. PICK g : Collects(g, fs, d)
  BY LoopsInPrefixes
<1>2. /\ g \in [0 .. Len(fs) -> Seq(ActivationType)] /\ Len(fs) \in Nat
      /\ g[0] = <<>> /\ LoopsIn(fs, d) = g[Len(fs)]
      /\ \A k \in 1 .. Len(fs) :
           g[k] = IF OverDim(fs[k], d) THEN Append(g[k - 1], Activation(fs[k])) ELSE g[k - 1]
  BY <1>1 DEF Collects
<1> DEFINE AllLast(s) == \A k \in 1 .. Len(s) : IsLast(s[k])
           G == {k \in 0 .. Len(fs) : AllLast(g[k]) <=> LastTo(fs, k, d)}
<1>3. 0 \in G
  <2>1. AllLast(g[0])
    BY <1>2
  <2> QED  BY <1>2, <2>1, LevelBase
<1>4. ASSUME NEW k \in 1 .. Len(fs), k - 1 \in G PROVE k \in G
  <2>1. /\ k \in Nat \ {0} /\ k - 1 \in 0 .. Len(fs) /\ k \in 0 .. Len(fs)
        /\ g[k - 1] \in Seq(ActivationType) /\ fs[k] \in FrameType
    BY <1>2
  <2>0. AllLast(g[k - 1]) <=> LastTo(fs, k - 1, d)
    BY <1>4
  <2>2. CASE OverDim(fs[k], d)
    <3> DEFINE s == g[k - 1]
               a == Activation(fs[k])
    <3>1. g[k] = Append(s, a) /\ s \in Seq(ActivationType)
      BY <1>2, <2>1, <2>2
    <3>2. a \in ActivationType
      BY <2>1, ActivationOf
    <3> HIDE DEF s, a
    <3>3. /\ Len(g[k]) = Len(s) + 1 /\ Len(s) \in Nat /\ g[k][Len(s) + 1] = a
          /\ \A j \in 1 .. Len(s) : g[k][j] = s[j]
      BY <3>1, <3>2
    <3>4. \A j : j \in 1 .. Len(g[k]) <=> (j \in 1 .. Len(s) \/ j = Len(s) + 1)
      BY <3>3
    <3>5. AllLast(g[k]) <=> (AllLast(s) /\ IsLast(a))
      BY <3>3, <3>4
    <3>6. IsLast(a) <=> fs[k].start + 1 >= fs[k].end
      BY DEF IsLast, a, Activation
    <3>7. LastTo(fs, k, d) <=> (LastTo(fs, k - 1, d) /\ fs[k].start + 1 >= fs[k].end)
      BY <2>1, <2>2, LevelStep
    <3> QED  BY <2>0, <2>1, <3>5, <3>6, <3>7 DEF s
  <2>3. CASE ~OverDim(fs[k], d)
    <3>1. g[k] = g[k - 1] /\ (LastTo(fs, k, d) <=> LastTo(fs, k - 1, d))
      BY <1>2, <2>1, <2>3, LevelStep
    <3> QED  BY <2>0, <2>1, <3>1
  <2> QED  BY <2>2, <2>3
<1>5. \A k \in 0 .. Len(fs) : k \in G
  <2> HIDE DEF G
  <2> QED  BY <1>2, <1>3, <1>4, UpInduction
<1>6. Len(fs) \in G
  BY <1>2, <1>5
<1> QED  BY <1>2, <1>6

\* In the body of all its loops, a dimension is on its path of last iterations
\* exactly if isLastLoop says so.
LEMMA LastIsTold ==
  ASSUME WalkInv, FlagInv, NEW d \in Dim, ~Testing(d)
  PROVE  isLastLoop(d) <=> LastTo(frames, Len(frames), d)
<1> DEFINE ls == LoopsIn(frames, d)
           v == vec_last_dim_[d]
<1>1. frames \in Seq(FrameType) /\ v \in Seq(BOOLEAN) /\ ls \in Seq(ActivationType)
  BY StackTypes DEF LoopFrames
<1>2. Len(v) = Len(ls) /\ FlagsTell(ls, v)
  BY <1>1 DEF WalkInv, FlagsFit, FlagInv, LoopFrames
<1> HIDE DEF ls, v
<1>3. DOMAIN v = 1 .. Len(v)
  BY <1>1
<1>4. (\A i \in DOMAIN v : v[i]) <=> (\A k \in 1 .. Len(ls) : IsLast(ls[k]))
  BY <1>2, <1>3 DEF FlagsTell
<1> QED  BY <1>1, <1>4, LastOfStack DEF isLastLoop, ls, v

-----------------------------------------------------------------------------
(* The stack as a path through the iteration space.                         *)

\* A loop starts where the iteration around it is, has its residual count
\* exactly on the path of last iterations, and is start iterations further.
LoopFits(fs, i) ==
  LET f == fs[i]
      d == DimOf(f)
      l == LoopOf(f.node, d)
  IN  /\ f.from = Origin(fs, i - 1, d)
      /\ f.end = IF LastTo(fs, i - 1, d) THEN l.res ELSE l.end
      /\ f.moved = f.start * Offsets[d][f.node].step
      /\ f.start <= f.end
      /\ f.kid > 0 => f.start < f.end

\* Frame g runs for the child, or for the inner loop, that f is at.
InChild(f, g) ==
  IF g.idx > 1 THEN f.kid = 1
  ELSE f.kid \in DOMAIN Kids(f.node) /\ Kids(f.node)[f.kid] = g.node

\* The frames of a stack fit together.
StackFits(fs) ==
  /\ \A i \in 1 .. Len(fs) : IsLoop(fs[i]) => LoopFits(fs, i)
  /\ \A i \in 2 .. Len(fs) : InChild(fs[i - 1], fs[i])

\* The walk is where its stack says.
TilingInv ==
  /\ StackFits(frames)
  /\ \A d \in Dim : dim_skew[d] = Origin(frames, Len(frames), d)

\* A stack fits if its lower part does and its innermost frame does.
LEMMA FitsOnTop ==
  ASSUME NEW fs \in Seq(FrameType), StackFits(fs), NEW gs \in Seq(FrameType), gs # <<>>,
         Len(gs) - 1 <= Len(fs), \A i \in 1 .. Len(gs) - 1 : gs[i] = fs[i],
         IsLoop(gs[Len(gs)]) => LoopFits(gs, Len(gs)),
         Len(gs) > 1 => InChild(fs[Len(gs) - 1], gs[Len(gs)])
  PROVE  StackFits(gs)
<1>1. Len(gs) \in Nat \ {0} /\ Len(fs) \in Nat
  OBVIOUS
<1>2. ASSUME NEW i \in 1 .. Len(gs), IsLoop(gs[i]) PROVE LoopFits(gs, i)
  <2>1. CASE i = Len(gs)
    BY <1>2, <2>1
  <2>2. CASE i # Len(gs)
    <3>1. /\ i \in 1 .. Len(fs) /\ gs[i] = fs[i] /\ i - 1 \in Nat
          /\ \A j \in 1 .. i - 1 : j \in 1 .. Len(gs) - 1
      BY <1>1, <2>2
    <3>2. \A j \in 1 .. i - 1 : Alike(gs[j], fs[j])
      BY <3>1 DEF Alike
    <3>3. LoopFits(fs, i)
      BY <1>2, <3>1 DEF StackFits
    <3>4. ASSUME NEW d
          PROVE  /\ Origin(gs, i - 1, d) = Origin(fs, i - 1, d)
                 /\ LastTo(gs, i - 1, d) <=> LastTo(fs, i - 1, d)
      BY <3>1, <3>2, LevelAlike
    <3> QED  BY <3>1, <3>3, <3>4 DEF LoopFits
  <2> QED  BY <2>1, <2>2
<1>3. ASSUME NEW i \in 2 .. Len(gs) PROVE InChild(gs[i - 1], gs[i])
  <2>1. i - 1 \in 1 .. Len(gs) - 1 /\ gs[i - 1] = fs[i - 1]
    BY <1>1
  <2>2. CASE i = Len(gs)
    BY <1>1, <2>1, <2>2
  <2>3. CASE i # Len(gs)
    <3>1. gs[i] = fs[i] /\ i \in 2 .. Len(fs)
      BY <1>1, <2>3
    <3> QED  BY <2>1, <3>1 DEF StackFits
  <2> QED  BY <2>2, <2>3
<1> QED  BY <1>2, <1>3 DEF StackFits

-----------------------------------------------------------------------------
(* The steps of the walk, by what they do to the stack.                     *)

\* A loop or a Scope is entered.
Enters(f) ==
  /\ f \in FrameType
  /\ frames' = Append(frames, f)
  /\ frames # <<>> => InChild(Current, f)
  /\ f = IF f.idx = 0 THEN ScopeFrame(f.node) ELSE LoopFrame(f.node, f.idx)
  /\ UNCHANGED <<dim_skew, executed>>

\* The body of an iteration begins.
Begins ==
  /\ frames # <<>> /\ IsLoop(Current) /\ Current.kid = 0 /\ Current.start < Current.end
  /\ frames' = Replace(Step(Current))
  /\ UNCHANGED <<dim_skew, executed>>

\* A leaf of the tree is visited.
VisitsLeaf ==
  LET x == Child(Current) IN
    /\ frames # <<>> /\ AtChild(Current) /\ Tree[x].kind \in {"Op", "Trans"}
    /\ frames' = Replace(Step(Current))
    /\ executed' = IF Tree[x].kind = "Op" THEN [executed EXCEPT ![x] = Append(@, dim_skew)]
                   ELSE executed
    /\ UNCHANGED dim_skew

\* An iteration ends.
EndsBody ==
  LET step == Offsets[DimOf(Current)][Current.node].step IN
    /\ frames # <<>> /\ IsLoop(Current) /\ Current.kid > Steps(Current)
    /\ frames' = Replace([Current EXCEPT !.kid = 0, !.start = @ + 1, !.moved = @ + step])
    /\ dim_skew' = [dim_skew EXCEPT ![DimOf(Current)] = @ + step]
    /\ UNCHANGED executed

\* A loop or a Scope returns to the frame that entered it.
Returns ==
  /\ frames # <<>> /\ frames' = Returned
  /\ \/ ~IsLoop(Current) /\ Current.kid > Steps(Current) /\ UNCHANGED dim_skew
     \/ /\ IsLoop(Current) /\ Current.kid = 0 /\ Current.start >= Current.end
        /\ dim_skew' = Restored(Current)
  /\ UNCHANGED executed

\* The level of a dimension that a pushed frame is entered at.
LEMMA EnteredLevel ==
  ASSUME WalkInv, NEW f \in FrameType, FrameFits(f), IsLoop(f),
         IF frames = <<>> THEN f.node = root /\ f.idx = 1 ELSE EnteredFrom(Current, f),
         Parent(f.node) = nullptr
  PROVE  LastTo(frames, Len(frames), DimOf(f))
<1> DEFINE d == DimOf(f)
<1>1. root \in Roots /\ StackShape(frames, root)
  BY DEF WalkInv
<1>2. CASE frames = <<>>
  <2>1. Len(frames) = 0
    BY <1>2
  <2> QED  BY <2>1, LevelBase
<1>3. CASE frames # <<>>
  <2>1. /\ Current \in FrameType /\ FrameFits(Current) /\ Len(frames) \in 1 .. Len(frames)
    BY <1>3, StackTypes
  <2>2. Nearest(Current, d) = LoopAbove(f.node, d) /\ f.node \in Node
    BY <1>3, <2>1, NearestAbove DEF OverDim, FrameType
  <2>3. LoopAbove(f.node, d) = nullptr
    BY <2>2, LoopAboveStep
  <2> QED  BY <1>1, <2>1, <2>2, <2>3, LevelNode DEF Current
<1> QED  BY <1>2, <1>3

\* A loop that is entered starts at the beginning: the loops before it have put
\* back the start they found.
LEMMA EnteredAtZero ==
  ASSUME NEW f, Enters(f), IsLoop(f)
  PROVE  f.start = 0 /\ f.moved = 0 /\ f.kid = 0
<1>1. f \in FrameType /\ f = LoopFrame(f.node, f.idx)
  BY DEF Enters, IsLoop, FrameType
<1>2. f.ori = 0
  BY <1>1 DEF FrameType
<1>3. /\ LoopFrame(f.node, f.idx).start = LoopFrame(f.node, f.idx).ori
      /\ LoopFrame(f.node, f.idx).moved = 0 /\ LoopFrame(f.node, f.idx).kid = 0
  BY DEF LoopFrame
<1> QED  BY <1>1, <1>2, <1>3

\* Entering keeps the stack a path.
LEMMA EnterFits ==
  ASSUME WalkInv, WalkInv', root' = root, FlagInv, TilingInv, CountsPositive(root),
         NEW f, Enters(f)
  PROVE  TilingInv'
<1> DEFINE gs == Append(frames, f)
           n == Len(frames)
           e == DimOf(f)
<1>1. /\ frames \in Seq(FrameType) /\ n \in Nat /\ f \in FrameType /\ f.node \in Node
      /\ root \in Roots /\ StackFits(frames) /\ f.idx \in Nat
      /\ frames # <<>> => Current.kid \in Nat /\ Current = frames[n]
  BY StackTypes DEF WalkInv, Enters, FrameType, TilingInv, Current
<1>2. /\ gs \in Seq(FrameType) /\ Len(gs) = n + 1 /\ gs[n + 1] = f /\ frames' = gs
      /\ \A i \in 1 .. n : gs[i] = frames[i]
      /\ gs # <<>> /\ UNCHANGED dim_skew
  BY <1>1, AppendProperties DEF Enters
<1>3. StackShape(gs, root)
  BY <1>2 DEF WalkInv
<1> HIDE DEF gs
<1>4. FrameFits(f) /\ f.node \in NodesOf[root]
  <2>1. n + 1 \in 1 .. Len(gs)
    BY <1>1, <1>2
  <2>2. FrameFits(gs[n + 1]) /\ gs[n + 1].node \in NodesOf[root]
    BY <1>1, <1>3, <2>1, StackFrame, StackNodes
  <2> QED  BY <1>2, <2>2
<1>5. IF frames = <<>> THEN f.node = root /\ f.idx = 1 ELSE EnteredFrom(Current, f)
  <2>1. CASE frames = <<>>
    <3>1. gs[1] = f
      BY <1>2, <2>1
    <3> QED  BY <1>2, <1>3, <2>1, <3>1 DEF StackShape
  <2>2. CASE frames # <<>>
    <3>1. n + 1 \in 1 .. Len(gs) /\ n + 1 > 1 /\ n + 1 - 1 = n
      BY <1>1, <1>2, <2>2
    <3>2. EnteredFrom(gs[n + 1 - 1], gs[n + 1])
      BY <1>3, <3>1, StackFrame
    <3>3. gs[n] = frames[n]
      BY <1>1, <1>2, <2>2
    <3> QED  BY <1>1, <1>2, <2>2, <3>1, <3>2, <3>3
  <2> QED  BY <2>1, <2>2
<1>6. ASSUME NEW d
      PROVE  /\ Origin(gs, n, d) = Origin(frames, n, d)
             /\ LastTo(gs, n, d) <=> LastTo(frames, n, d)
  <2>1. \A i \in 1 .. n : Alike(gs[i], frames[i])
    BY <1>2 DEF Alike
  <2>2. n \in Nat
    BY <1>1
  <2> HIDE DEF n
  <2> QED  BY <2>1, <2>2, LevelAlike
<1>7. ASSUME IsLoop(f)
      PROVE  /\ e \in Dim /\ f.start = 0 /\ f.moved = 0 /\ f.kid = 0 /\ f.from = dim_skew[e]
             /\ f.end = IF LastTo(frames, n, e) THEN LoopOf(f.node, e).res ELSE LoopOf(f.node, e).end
  <2>1. e \in Dim /\ LoopOf(f.node, e) = Tree[f.node].loops[f.idx]
    BY <1>1, <1>4, <1>7, LoopOfFrame
  <2>2. f = LoopFrame(f.node, f.idx)
    BY <1>7 DEF Enters, IsLoop
  <2>3. Tree[f.node].loops[f.idx].dim = e
    BY DEF DimOf
  <2>4. /\ f.start = 0 /\ f.moved = 0 /\ f.kid = 0
        /\ f.from = LoopFrame(f.node, f.idx).from /\ f.end = LoopFrame(f.node, f.idx).end
    BY <1>7, <2>2, EnteredAtZero
  <2>5. /\ f.start = 0 /\ f.moved = 0 /\ f.kid = 0 /\ f.from = dim_skew[e]
        /\ f.end = IF Parent(f.node) = nullptr \/ isLastLoop(e) THEN LoopOf(f.node, e).res
                   ELSE LoopOf(f.node, e).end
    BY <2>1, <2>3, <2>4 DEF LoopFrame
  <2>6. ~Testing(e)
    <3>1. frames # <<>> => Current.kid > 0
      <4>1. ASSUME frames # <<>> PROVE Current.kid # 0
        <5>1. InChild(Current, f)
          BY <4>1 DEF Enters
        <5>2. CASE f.idx > 1
          BY <5>1, <5>2 DEF InChild
        <5>3. CASE ~(f.idx > 1)
          <6>1. Current.kid \in DOMAIN Kids(Current.node)
            BY <5>1, <5>3 DEF InChild
          <6>2. Current.node \in Node
            BY <4>1, StackTypes
          <6>3. Kids(Current.node) \in Seq(Node)
            BY <6>2, KidsAfter
          <6> QED  BY <6>1, <6>3
        <5> QED  BY <5>2, <5>3
      <4> QED  BY <1>1, <4>1
    <3> QED  BY <3>1 DEF Testing
  <2>7. isLastLoop(e) <=> LastTo(frames, n, e)
    BY <2>1, <2>6, LastIsTold
  <2>8. Parent(f.node) = nullptr => LastTo(frames, n, e)
    BY <1>1, <1>4, <1>5, <1>7, EnteredLevel
  <2> QED  BY <2>1, <2>5, <2>7, <2>8
<1>8. IsLoop(f) => LoopFits(gs, n + 1)
  <2> SUFFICES ASSUME IsLoop(f) PROVE LoopFits(gs, n + 1)
    OBVIOUS
  <2>1. e \in Dim /\ e \in LoopDims(f.node)
    BY <1>1, <1>4, LoopOfFrame DEF TileLoops
  <2>2. LoopOf(f.node, e).res \in Nat \ {0} /\ LoopOf(f.node, e).end \in Nat \ {0}
    BY <1>1, <1>4, <2>1, RunsPositive
  <2>3. 0 <= f.end
    BY <1>7, <2>2
  <2>4. 0 = 0 * Offsets[e][f.node].step
    <3>1. Offsets[e][f.node].step \in Int
      BY <1>1, <2>1, OffsetsType
    <3> QED  BY <3>1
  <2>5. f.from = Origin(frames, n, e)
    BY <1>7, <2>1 DEF TilingInv
  <2>6. n + 1 - 1 = n
    BY <1>1
  <2> QED  BY <1>2, <1>6, <1>7, <2>3, <2>4, <2>5, <2>6 DEF LoopFits
<1>9. StackFits(gs)
  <2>1. n + 1 > 1 => frames # <<>>
    BY <1>1
  <2>2. Len(gs) > 1 => InChild(frames[n], f)
    BY <1>1, <1>2, <2>1 DEF Enters
  <2>3. Len(gs) - 1 = n
    BY <1>1, <1>2
  <2> QED  BY <1>1, <1>2, <1>8, <2>2, <2>3, FitsOnTop
<1>10. ASSUME NEW d \in Dim PROVE dim_skew[d] = Origin(gs, n + 1, d)
  <2>1. n + 1 \in Nat \ {0} /\ n + 1 - 1 = n /\ dim_skew[d] = Origin(frames, n, d) /\ dim_skew[d] \in Int
    BY <1>1 DEF TilingInv, WalkInv
  <2>2. CASE OverDim(f, d)
    <3>1. Origin(gs, n + 1, d) = f.from + f.moved /\ IsLoop(f) /\ e = d
      BY <1>2, <2>1, <2>2, LevelStep DEF OverDim
    <3> QED  BY <1>7, <2>1, <3>1
  <2>3. CASE ~OverDim(f, d)
    BY <1>2, <1>6, <2>1, <2>3, LevelStep
  <2> QED  BY <2>2, <2>3
<1> QED  BY <1>2, <1>9, <1>10 DEF TilingInv

\* gs is the stack fs down to frame m, which goes on to its next child.
SteppedTo(fs, gs, m) ==
  /\ gs \in Seq(FrameType) /\ Len(gs) = m /\ gs # <<>>
  /\ \A i \in 1 .. m - 1 : gs[i] = fs[i]
  /\ gs[m] = Step(fs[m])

\* The innermost frame goes on.
LEMMA ReplacedIs ==
  ASSUME WalkInv, frames # <<>>
  PROVE  SteppedTo(frames, Replace(Step(Current)), Len(frames))
<1>1. frames \in Seq(FrameType) /\ Len(frames) \in Nat /\ Len(frames) >= 1 /\ Current \in FrameType
  BY StackTypes
<1>2. Step(Current) \in FrameType
  BY <1>1, GoesOn
<1> DEFINE gs == [frames EXCEPT ![Len(frames)] = Step(Current)]
<1>3. /\ gs \in Seq(FrameType) /\ Len(gs) = Len(frames) /\ gs # <<>>
      /\ gs[Len(frames)] = Step(Current)
      /\ \A i \in 1 .. Len(frames) : i # Len(frames) => gs[i] = frames[i]
  BY <1>1, <1>2, ReplaceTop
<1> HIDE DEF gs
<1>4. \A i \in 1 .. Len(frames) - 1 : gs[i] = frames[i]
  BY <1>1, <1>3
<1>5. SteppedTo(frames, gs, Len(frames))
  BY <1>3, <1>4 DEF SteppedTo, Current
<1> QED  BY <1>5 DEF gs, Replace

\* The frame under the innermost one goes on.
LEMMA ReturnedIs ==
  ASSUME WalkInv, frames # <<>>
  PROVE  /\ Len(frames) = 1 => Returned = <<>>
         /\ Len(frames) > 1 => SteppedTo(frames, Returned, Len(frames) - 1)
<1>1. frames \in Seq(FrameType) /\ Len(frames) \in Nat /\ Len(frames) >= 1
  BY StackTypes
<1>2. /\ Under1 \in Seq(FrameType) /\ Len(Under1) = Len(frames) - 1
      /\ \A i \in 1 .. Len(frames) - 1 : Under1[i] = frames[i]
  BY <1>1, DropTop DEF Under1
<1>3. CASE Len(frames) = 1
  <2>1. Under1 = <<>>
    BY <1>2, <1>3
  <2> QED  BY <1>3, <2>1 DEF Returned, Under1
<1>4. CASE Len(frames) > 1
  <2> DEFINE g == Under1[Len(Under1)]
             gs == [Under1 EXCEPT ![Len(Under1)] = Step(g)]
             m == Len(frames) - 1
  <2>1. Under1 # <<>> /\ m \in Nat /\ m >= 1
    BY <1>1, <1>2, <1>4
  <2>2. Returned = gs
    BY <2>1 DEF Returned, Under1
  <2>3. g \in FrameType /\ g = frames[m]
    BY <1>2, <2>1
  <2>4. Step(g) \in FrameType
    BY <2>3, GoesOn
  <2>5. /\ gs \in Seq(FrameType) /\ Len(gs) = Len(Under1) /\ gs # <<>>
        /\ gs[Len(Under1)] = Step(g)
        /\ \A i \in 1 .. Len(Under1) : i # Len(Under1) => gs[i] = Under1[i]
    <3> HIDE DEF g
    <3> QED  BY <1>2, <2>1, <2>4, ReplaceTop
  <2> HIDE DEF gs, g, m
  <2>6. Len(Under1) = m
    BY <1>2 DEF m
  <2>7. \A i \in 1 .. m - 1 : gs[i] = frames[i]
    <3>1. \A i \in 1 .. m - 1 : i \in 1 .. m /\ i # m
      BY <2>1
    <3> QED  BY <1>2, <2>5, <2>6, <3>1 DEF m
  <2>8. SteppedTo(frames, gs, m)
    BY <2>3, <2>5, <2>6, <2>7 DEF SteppedTo
  <2>9. SteppedTo(frames, Returned, m)
    BY <2>2, <2>8
  <2>10. Len(frames) # 1
    <3> DEFINE k == Len(frames)
    <3>1. k > 1
      BY <1>4
    <3> HIDE DEF k
    <3>2. k # 1
      BY <3>1
    <3> QED  BY <3>2 DEF k
  <2> QED  BY <2>9, <2>10, Zenon DEF m
<1> QED  BY <1>1, <1>3, <1>4

\* The levels of a stack do not tell to which child the frames have come.
LEMMA SteppedAlike ==
  ASSUME NEW fs \in Seq(FrameType), NEW m \in 1 .. Len(fs), NEW gs, SteppedTo(fs, gs, m)
  PROVE  /\ \A i \in 1 .. m : Alike(gs[i], fs[i])
         /\ gs[m].kid = fs[m].kid + 1 /\ fs[m].kid \in Nat
         /\ \A i \in 0 .. m : \A d :
              /\ Origin(gs, i, d) = Origin(fs, i, d)
              /\ LastTo(gs, i, d) <=> LastTo(fs, i, d)
              /\ Span(gs, i, d) = Span(fs, i, d)
<1>1. fs[m] \in FrameType /\ Len(fs) \in Nat
  OBVIOUS
<1>2. Alike(gs[m], fs[m]) /\ gs[m].kid = fs[m].kid + 1
  BY <1>1, GoesOn DEF SteppedTo
<1>3. ASSUME NEW i \in 1 .. m PROVE Alike(gs[i], fs[i])
  <2>1. CASE i = m
    BY <1>2, <2>1
  <2>2. CASE i # m
    <3>1. i \in 1 .. m - 1
      BY <1>1, <2>2
    <3> QED  BY <3>1 DEF SteppedTo, Alike
  <2> QED  BY <2>1, <2>2
<1>4. ASSUME NEW i \in 0 .. m, NEW d
      PROVE  /\ Origin(gs, i, d) = Origin(fs, i, d)
             /\ LastTo(gs, i, d) <=> LastTo(fs, i, d)
             /\ Span(gs, i, d) = Span(fs, i, d)
  <2>1. i \in Nat /\ \A j \in 1 .. i : j \in 1 .. m
    BY <1>1
  <2> QED  BY <1>3, <2>1, LevelAlike
<1>5. fs[m].kid \in Nat
  BY <1>1 DEF FrameType
<1> QED  BY <1>2, <1>3, <1>4, <1>5

\* What alike frames have in common.
LEMMA AlikeFrames ==
  ASSUME NEW f, NEW g, Alike(f, g)
  PROVE  /\ f.node = g.node /\ f.idx = g.idx /\ f.start = g.start /\ f.end = g.end
         /\ f.moved = g.moved /\ f.from = g.from
         /\ IsLoop(f) <=> IsLoop(g)
         /\ DimOf(f) = DimOf(g)
<1>1. Activation(f).start = Activation(g).start /\ Activation(f).end = Activation(g).end
      /\ Activation(f).moved = Activation(g).moved /\ Activation(f).from = Activation(g).from
  BY DEF Alike
<1> QED  BY <1>1 DEF Alike, Activation, IsLoop, DimOf

\* A stack whose innermost frame goes on still fits together.
LEMMA FitsStep ==
  ASSUME NEW fs \in Seq(FrameType), StackFits(fs), NEW m \in 1 .. Len(fs), NEW gs,
         SteppedTo(fs, gs, m), IsLoop(fs[m]) => fs[m].start < fs[m].end
  PROVE  StackFits(gs)
<1>1. /\ gs \in Seq(FrameType) /\ Len(gs) = m /\ gs # <<>> /\ Len(fs) \in Nat
      /\ \A i \in 1 .. m - 1 : gs[i] = fs[i]
  BY DEF SteppedTo
<1>2. /\ gs[m].node = fs[m].node /\ gs[m].idx = fs[m].idx /\ gs[m].start = fs[m].start
      /\ gs[m].end = fs[m].end /\ gs[m].moved = fs[m].moved /\ gs[m].from = fs[m].from
      /\ IsLoop(gs[m]) <=> IsLoop(fs[m])
      /\ DimOf(gs[m]) = DimOf(fs[m])
  <2>1. m \in 1 .. m
    BY <1>1
  <2>2. Alike(gs[m], fs[m])
    BY <2>1, SteppedAlike
  <2> QED  BY <2>2, AlikeFrames
<1>3. IsLoop(gs[m]) => LoopFits(gs, m)
  <2> SUFFICES ASSUME IsLoop(gs[m]) PROVE LoopFits(gs, m)
    OBVIOUS
  <2>1. IsLoop(fs[m]) /\ LoopFits(fs, m) /\ fs[m].start < fs[m].end
    BY <1>2 DEF StackFits
  <2>2. m - 1 \in 0 .. m
    BY <1>1
  <2>3. ASSUME NEW d
        PROVE  /\ Origin(gs, m - 1, d) = Origin(fs, m - 1, d)
               /\ LastTo(gs, m - 1, d) <=> LastTo(fs, m - 1, d)
    BY <2>2, SteppedAlike
  <2> QED  BY <1>2, <2>1, <2>3 DEF LoopFits
<1>4. Len(gs) > 1 => InChild(fs[m - 1], gs[m])
  <2> SUFFICES ASSUME Len(gs) > 1 PROVE InChild(fs[m - 1], gs[m])
    OBVIOUS
  <2>1. m \in 2 .. Len(fs)
    BY <1>1
  <2>2. InChild(fs[m - 1], fs[m])
    BY <2>1 DEF StackFits
  <2> QED  BY <1>2, <2>2 DEF InChild
<1>5. Len(gs) - 1 <= Len(fs)
  BY <1>1
<1> QED  BY <1>1, <1>3, <1>4, <1>5, FitsOnTop

\* A frame that has entered another one is in its body.
LEMMA InBodyBelow ==
  ASSUME WalkInv, TilingInv, NEW i \in 1 .. Len(frames) - 1
  PROVE  /\ frames[i].kid \in Nat /\ frames[i].kid > 0 /\ InChild(frames[i], frames[i + 1])
         /\ IsLoop(frames[i]) => frames[i].start < frames[i].end
<1>1. StackShape(frames, root) /\ Len(frames) \in Nat /\ StackFits(frames)
  BY StackTypes DEF WalkInv, TilingInv
<1>2. i \in 1 .. Len(frames) /\ i + 1 \in 1 .. Len(frames) /\ i + 1 \in 2 .. Len(frames) /\ i + 1 - 1 = i
  BY <1>1
<1>3. frames[i] \in FrameType /\ frames[i].node \in Node
  BY <1>1, <1>2, StackFrame
<1>4. InChild(frames[i], frames[i + 1])
  BY <1>1, <1>2 DEF StackFits
<1>5. frames[i].kid \in Nat
  BY <1>3 DEF FrameType
<1>6. Kids(frames[i].node) \in Seq(Node)
  BY <1>3, KidsAfter
<1>7. frames[i].kid # 0
  <2>1. 0 \notin DOMAIN Kids(frames[i].node)
    BY <1>6
  <2> QED  BY <1>4, <2>1 DEF InChild
<1>8. frames[i].kid > 0
  BY <1>5, <1>7
<1>9. IsLoop(frames[i]) => frames[i].start < frames[i].end
  BY <1>1, <1>2, <1>8 DEF StackFits, LoopFits
<1> QED  BY <1>4, <1>5, <1>8, <1>9

\* Beginning an iteration and visiting a leaf keep the stack a path.
LEMMA ReplaceFits ==
  ASSUME WalkInv, TilingInv, Begins \/ VisitsLeaf
  PROVE  TilingInv'
<1> DEFINE n == Len(frames)
<1>1. /\ frames # <<>> /\ frames' = Replace(Step(Current)) /\ UNCHANGED dim_skew
      /\ StackFits(frames)
  BY DEF Begins, VisitsLeaf, TilingInv
<1>2. /\ frames \in Seq(FrameType) /\ n \in Nat /\ n \in 1 .. n /\ Current \in FrameType
      /\ n \in 0 .. n
  BY <1>1, StackTypes
<1>3. SteppedTo(frames, frames', n)
  BY <1>1, ReplacedIs
<1>4. IsLoop(frames[n]) => frames[n].start < frames[n].end
  <2>1. CASE Begins
    BY <2>1 DEF Begins, Current
  <2>2. CASE VisitsLeaf
    <3>1. Current.kid > 0
      BY <1>2, <2>2, StepsType DEF VisitsLeaf
    <3>2. IsLoop(Current) => LoopFits(frames, n)
      BY <1>1, <1>2 DEF StackFits, Current
    <3> QED  BY <3>1, <3>2 DEF LoopFits, Current
  <2> QED  BY <2>1, <2>2
<1>5. StackFits(frames')
  <2> DEFINE gs == frames'
  <2>1. SteppedTo(frames, gs, n)
    BY <1>3
  <2> HIDE DEF gs, n
  <2>2. StackFits(gs)
    BY <1>1, <1>2, <1>4, <2>1, FitsStep DEF n
  <2> QED  BY <2>2 DEF gs
<1>6. ASSUME NEW d \in Dim PROVE Origin(frames', n, d) = Origin(frames, n, d)
  BY <1>2, <1>3, SteppedAlike
<1>7. Len(frames') = n
  BY <1>3 DEF SteppedTo
<1> QED  BY <1>1, <1>5, <1>6, <1>7 DEF TilingInv

\* The end of an iteration keeps the stack a path.
LEMMA EndFits ==
  ASSUME WalkInv, TilingInv, EndsBody
  PROVE  TilingInv'
<1> DEFINE n == Len(frames)
           c == Current
           e == DimOf(Current)
           step == Offsets[e][Current.node].step
           f == [Current EXCEPT !.kid = 0, !.start = @ + 1, !.moved = @ + step]
           gs == [frames EXCEPT ![Len(frames)] = f]
<1>1. /\ frames # <<>> /\ IsLoop(c) /\ c.kid > Steps(c) /\ frames' = gs
      /\ dim_skew' = [dim_skew EXCEPT ![e] = @ + step] /\ StackFits(frames)
  BY DEF EndsBody, TilingInv, Replace
<1>2. /\ frames \in Seq(FrameType) /\ n \in Nat \ {0} /\ c \in FrameType /\ FrameFits(c)
      /\ c.node \in Node /\ c.kid \in Nat
  BY <1>1, StackTypes
<1>3. e \in Dim
  BY <1>1, <1>2, LoopOfFrame
<1>4. step \in Int
  BY <1>2, <1>3, OffsetsType
<1>5. /\ f \in FrameType /\ f.node = c.node /\ f.idx = c.idx /\ f.start = c.start + 1
      /\ f.end = c.end /\ f.moved = c.moved + step /\ f.from = c.from /\ f.kid = 0
  <2>1. f \in FrameType
    <3> HIDE DEF step
    <3> QED  BY <1>2, <1>4, FrameAdvanced
  <2> HIDE DEF step
  <2> QED  BY <1>2, <2>1 DEF FrameType
<1> HIDE DEF f
<1>6. /\ gs \in Seq(FrameType) /\ Len(gs) = n /\ gs # <<>> /\ gs[n] = f
      /\ \A i \in 1 .. n : i # n => gs[i] = frames[i]
  BY <1>1, <1>2, <1>5, ReplaceTop
<1> HIDE DEF gs
<1>7. \A i \in 1 .. n - 1 : gs[i] = frames[i]
  BY <1>2, <1>6
<1>8. ASSUME NEW d
      PROVE  /\ Origin(gs, n - 1, d) = Origin(frames, n - 1, d)
             /\ LastTo(gs, n - 1, d) <=> LastTo(frames, n - 1, d)
  <2>1. \A j \in 1 .. n - 1 : Alike(gs[j], frames[j])
    BY <1>7 DEF Alike
  <2>2. n - 1 \in Nat
    BY <1>2
  <2> HIDE DEF n
  <2> QED  BY <2>1, <2>2, LevelAlike
<1>9. LoopFits(frames, n) /\ frames[n] = c
  BY <1>1, <1>2 DEF StackFits, Current
<1>10. c.start < c.end /\ c.start \in Nat /\ c.end \in Int /\ c.moved \in Int /\ c.from \in Int
  <2>1. c.kid > 0
    <3>1. Steps(c) \in Nat
      BY <1>2, StepsType
    <3> QED  BY <1>1, <1>2, <3>1
  <2>2. c.start < c.end
    BY <1>9, <2>1 DEF LoopFits
  <2> QED  BY <1>2, <2>2 DEF FrameType
<1>11. IsLoop(f) /\ DimOf(f) = e
  BY <1>1, <1>5 DEF IsLoop, DimOf
<1>12. LoopFits(gs, n)
  <2>1. /\ c.from = Origin(frames, n - 1, e)
        /\ c.end = IF LastTo(frames, n - 1, e) THEN LoopOf(c.node, e).res ELSE LoopOf(c.node, e).end
        /\ c.moved = c.start * step
    BY <1>9 DEF LoopFits
  <2>2. (c.start + 1) * step = c.start * step + step
    BY <1>4, <1>10
  <2>3. f.start <= f.end /\ ~(f.kid > 0)
    BY <1>5, <1>10
  <2>4. /\ f.from = Origin(gs, n - 1, e)
        /\ f.end = IF LastTo(gs, n - 1, e) THEN LoopOf(f.node, e).res ELSE LoopOf(f.node, e).end
    BY <1>5, <1>8, <2>1
  <2>5. f.moved = f.start * step
    BY <1>5, <2>1, <2>2
  <2> QED  BY <1>5, <1>6, <1>11, <2>3, <2>4, <2>5 DEF LoopFits
<1>13. StackFits(gs)
  <2>1. n > 1 => InChild(frames[n - 1], f)
    <3> SUFFICES ASSUME n > 1 PROVE InChild(frames[n - 1], f)
      OBVIOUS
    <3>1. n \in 2 .. n
      BY <1>2
    <3>2. InChild(frames[n - 1], frames[n])
      BY <1>1, <3>1 DEF StackFits
    <3> QED  BY <1>5, <1>9, <3>2 DEF InChild
  <2>2. Len(gs) - 1 <= Len(frames)
    BY <1>2, <1>6
  <2> QED  BY <1>1, <1>2, <1>6, <1>7, <1>12, <2>1, <2>2, FitsOnTop
<1>14. ASSUME NEW d \in Dim PROVE dim_skew'[d] = Origin(gs, n, d)
  <2>1. dim_skew[d] = Origin(frames, n, d) /\ dim_skew \in [Dim -> Int]
    BY DEF TilingInv, WalkInv
  <2>2. CASE d = e
    <3>1. OverDim(f, d) /\ OverDim(c, d)
      BY <1>1, <1>11, <2>2 DEF OverDim
    <3>2. Origin(gs, n, d) = f.from + f.moved /\ Origin(frames, n, d) = c.from + c.moved
      BY <1>2, <1>6, <1>9, <3>1, LevelStep
    <3>3. dim_skew'[d] = dim_skew[d] + step
      <4> HIDE DEF e, step
      <4> QED  BY <1>1, <2>1, <2>2
    <3>4. c.from + c.moved + step = c.from + (c.moved + step)
      BY <1>4, <1>10
    <3> QED  BY <1>5, <2>1, <3>2, <3>3, <3>4
  <2>3. CASE d # e
    <3>1. ~OverDim(f, d) /\ ~OverDim(c, d)
      BY <1>11, <2>3 DEF OverDim
    <3>2. Origin(gs, n, d) = Origin(gs, n - 1, d) /\ Origin(frames, n, d) = Origin(frames, n - 1, d)
      BY <1>2, <1>6, <1>9, <3>1, LevelStep
    <3>3. dim_skew'[d] = dim_skew[d]
      <4> HIDE DEF e, step
      <4> QED  BY <1>1, <2>1, <2>3
    <3> QED  BY <1>8, <2>1, <3>2, <3>3
  <2> QED  BY <2>2, <2>3
<1> QED  BY <1>1, <1>6, <1>13, <1>14 DEF TilingInv

\* Returning keeps the stack a path.
LEMMA ReturnFits ==
  ASSUME WalkInv, TilingInv, Returns
  PROVE  TilingInv'
<1> DEFINE n == Len(frames)
           c == Current
           e == DimOf(Current)
<1>1. frames # <<>> /\ frames' = Returned /\ StackFits(frames)
  BY DEF Returns, TilingInv
<1>2. /\ frames \in Seq(FrameType) /\ n \in Nat \ {0} /\ c \in FrameType /\ FrameFits(c)
      /\ c = frames[n]
  BY <1>1, StackTypes DEF Current
<1>3. ASSUME NEW d \in Dim PROVE dim_skew'[d] = Origin(frames, n - 1, d)
  <2>1. dim_skew[d] = Origin(frames, n, d) /\ dim_skew \in [Dim -> Int]
    BY DEF TilingInv, WalkInv
  <2>2. CASE OverDim(c, d)
    <3>1. Origin(frames, n, d) = c.from + c.moved
      BY <1>2, <2>2, LevelStep
    <3>2. e = d /\ IsLoop(c) /\ dim_skew' = [dim_skew EXCEPT ![e] = @ - c.moved]
      BY <2>2 DEF OverDim, Returns, Restored
    <3>3. dim_skew'[d] = dim_skew[d] - c.moved
      BY <2>1, <3>2
    <3>4. LoopFits(frames, n)
      BY <1>1, <1>2, <3>2 DEF StackFits
    <3>5. c.from = Origin(frames, n - 1, d)
      BY <1>2, <3>2, <3>4 DEF LoopFits
    <3>6. c.from \in Int /\ c.moved \in Int
      BY <1>2 DEF FrameType
    <3> QED  BY <2>1, <3>1, <3>3, <3>5, <3>6
  <2>3. CASE ~OverDim(c, d)
    <3>1. Origin(frames, n, d) = Origin(frames, n - 1, d)
      BY <1>2, <2>3, LevelStep
    <3>2. dim_skew'[d] = dim_skew[d]
      <4>1. IsLoop(c) => e # d
        BY <2>3 DEF OverDim
      <4>2. CASE ~IsLoop(c)
        BY <4>2 DEF Returns
      <4>3. CASE IsLoop(c)
        <5>1. dim_skew' = [dim_skew EXCEPT ![e] = @ - c.moved]
          BY <4>3 DEF Returns, Restored
        <5> HIDE DEF e
        <5> QED  BY <2>1, <4>1, <4>3, <5>1
      <4> QED  BY <4>2, <4>3
    <3> QED  BY <2>1, <3>1, <3>2
  <2> QED  BY <2>2, <2>3
<1>4. CASE n = 1
  <2>1. frames' = <<>> /\ Len(frames') = 0
    BY <1>1, <1>4, ReturnedIs
  <2>2. StackFits(frames')
    BY <2>1 DEF StackFits
  <2>3. ASSUME NEW d \in Dim PROVE dim_skew'[d] = Origin(frames', 0, d)
    <3>1. n - 1 = 0
      BY <1>4
    <3>2. Origin(frames, 0, d) = 0 /\ Origin(frames', 0, d) = 0
      BY LevelBase
    <3> QED  BY <1>3, <3>1, <3>2
  <2> QED  BY <2>1, <2>2, <2>3 DEF TilingInv
<1>5. CASE n # 1
  <2> DEFINE m == n - 1
             gs == frames'
  <2>1. n > 1 /\ m \in 1 .. n /\ m \in 0 .. m /\ m \in 1 .. n - 1
    <3>1. n \in Nat \ {0}
      BY <1>2
    <3> HIDE DEF n
    <3> QED  BY <1>5, <3>1
  <2>2. SteppedTo(frames, gs, m)
    BY <1>1, <2>1, ReturnedIs
  <2>3. IsLoop(frames[m]) => frames[m].start < frames[m].end
    BY <2>1, InBodyBelow
  <2>4. Len(gs) = m
    BY <2>2 DEF SteppedTo
  <2> HIDE DEF m, gs
  <2>5. StackFits(gs)
    BY <1>1, <1>2, <2>1, <2>2, <2>3, FitsStep
  <2>6. ASSUME NEW d \in Dim PROVE dim_skew'[d] = Origin(gs, m, d)
    <3>1. Origin(gs, m, d) = Origin(frames, m, d)
      BY <1>2, <2>1, <2>2, SteppedAlike
    <3> QED  BY <1>3, <3>1 DEF m
  <2> QED  BY <2>4, <2>5, <2>6 DEF TilingInv, gs
<1> QED  BY <1>4, <1>5

-----------------------------------------------------------------------------
(* Every step of the performance analysis is one of these.                  *)

\* The analysis goes on, or has failed.
GoesOrFails == outcome' = outcome \/ outcome' \notin {"walking", "finished"}

\* The outcomes of a transfer.
LEMMA TransferOutcomes ==
  ASSUME NEW S, NEW source, NEW target, NEW dm, NEW n, NEW a, NEW b,
         S \in {Transfers(source, target, dm), Free, getOutputLatency(n, dm),
                getInputLatency(n, a, b)},
         NEW r \in S
  PROVE  r.outcome \in {"computed", Abort, Undefined}
<1>1. ASSUME NEW x, NEW y, NEW z, NEW q \in Transfers(x, y, z)
      PROVE  q.outcome \in {"computed", Abort, Undefined}
  <2> DEFINE failed == {x, y} \cap {Abort, Undefined}
  <2>1. CASE failed # {}
    BY <1>1, <2>1 DEF Transfers, Result
  <2>2. CASE failed = {}
    BY <1>1, <2>2 DEF Transfers, Result
  <2> QED  BY <2>1, <2>2
<1>2. \A q \in Free : q.outcome \in {"computed", Abort, Undefined}
  BY DEF Free, Result
<1>3. ASSUME NEW q \in getInputLatency(n, a, b) PROVE q.outcome \in {"computed", Abort, Undefined}
  <2> DEFINE fromTrans == IF b > 0 THEN Transfers(findSource(n), Level(n), b) ELSE Free
             fromTile == IF a > 0 /\ findSource(n) # Level(n)
                         THEN Transfers(findSource(n), Level(n), a) ELSE Free
  <2>1. /\ \A t \in fromTrans : t.outcome \in {"computed", Abort, Undefined}
        /\ \A t \in fromTile : t.outcome \in {"computed", Abort, Undefined}
    BY <1>1, <1>2
  <2>2. PICK t \in fromTrans, u \in fromTile :
          q = IF t.outcome # "computed" THEN t ELSE [u EXCEPT !.latency = t.latency + u.latency]
    BY <1>3 DEF getInputLatency
  <2>3. [u EXCEPT !.latency = t.latency + u.latency].outcome = u.outcome
    <3>1. \E o, l : u = [outcome |-> o, latency |-> l]
      BY <2>2 DEF Transfers, Free, Result
    <3> HIDE DEF fromTrans, fromTile
    <3> QED  BY <3>1
  <2> HIDE DEF fromTrans, fromTile
  <2> QED  BY <2>1, <2>2, <2>3
<1> QED  BY <1>1, <1>2, <1>3 DEF getOutputLatency

\* What the head of an iteration does to the outcome.
LEMMA BeginOutcome ==
  ASSUME BeginIteration
  PROVE  GoesOrFails /\ UNCHANGED executed
<1> DEFINE n == Current.node
<1>1. CASE ~(isInnermost(Current) /\ isFirstLoop(n))
  BY <1>1 DEF BeginIteration, GoesOrFails
<1>2. CASE isInnermost(Current) /\ isFirstLoop(n)
  <2>1. MeasureTile(n)
    BY <1>2 DEF BeginIteration
  <2>2. \/ (outcome' = Undefined /\ UNCHANGED costVars)
        \/ (outcome' = Abort /\ UNCHANGED costVars)
        \/ addCurrentTensor(n)
    BY <2>1, Zenon DEF MeasureTile
  <2>3. CASE addCurrentTensor(n)
    <3>1. UNCHANGED executed
      BY <2>3 DEF addCurrentTensor
    <3>2. \E moved, dm, name : TransferTile(n, moved, dm, name)
      BY <2>3, Zenon DEF addCurrentTensor
    <3>3. PICK moved, dm, name : TransferTile(n, moved, dm, name)
      BY <3>2
    <3> DEFINE a == SumOver(LAMBDA t : moved[t], DOMAIN moved \ {name})
               b == SumOver(LAMBDA t : moved[t], DOMAIN moved \cap {name})
               S == IF Parent(n) = nullptr THEN Free ELSE getInputLatency(n, a, b)
               T == IF Parent(n) = nullptr THEN Free ELSE getOutputLatency(n, dm)
    <3>4. PICK i \in S, o \in T :
            outcome' = IF i.outcome # "computed" THEN i.outcome
                       ELSE IF o.outcome # "computed" THEN o.outcome ELSE outcome
      BY <3>3, Zenon DEF TransferTile
    <3>5. S \in {Free, getInputLatency(n, a, b)} /\ T \in {Free, getOutputLatency(n, dm)}
      OBVIOUS
    <3> HIDE DEF n, a, b, S, T
    <3>6. i.outcome \in {"computed", Abort, Undefined}
      BY <3>4, <3>5, TransferOutcomes
    <3>7. o.outcome \in {"computed", Abort, Undefined}
      BY <3>4, <3>5, TransferOutcomes
    <3> QED  BY <3>1, <3>4, <3>6, <3>7 DEF GoesOrFails, Abort, Undefined
  <2> QED  BY <2>2, <2>3 DEF GoesOrFails, costVars, Abort, Undefined
<1> QED  BY <1>1, <1>2

\* computeLatency fails, or the tile has its latency.
LEMMA LatencyOutcomes ==
  ASSUME NEW n, NEW v
  PROVE  LatencyOutcome(n, v) \notin {"walking", "finished"}
<1>1. \A i : Reaches(n, i) \in {Undefined, Abort, "found"}
  BY DEF Reaches
<1>2. \/ LatencyOutcome(n, v) \in {Abort, Undefined, "computed"}
      \/ \E i : LatencyOutcome(n, v) = Reaches(n, i)
  BY Zenon DEF LatencyOutcome
<1> QED  BY <1>1, <1>2 DEF Abort, Undefined

\* The walk ends with the frame that it started with.
LEMMA LoopReturns ==
  ASSUME WalkInv, ExitLoop
  PROVE  /\ outcome' = "walking" => Len(frames) > 1
         /\ outcome' = "finished" => Len(frames) = 1
<1> DEFINE n == Current.node
           k == Len(frames)
<1>1. /\ outcome = "walking" /\ frames # <<>> /\ k \in Nat /\ k >= 1 /\ k \in 1 .. k
      /\ StackShape(frames, root) /\ root \in Roots
  BY StackTypes DEF ExitLoop, Walking, WalkInv
<1>2. frames[1].node = root /\ frames[1].idx = 1 /\ Current = frames[k]
  BY <1>1 DEF StackShape, Current
<1>3. k = 1 <=> (n = root /\ Current.idx = 1)
  <2>1. k = 1 => n = root /\ Current.idx = 1
    BY <1>2
  <2>2. ASSUME n = root, Current.idx = 1, k # 1 PROVE FALSE
    <3>1. k > 1
      <4> HIDE DEF k
      <4> QED  BY <1>1, <2>2
    <3>2. k - 1 \in 1 .. k /\ EnteredFrom(frames[k - 1], frames[k])
      BY <1>1, <3>1, StackFrame
    <3>3. frames[k - 1].node \in Node
      BY <1>1, <3>2, StackFrame
    <3>4. Parent(root) = frames[k - 1].node
      BY <1>2, <2>2, <3>2 DEF EnteredFrom
    <3> QED  BY <1>1, <3>3, <3>4, NodesAreNumbers DEF Roots, nullptr
  <2> QED  BY <2>1, <2>2
<1>4. CASE Current.idx # 1
  <2>1. outcome' = outcome
    BY <1>4 DEF ExitLoop
  <2>2. k # 1
    BY <1>3, <1>4
  <2> HIDE DEF k
  <2>3. k > 1
    BY <1>1, <2>2
  <2> QED  BY <1>1, <2>1, <2>3 DEF k
<1>5. CASE Current.idx = 1
  <2>1. FinishTile(n, LatencyOutcome(n, latency_vec_[n]))
    BY <1>5 DEF ExitLoop
  <2>2. \/ outcome' \notin {"walking", "finished"}
        \/ outcome' = IF n = root THEN "finished" ELSE outcome
    BY <2>1, LatencyOutcomes DEF FinishTile
  <2>3. n = root => k = 1
    BY <1>3, <1>5
  <2>4. n # root => k # 1
    BY <1>3
  <2> HIDE DEF k, n
  <2>5. n # root => k > 1
    BY <1>1, <2>4
  <2> QED  BY <1>1, <2>2, <2>3, <2>5 DEF k
<1> QED  BY <1>4, <1>5

\* A Scope returns like a loop does: its tile has no child after it.
LEMMA ScopeReturns ==
  ASSUME WalkInv, TilingInv, ScopesLast(root), ExitScope
  PROVE  \/ Returns /\ outcome' = "walking" /\ Len(frames) > 1
         \/ UNCHANGED <<frames, dim_skew, executed>> /\ GoesOrFails
<1> DEFINE k == Len(frames)
           m == Len(frames) - 1
           us == SubSeq(frames, 1, Len(frames) - 1)
           c == frames[Len(frames) - 1]
<1>1. /\ frames # <<>> /\ ~IsLoop(Current) /\ Current.kid > Steps(Current)
      /\ outcome = "walking" /\ UNCHANGED <<dim_skew, executed>>
  BY DEF ExitScope, Walking
<1>2. /\ frames \in Seq(FrameType) /\ k \in Nat /\ k >= 1 /\ k \in 1 .. k
      /\ StackShape(frames, root) /\ StackFits(frames) /\ root \in Roots
      /\ Current \in FrameType /\ FrameFits(Current) /\ Current.idx \in Nat
  BY <1>1, StackTypes DEF WalkInv, TilingInv
<1>3. k > 1
  <2>1. frames[1].idx = 1
    BY <1>1, <1>2 DEF StackShape
  <2>2. k # 1
    BY <1>1, <2>1 DEF Current, IsLoop
  <2> HIDE DEF k
  <2> QED  BY <1>2, <2>2
<1>4. m \in 1 .. k /\ m \in Nat /\ k = m + 1 /\ k \in 2 .. k
  BY <1>2, <1>3
<1>5. /\ us \in Seq(FrameType) /\ Len(us) = m /\ \A i \in 1 .. m : us[i] = frames[i]
  BY <1>2, DropTop
<1>6. us # <<>> /\ us[Len(us)] = c /\ c \in FrameType /\ c = frames[m]
  <2>1. c \in FrameType
    BY <1>2, <1>4
  <2> HIDE DEF us
  <2>2. us # <<>> /\ us[Len(us)] = c
    BY <1>4, <1>5
  <2> QED  BY <2>1, <2>2
<1>7. Returned = [us EXCEPT ![Len(us)] = Step(c)]
  <2> HIDE DEF c
  <2> QED  BY <1>6 DEF Returned
<1>8. CASE latency_sub_vec_[Current.node] = <<>>
  <2>1. UNCHANGED frames /\ outcome' = Undefined
    BY <1>8 DEF ExitScope
  <2> QED  BY <1>1, <2>1 DEF GoesOrFails, Undefined
<1>9. CASE latency_sub_vec_[Current.node] # <<>> /\ ~IsLoop(c)
  <2>1. frames' = [us EXCEPT ![Len(us)] = Step(c)] /\ outcome' = outcome
    BY <1>9 DEF ExitScope
  <2> HIDE DEF us, c, k
  <2> QED  BY <1>1, <1>3, <1>7, <2>1 DEF Returns, k
<1>10. CASE latency_sub_vec_[Current.node] # <<>> /\ IsLoop(c)
  <2>1. frames' = [us EXCEPT ![Len(us)].kid = Steps(c) + 1] /\ outcome' = outcome
    BY <1>10 DEF ExitScope
  <2>2. Current.idx = 0 /\ Tree[Current.node].kind = "Scope"
    BY <1>1, <1>2 DEF FrameFits, IsLoop
  <2>3. InChild(c, Current) /\ EnteredFrom(c, Current)
    <3>1. InChild(frames[k - 1], frames[k])
      BY <1>2, <1>4 DEF StackFits
    <3>2. EnteredFrom(frames[k - 1], frames[k])
      BY <1>2, <1>4 DEF StackShape
    <3> QED  BY <3>1, <3>2 DEF Current
  <2>4. c.kid \in DOMAIN Kids(c.node) /\ Kids(c.node)[c.kid] = Current.node
    BY <2>2, <2>3 DEF InChild
  <2>5. VisitsChildren(c)
    BY <2>2, <2>3 DEF EnteredFrom
  <2>6. c.node \in NodesOf[root] /\ FrameFits(c)
    BY <1>2, <1>4, <1>6, StackNodes, StackFrame
  <2>7. isInnermost(c) /\ Tree[c.node].kind = "Tile"
    BY <1>10, <2>5, <2>6 DEF VisitsChildren, IsLoop, FrameFits
  <2>8. c.kid = Len(Kids(c.node))
    BY <2>2, <2>4, <2>6, <2>7 DEF ScopesLast
  <2>9. Steps(c) = c.kid
    BY <2>7, <2>8 DEF Steps
  <2>10. Step(c) = [c EXCEPT !.kid = Steps(c) + 1]
    BY <2>9 DEF Step
  <2>11. frames' = [us EXCEPT ![Len(us)] = [us[Len(us)] EXCEPT !.kid = Steps(c) + 1]]
    BY <2>1
  <2> HIDE DEF us, c, k
  <2>12. frames' = Returned
    BY <1>6, <1>7, <2>10, <2>11
  <2> QED  BY <1>1, <1>3, <2>1, <2>12 DEF Returns, k
<1> QED  BY <1>8, <1>9, <1>10

\* What the step of the performance analysis is.
WalkMove ==
  \/ (\E f : Enters(f)) /\ GoesOrFails
  \/ (Begins \/ VisitsLeaf \/ EndsBody) /\ GoesOrFails
  \/ UNCHANGED <<frames, dim_skew, executed>> /\ GoesOrFails
  \/ /\ Returns
     /\ outcome' = "walking" => Len(frames) > 1
     /\ outcome' = "finished" => Len(frames) = 1 /\ IsLoop(Current)

\* A tile is visited.
LEMMA TileMoves ==
  ASSUME WalkInv, NEW n \in Node, n \in NodesOf[root], visitTile(n),
         frames # <<>> => AtChild(Current) /\ n = Child(Current)
  PROVE  WalkMove
<1>1. UNCHANGED <<dim_skew, executed>> /\ Tree[n].kind = "Tile"
  BY DEF visitTile, costVars
<1>2. CASE Tree[n].loops = <<>>
  <2>1. UNCHANGED frames /\ outcome' = Undefined
    BY <1>2 DEF visitTile
  <2> QED  BY <1>1, <2>1 DEF WalkMove, GoesOrFails, Undefined
<1>3. CASE Tree[n].loops # <<>>
  <2> DEFINE f == LoopFrame(n, 1)
  <2>1. 1 \in 1 .. Len(Tree[n].loops)
    BY <1>3, TreeAssumption
  <2>2. f \in FrameType /\ f.node = n /\ f.idx = 1
    BY <1>1, <2>1, NewFrames
  <2>3. frames' = Append(frames, f) /\ outcome' = outcome
    BY <1>3 DEF visitTile
  <2>4. f = LoopFrame(f.node, f.idx) /\ f.idx # 0
    BY <2>2
  <2> HIDE DEF f
  <2>5. frames # <<>> => InChild(Current, f)
    <3> SUFFICES ASSUME frames # <<>> PROVE InChild(Current, f)
      OBVIOUS
    <3>1. Current.kid \in DOMAIN Kids(Current.node)
      BY StackTypes, StepsType
    <3> QED  BY <2>2, <3>1 DEF InChild, Child
  <2>6. Enters(f)
    BY <1>1, <2>2, <2>3, <2>4, <2>5 DEF Enters
  <2> QED  BY <2>3, <2>6 DEF WalkMove, GoesOrFails
<1> QED  BY <1>2, <1>3

\* Every step of the performance analysis is a step of one of these kinds.
LEMMA WalkMoves ==
  ASSUME WalkInv, TilingInv, ScopesLast(root), WalkNext
  PROVE  outcome = "walking" /\ WalkMove
<1>0. outcome = "walking"
  BY DEF WalkNext, Walking, StartWalk, EnterTile, EnterInnerLoop, BeginIteration, visitOp,
     visitTrans, EnterScope, ExitScope, EndIteration, ExitLoop
<1>1. CASE StartWalk
  <2>1. frames = <<>> /\ visitTile(root) /\ root \in Node /\ root \in NodesOf[root]
    BY <1>1, StackInTree DEF StartWalk, WalkInv, Roots
  <2> QED  BY <1>0, <2>1, TileMoves
<1>2. CASE EnterTile
  <2>1. frames # <<>> /\ AtChild(Current) /\ visitTile(Child(Current)) /\ Current \in FrameType
    BY <1>2, StackTypes DEF EnterTile
  <2>2. Child(Current) \in Node /\ Child(Current) \in NodesOf[root]
    BY <2>1, StepsType, StackInTree
  <2> QED  BY <1>0, <2>1, <2>2, TileMoves
<1>3. CASE EnterInnerLoop
  <2> DEFINE n == Current.node
             i == Current.idx + 1
             f == LoopFrame(n, i)
  <2>1. /\ frames # <<>> /\ IsLoop(Current) /\ ~isInnermost(Current) /\ Current.kid = 1
        /\ frames' = Append(frames, f) /\ UNCHANGED <<outcome, dim_skew, executed>>
    BY <1>3 DEF EnterInnerLoop, costVars
  <2>2. /\ Current \in FrameType /\ FrameFits(Current) /\ n \in Node /\ Current.idx \in Nat
    BY <2>1, StackTypes
  <2>3. Tree[n].kind = "Tile" /\ Current.idx \in 1 .. Len(Tree[n].loops)
        /\ Current.idx # Len(Tree[n].loops)
    BY <2>1, <2>2 DEF FrameFits, IsLoop, isInnermost
  <2>4. i \in 1 .. Len(Tree[n].loops) /\ i > 1
    <3>1. Len(Tree[n].loops) \in Nat
      BY <2>2, TreeAssumption
    <3> QED  BY <2>2, <2>3, <3>1
  <2>5. f \in FrameType /\ f.node = n /\ f.idx = i
    BY <2>1, <2>3, <2>4, NewFrames, StackInTree
  <2>6. f = LoopFrame(f.node, f.idx) /\ f.idx # 0
    BY <2>2, <2>4, <2>5
  <2> HIDE DEF f
  <2>7. InChild(Current, f)
    BY <2>1, <2>4, <2>5 DEF InChild
  <2>8. Enters(f)
    BY <2>1, <2>5, <2>6, <2>7 DEF Enters
  <2> QED  BY <1>0, <2>1, <2>8 DEF WalkMove, GoesOrFails
<1>4. CASE BeginIteration
  <2>1. /\ frames # <<>> /\ IsLoop(Current) /\ ~InBody(Current) /\ Current.start < Current.end
        /\ frames' = Replace(Step(Current)) /\ UNCHANGED dim_skew
    BY <1>4 DEF BeginIteration
  <2>2. GoesOrFails /\ UNCHANGED executed
    BY <1>4, BeginOutcome
  <2>3. Current.kid = 0
    <3>1. Current.kid \in Nat
      BY <2>1, StackTypes
    <3> QED  BY <2>1, <3>1 DEF InBody
  <2> QED  BY <1>0, <2>1, <2>2, <2>3 DEF WalkMove, Begins
<1>5. CASE visitOp
  <2>1. VisitsLeaf /\ outcome' = outcome
    BY <1>5 DEF visitOp, VisitsLeaf
  <2> QED  BY <1>0, <2>1 DEF WalkMove, GoesOrFails
<1>6. CASE visitTrans
  <2>1. VisitsLeaf
    BY <1>6 DEF visitTrans, VisitsLeaf
  <2>2. GoesOrFails
    <3> DEFINE x == Child(Current)
               S == IF PreviousLeaf(x) = nullptr THEN {Result(Undefined, 0)}
                    ELSE IF AfterTrans(x)
                    THEN Transfers(Level(PreviousLeaf(x)), Level(x), 0) ELSE Free
    <3>1. PICK r \in S : outcome' = IF r.outcome = "computed" THEN "walking" ELSE r.outcome
      BY <1>6, Zenon DEF visitTrans
    <3>2. S = {Result(Undefined, 0)} \/ S \in {Transfers(Level(PreviousLeaf(x)), Level(x), 0), Free}
      OBVIOUS
    <3> HIDE DEF S, x
    <3>3. r.outcome \in {"computed", Abort, Undefined}
      <4>1. CASE S = {Result(Undefined, 0)}
        BY <4>1 DEF Result
      <4>2. CASE S # {Result(Undefined, 0)}
        BY <3>1, <3>2, <4>2, TransferOutcomes
      <4> QED  BY <4>1, <4>2
    <3> QED  BY <1>0, <3>1, <3>3 DEF GoesOrFails, Abort, Undefined
  <2> QED  BY <1>0, <2>1, <2>2 DEF WalkMove
<1>7. CASE EnterScope
  <2> DEFINE s == Child(Current)
             f == ScopeFrame(s)
  <2>1. /\ frames # <<>> /\ AtChild(Current) /\ Tree[s].kind = "Scope"
        /\ frames' = Append(frames, f) /\ UNCHANGED <<outcome, dim_skew, executed>>
    BY <1>7 DEF EnterScope
  <2>2. Current \in FrameType
    BY <2>1, StackTypes
  <2>3. s \in Node /\ Current.kid \in DOMAIN Kids(Current.node)
    BY <2>1, <2>2, StepsType
  <2>4. f \in FrameType /\ f.node = s /\ f.idx = 0
    BY <2>1, NewFrames, StackInTree
  <2>5. f = ScopeFrame(f.node)
    BY <2>4
  <2> HIDE DEF f
  <2>6. InChild(Current, f)
    BY <2>3, <2>4 DEF InChild, Child
  <2>7. Enters(f)
    BY <2>1, <2>4, <2>5, <2>6 DEF Enters
  <2> QED  BY <1>0, <2>1, <2>7 DEF WalkMove, GoesOrFails
<1>8. CASE ExitScope
  BY <1>0, <1>8, ScopeReturns DEF WalkMove
<1>9. CASE EndIteration
  <2>1. EndsBody /\ outcome' = outcome
    BY <1>9 DEF EndIteration, EndsBody
  <2> QED  BY <1>0, <2>1 DEF WalkMove, GoesOrFails
<1>10. CASE ExitLoop
  <2>1. /\ frames # <<>> /\ IsLoop(Current) /\ ~InBody(Current) /\ Current.start >= Current.end
        /\ dim_skew' = Restored(Current) /\ frames' = Returned /\ UNCHANGED executed
    BY <1>10 DEF ExitLoop
  <2>2. Current.kid = 0
    <3>1. Current.kid \in Nat
      BY <2>1, StackTypes
    <3> QED  BY <2>1, <3>1 DEF InBody
  <2>3. Returns
    BY <2>1, <2>2 DEF Returns
  <2> QED  BY <1>0, <1>10, <2>1, <2>3, LoopReturns DEF WalkMove
<1> QED  BY <1>1, <1>2, <1>3, <1>4, <1>5, <1>6, <1>7, <1>8, <1>9, <1>10 DEF WalkNext

-----------------------------------------------------------------------------
(* The cells that the iterations cut the iteration space into.              *)

\* The mapping is regular, and the passes before the walk have accepted it.
Ready(r) == r \in Roots /\ OffsetsDefined(r) /\ Regular(r) /\ TopsCover(r)

\* p lies in what the iterations of the first i frames run through, as far as
\* operation o tells.
InCell(fs, i, o, p) ==
  \A d \in LoopDims(o) : Origin(fs, i, d) <= p[d] /\ p[d] < Origin(fs, i, d) + Span(fs, i, d)

\* p lies in an iteration that the loop of frame i has behind it.
DoneAt(fs, i, o, p) ==
  /\ IsLoop(fs[i]) /\ InCell(fs, i - 1, o, p)
  /\ fs[i].start >= fs[i].end \/ p[DimOf(fs[i])] < Origin(fs, i, DimOf(fs[i]))

\* The body of the frame is past, or just at, the child or the inner loop that
\* leads to o.
Passed(f, o) ==
  IF IsLoop(f) /\ ~isInnermost(f) THEN f.kid > 1
  ELSE \E q \in DOMAIN Kids(f.node) : Under(o, Kids(f.node)[q]) /\ f.kid > q
Toward(f, o) ==
  IF IsLoop(f) /\ ~isInnermost(f) THEN f.kid = 1
  ELSE f.kid \in DOMAIN Kids(f.node) /\ Under(o, Kids(f.node)[f.kid])

\* Operation o was executed at p, as frame i of the stack tells.
MadeAt(fs, i, o, p) ==
  /\ fs[i].node \in Above(o)
  /\ DoneAt(fs, i, o, p) \/ (Passed(fs[i], o) /\ InCell(fs, i, o, p))
Made(fs, o, p) == \E i \in 1 .. Len(fs) : MadeAt(fs, i, o, p)

\* Frames that are the same tell the same.
LEMMA MadeSame ==
  ASSUME NEW fs, NEW gs, NEW i \in Nat, \A j \in 1 .. i : gs[j] = fs[j], NEW o, NEW p
  PROVE  /\ InCell(gs, i, o, p) <=> InCell(fs, i, o, p)
         /\ i > 0 => /\ DoneAt(gs, i, o, p) <=> DoneAt(fs, i, o, p)
                     /\ MadeAt(gs, i, o, p) <=> MadeAt(fs, i, o, p)
<1>1. ASSUME NEW k \in 0 .. i, NEW d
      PROVE  Origin(gs, k, d) = Origin(fs, k, d) /\ Span(gs, k, d) = Span(fs, k, d)
  <2>1. k \in Nat /\ \A j \in 1 .. k : Alike(gs[j], fs[j])
    BY DEF Alike
  <2> QED  BY <2>1, LevelAlike
<1>2. ASSUME NEW k \in 0 .. i PROVE InCell(gs, k, o, p) <=> InCell(fs, k, o, p)
  BY <1>1 DEF InCell
<1>3. ASSUME i > 0 PROVE gs[i] = fs[i] /\ i - 1 \in 0 .. i /\ i \in 0 .. i
  BY <1>3
<1>4. i \in 0 .. i
  OBVIOUS
<1>5. i > 0 => (DoneAt(gs, i, o, p) <=> DoneAt(fs, i, o, p))
  BY <1>1, <1>2, <1>3 DEF DoneAt
<1> QED  BY <1>2, <1>3, <1>4, <1>5 DEF MadeAt

\* A frame that goes on has passed the child that it was at.
LEMMA PassedStep ==
  ASSUME NEW f \in FrameType, NEW o
  PROVE  Passed(Step(f), o) <=> (Passed(f, o) \/ Toward(f, o))
<1> DEFINE g == Step(f)
<1>1. /\ g.kid = f.kid + 1 /\ f.kid \in Nat /\ f.node \in Node
      /\ g.node = f.node /\ g.idx = f.idx
  BY DEF FrameType, Step
<1>2. (IsLoop(g) <=> IsLoop(f)) /\ (isInnermost(g) <=> isInnermost(f))
  BY <1>1 DEF IsLoop, isInnermost
<1>3. Kids(f.node) \in Seq(Node)
  BY <1>1, KidsAfter
<1> HIDE DEF g
<1>4. CASE IsLoop(f) /\ ~isInnermost(f)
  <2>1. g.kid > 1 <=> (f.kid > 1 \/ f.kid = 1)
    BY <1>1
  <2> QED  BY <1>2, <1>4, <2>1 DEF Passed, Toward, g
<1>5. CASE ~(IsLoop(f) /\ ~isInnermost(f))
  <2>1. \A q \in DOMAIN Kids(f.node) : g.kid > q <=> (f.kid > q \/ f.kid = q)
    BY <1>1, <1>3
  <2>2. Passed(g, o) <=> \E q \in DOMAIN Kids(f.node) : Under(o, Kids(f.node)[q]) /\ g.kid > q
    BY <1>1, <1>2, <1>5 DEF Passed
  <2> QED  BY <1>5, <2>1, <2>2 DEF Passed, Toward, g
<1> QED  BY <1>4, <1>5

\* What a stack tells whose innermost frame goes on.
LEMMA MadeStepped ==
  ASSUME NEW fs \in Seq(FrameType), NEW m \in 1 .. Len(fs), NEW gs, SteppedTo(fs, gs, m),
         NEW o, NEW p
  PROVE  /\ \A i \in 1 .. m - 1 : MadeAt(gs, i, o, p) <=> MadeAt(fs, i, o, p)
         /\ MadeAt(gs, m, o, p) <=>
              \/ MadeAt(fs, m, o, p)
              \/ fs[m].node \in Above(o) /\ Toward(fs[m], o) /\ InCell(fs, m, o, p)
<1>1. Len(fs) \in Nat /\ fs[m] \in FrameType /\ m \in Nat
  OBVIOUS
<1>2. ASSUME NEW i \in 1 .. m - 1 PROVE MadeAt(gs, i, o, p) <=> MadeAt(fs, i, o, p)
  <2>1. i \in Nat /\ i > 0 /\ \A j \in 1 .. i : gs[j] = fs[j]
    BY <1>1 DEF SteppedTo
  <2> QED  BY <2>1, MadeSame
<1>3. Alike(gs[m], fs[m]) /\ gs[m] = Step(fs[m])
  <2>1. m \in 1 .. m
    BY <1>1
  <2> QED  BY <2>1, SteppedAlike DEF SteppedTo
<1>4. /\ gs[m].node = fs[m].node /\ gs[m].start = fs[m].start /\ gs[m].end = fs[m].end
      /\ IsLoop(gs[m]) <=> IsLoop(fs[m])
      /\ DimOf(gs[m]) = DimOf(fs[m])
  BY <1>3, AlikeFrames
<1>5. ASSUME NEW k \in 0 .. m
      PROVE  /\ InCell(gs, k, o, p) <=> InCell(fs, k, o, p)
             /\ \A d : Origin(gs, k, d) = Origin(fs, k, d)
  <2>1. \A d : Origin(gs, k, d) = Origin(fs, k, d) /\ Span(gs, k, d) = Span(fs, k, d)
    BY SteppedAlike
  <2> QED  BY <2>1 DEF InCell
<1>6. m \in 0 .. m /\ m - 1 \in 0 .. m
  BY <1>1
<1>7. DoneAt(gs, m, o, p) <=> DoneAt(fs, m, o, p)
  BY <1>4, <1>5, <1>6 DEF DoneAt
<1>8. Passed(gs[m], o) <=> (Passed(fs[m], o) \/ Toward(fs[m], o))
  BY <1>1, <1>3, PassedStep
<1>9. InCell(gs, m, o, p) <=> InCell(fs, m, o, p)
  BY <1>5, <1>6
<1> QED  BY <1>2, <1>4, <1>7, <1>8, <1>9 DEF MadeAt

\* The iteration s of a loop of e iterations, each of t points but for the
\* last one of l points, within all that the loop runs through.
LEMMA Slices ==
  ASSUME NEW s \in Nat, NEW e \in Nat, s < e, NEW t \in Nat \ {0}, NEW l \in Nat \ {0},
         NEW run \in Nat, run = (e - 1) * t + l
  PROVE  /\ s * t >= 0 /\ (s + 1) * t = s * t + t
         /\ s + 1 < e => s * t + t <= run
         /\ s + 1 >= e => s * t + l = run
<1>1. s * t \in Nat /\ (s + 1) * t = s * t + t
  OBVIOUS
<1>2. CASE s + 1 >= e
  <2>1. s = e - 1
    BY <1>2
  <2> QED  BY <1>1, <1>2, <2>1
<1>3. CASE s + 1 < e
  <2> DEFINE k == e - 1 - (s + 1)
  <2>1. k \in Nat /\ e - 1 = (s + 1) + k
    BY <1>3
  <2> HIDE DEF k
  <2>2. (e - 1) * t = (s + 1) * t + k * t /\ k * t \in Nat
    BY <2>1
  <2>3. (s + 1) * t \in Nat /\ (e - 1) * t \in Nat
    BY <1>1, <2>2
  <2> DEFINE x == s * t
             y == (s + 1) * t
             z == (e - 1) * t
             w == k * t
  <2>4. y = x + t /\ z = y + w /\ x \in Nat /\ y \in Nat /\ z \in Nat /\ w \in Nat /\ run = z + l
    BY <1>1, <2>2, <2>3
  <2> HIDE DEF x, y, z, w
  <2>5. x + t <= run
    BY <2>4
  <2> QED  BY <1>1, <1>3, <2>5 DEF x
<1> QED  BY <1>2, <1>3

\* The running iteration of a loop lies in what the loop runs through, and the
\* next one follows it without a gap.
LEMMA LoopSlice ==
  ASSUME NEW r, Ready(r), NEW o \in NodesOf[r], Tree[o].kind = "Op",
         NEW fs, StackShape(fs, r), StackFits(fs), NEW i \in 1 .. Len(fs), IsLoop(fs[i]),
         fs[i].node \in Above(o), fs[i].start < fs[i].end
  PROVE  LET d == DimOf(fs[i])
             a == Origin(fs, i - 1, d)
             b == Origin(fs, i, d)
             step == Offsets[d][fs[i].node].step
         IN  /\ a \in Int /\ b \in Int /\ a <= b /\ step \in Nat \ {0}
             /\ Span(fs, i, d) \in Nat \ {0} /\ Span(fs, i - 1, d) \in Nat \ {0}
             /\ fs[i].start + 1 < fs[i].end =>
                  Span(fs, i, d) = step /\ b + step <= a + Span(fs, i - 1, d)
             /\ fs[i].start + 1 >= fs[i].end =>
                  b + Span(fs, i, d) = a + Span(fs, i - 1, d)
<1> DEFINE f == fs[i]
           d == DimOf(fs[i])
           n == fs[i].node
           L == LoopOf(n, d)
           t == Offsets[d][n].step
           l == Offsets[d][n].last
           a == Origin(fs, i - 1, d)
           b == Origin(fs, i, d)
<1>1. /\ r \in Roots /\ OffsetsDefined(r) /\ CountsPositive(r) /\ SplitsAlike(r) /\ TopsCover(r)
  BY DEF Ready, Regular
<1>2. f \in FrameType /\ FrameFits(f) /\ n \in Node /\ i \in Nat \ {0}
  BY StackFrame
<1>3. d \in Dim /\ d \in LoopDims(n) /\ OverDim(f, d)
  BY <1>2, LoopOfFrame DEF TileLoops, OverDim
<1>4. n \in NodesOf[r]
  BY <1>1, StackNodes
<1>5. /\ L.end \in Nat \ {0} /\ L.res \in Nat \ {0}
      /\ FullRun(n, d) \in Nat \ {0} /\ TailRun(n, d) \in Nat \ {0}
      /\ t \in Nat \ {0} /\ l \in Nat \ {0}
  BY <1>1, <1>3, <1>4, RunsPositive, OffsetsForward
<1>6. Span(fs, i - 1, d) = IF LastTo(fs, i - 1, d) THEN TailRun(n, d) ELSE FullRun(n, d)
  BY <1>1, RunFits DEF Under
<1>7. /\ f.from = a /\ f.moved = f.start * t
      /\ f.end = IF LastTo(fs, i - 1, d) THEN L.res ELSE L.end
  BY DEF StackFits, LoopFits
<1>8. /\ b = f.from + f.moved
      /\ LastTo(fs, i, d) <=> (LastTo(fs, i - 1, d) /\ f.start + 1 >= f.end)
      /\ Span(fs, i, d) = IF LastTo(fs, i, d) THEN l ELSE t
  BY <1>2, <1>3, LevelStep
<1>9. f.start \in Nat /\ f.from \in Int /\ f.start < f.end
  BY <1>2 DEF FrameType
<1>10. Span(fs, i - 1, d) \in Nat \ {0} /\ Span(fs, i, d) \in Nat \ {0}
  BY <1>5, <1>6, <1>8
<1> DEFINE s == f.start
           e == f.end
           S == Span(fs, i - 1, d)
           T == Span(fs, i, d)
           last == LastTo(fs, i - 1, d)
           m == s * t
<1>11. CASE last
  <2>0. t \in Nat \ {0} /\ l \in Nat \ {0}
    BY <1>5
  <2>1. e \in Nat /\ s \in Nat /\ s < e /\ S = (e - 1) * t + l /\ S \in Nat
    BY <1>5, <1>6, <1>7, <1>9, <1>10, <1>11 DEF TailRun
  <2>2. T = IF s + 1 >= e THEN l ELSE t
    BY <1>8, <1>11
  <2> HIDE DEF s, e, S, t, l, T
  <2>3. m >= 0 /\ (s + 1 < e => m + t <= S) /\ (s + 1 >= e => m + l = S)
    BY <2>0, <2>1, Slices
  <2>4. m \in Nat
    BY <1>5, <2>1
  <2>5. b = a + m /\ a \in Int
    BY <1>7, <1>8, <1>9 DEF s, t
  <2> HIDE DEF m, a, b
  <2>6. a \in Int /\ b \in Int /\ a <= b
    BY <2>4, <2>5
  <2>7. s + 1 < e => T = t /\ b + t <= a + S
    BY <1>5, <2>1, <2>2, <2>3, <2>4, <2>5
  <2>8. s + 1 >= e => b + T = a + S
    BY <1>5, <2>1, <2>2, <2>3, <2>4, <2>5
  <2> QED  BY <1>5, <1>10, <2>6, <2>7, <2>8 DEF s, e, S, T, t, a, b
<1>12. CASE ~last
  <2>1. e \in Nat /\ s \in Nat /\ s < e /\ S = e * t /\ S \in Nat
    BY <1>5, <1>6, <1>7, <1>9, <1>10, <1>12 DEF FullRun
  <2>2. T = t
    BY <1>8, <1>12
  <2> HIDE DEF s, e, S, t, l, T
  <2>3. m >= 0 /\ (s + 1 < e => m + t <= S) /\ (s + 1 >= e => m + t = S)
    <3>1. S = (e - 1) * t + t /\ t \in Nat \ {0}
      BY <1>5, <2>1
    <3> QED  BY <2>1, <3>1, Slices
  <2>4. m \in Nat
    BY <1>5, <2>1
  <2>5. b = a + m /\ a \in Int
    BY <1>7, <1>8, <1>9 DEF s, t
  <2> HIDE DEF m, a, b
  <2>6. a \in Int /\ b \in Int /\ a <= b
    BY <2>4, <2>5
  <2>7. s + 1 < e => T = t /\ b + t <= a + S
    BY <1>5, <2>1, <2>2, <2>3, <2>4, <2>5
  <2>8. s + 1 >= e => b + T = a + S
    BY <1>5, <2>1, <2>2, <2>3, <2>4, <2>5
  <2> QED  BY <1>5, <1>10, <2>6, <2>7, <2>8 DEF s, e, S, T, t, a, b
<1> QED  BY <1>11, <1>12

\* The points of one dimension that an iteration runs through.
Within(fs, i, d, p) == Origin(fs, i, d) <= p[d] /\ p[d] < Origin(fs, i, d) + Span(fs, i, d)

\* The cell of a loop differs from the cell around it in the loop's dimension.
LEMMA CellStep ==
  ASSUME NEW r, Ready(r), NEW o \in NodesOf[r], Tree[o].kind = "Op",
         NEW fs, StackShape(fs, r), NEW i \in 1 .. Len(fs), fs[i].node \in Above(o), NEW p
  PROVE  /\ ~IsLoop(fs[i]) => (InCell(fs, i, o, p) <=> InCell(fs, i - 1, o, p))
         /\ IsLoop(fs[i]) =>
              LET d == DimOf(fs[i])
                  others == \A x \in LoopDims(o) : x # d => Within(fs, i - 1, x, p)
              IN  /\ d \in LoopDims(o) /\ d \in Dim
                  /\ InCell(fs, i, o, p) <=> (others /\ Within(fs, i, d, p))
                  /\ InCell(fs, i - 1, o, p) <=> (others /\ Within(fs, i - 1, d, p))
<1>1. fs[i] \in FrameType /\ FrameFits(fs[i]) /\ fs[i].node \in Node /\ i \in Nat \ {0}
  BY StackFrame
<1>2. ASSUME NEW d, ~OverDim(fs[i], d)
      PROVE  Within(fs, i, d, p) <=> Within(fs, i - 1, d, p)
  BY <1>1, <1>2, LevelStep DEF Within
<1>3. CASE ~IsLoop(fs[i])
  BY <1>2, <1>3 DEF InCell, Within, OverDim
<1>4. CASE IsLoop(fs[i])
  <2> DEFINE d == DimOf(fs[i])
  <2>1. d \in Dim /\ d \in LoopDims(fs[i].node)
    BY <1>1, <1>4, LoopOfFrame DEF TileLoops
  <2>2. d \in LoopDims(o)
    BY <2>1 DEF Ready, Regular, OpsLoop, Above
  <2>3. \A x : x # d => (Within(fs, i, x, p) <=> Within(fs, i - 1, x, p))
    BY <1>2 DEF OverDim
  <2> HIDE DEF d
  <2>4. InCell(fs, i, o, p) <=> \A x \in LoopDims(o) : Within(fs, i, x, p)
    BY DEF InCell, Within
  <2>5. InCell(fs, i - 1, o, p) <=> \A x \in LoopDims(o) : Within(fs, i - 1, x, p)
    BY DEF InCell, Within
  <2>6. InCell(fs, i, o, p) <=>
          ((\A x \in LoopDims(o) : x # d => Within(fs, i - 1, x, p)) /\ Within(fs, i, d, p))
    BY <2>2, <2>3, <2>4
  <2>7. InCell(fs, i - 1, o, p) <=>
          ((\A x \in LoopDims(o) : x # d => Within(fs, i - 1, x, p)) /\ Within(fs, i - 1, d, p))
    BY <2>2, <2>5
  <2> QED  BY <1>4, <2>1, <2>2, <2>6, <2>7 DEF d
<1> QED  BY <1>3, <1>4

\* The points of the iterations up to the running one.
LEMMA CellSplits ==
  ASSUME NEW r, Ready(r), NEW o \in NodesOf[r], Tree[o].kind = "Op",
         NEW fs, StackShape(fs, r), StackFits(fs), NEW i \in 1 .. Len(fs), IsLoop(fs[i]),
         fs[i].node \in Above(o), fs[i].start < fs[i].end, NEW p \in [Dim -> Int]
  PROVE  LET d == DimOf(fs[i])
             next == Origin(fs, i, d) + Offsets[d][fs[i].node].step
         IN  (DoneAt(fs, i, o, p) \/ InCell(fs, i, o, p)) <=>
               (InCell(fs, i - 1, o, p) /\ (fs[i].start + 1 >= fs[i].end \/ p[d] < next))
<1> DEFINE f == fs[i]
           d == DimOf(fs[i])
           a == Origin(fs, i - 1, d)
           b == Origin(fs, i, d)
           t == Offsets[d][fs[i].node].step
           S == Span(fs, i - 1, d)
           T == Span(fs, i, d)
           others == \A x \in LoopDims(o) : x # d => Within(fs, i - 1, x, p)
           s == f.start
           e == f.end
           v == p[d]
<1>1. /\ d \in Dim
      /\ InCell(fs, i, o, p) <=> (others /\ b <= v /\ v < b + T)
      /\ InCell(fs, i - 1, o, p) <=> (others /\ a <= v /\ v < a + S)
  BY CellStep DEF Within
<1>2. /\ a \in Int /\ b \in Int /\ a <= b /\ t \in Nat \ {0} /\ T \in Nat \ {0} /\ S \in Nat \ {0}
      /\ s + 1 < e => T = t /\ b + t <= a + S
      /\ s + 1 >= e => b + T = a + S
  BY LoopSlice
<1>3. s \in Nat /\ e \in Int /\ s < e /\ v \in Int
  <2>1. f \in FrameType
    BY StackFrame
  <2> QED  BY <1>1, <2>1 DEF FrameType
<1>4. DoneAt(fs, i, o, p) <=> (InCell(fs, i - 1, o, p) /\ (s >= e \/ v < b))
  BY DEF DoneAt
<1> HIDE DEF a, b, t, S, T, s, e, v, others
<1>5. (v < b \/ (b <= v /\ v < b + T)) <=> v < b + T
  BY <1>2, <1>3
<1>6. (DoneAt(fs, i, o, p) \/ InCell(fs, i, o, p)) <=>
        (others /\ a <= v /\ v < a + S /\ v < b + T)
  <2>1. (DoneAt(fs, i, o, p) \/ InCell(fs, i, o, p)) <=>
          (others /\ ((a <= v /\ v < a + S /\ v < b) \/ (b <= v /\ v < b + T)))
    BY <1>1, <1>3, <1>4
  <2>2. b + T <= a + S
    BY <1>2, <1>3
  <2>3. ((a <= v /\ v < a + S /\ v < b) \/ (b <= v /\ v < b + T)) <=>
          (a <= v /\ v < a + S /\ v < b + T)
    BY <1>2, <1>3, <2>2
  <2> QED  BY <2>1, <2>3
<1>7. CASE s + 1 >= e
  <2>1. v < a + S <=> v < b + T
    BY <1>2, <1>7
  <2> QED  BY <1>1, <1>6, <1>7, <2>1 DEF s, e, v, b, t
<1>8. CASE ~(s + 1 >= e)
  <2>1. T = t
    BY <1>2, <1>3, <1>8
  <2> QED  BY <1>1, <1>6, <1>8, <2>1 DEF s, e, v, b, t
<1> QED  BY <1>7, <1>8

\* The cell of an iteration lies in the cell around it.
LEMMA CellNests ==
  ASSUME NEW r, Ready(r), NEW o \in NodesOf[r], Tree[o].kind = "Op",
         NEW fs, StackShape(fs, r), StackFits(fs), NEW i \in 1 .. Len(fs),
         fs[i].node \in Above(o), IsLoop(fs[i]) => fs[i].start < fs[i].end,
         NEW p \in [Dim -> Int], InCell(fs, i, o, p)
  PROVE  InCell(fs, i - 1, o, p) /\ ~DoneAt(fs, i, o, p)
<1>1. CASE ~IsLoop(fs[i])
  BY <1>1, CellStep DEF DoneAt
<1>2. CASE IsLoop(fs[i])
  <2>1. InCell(fs, i - 1, o, p)
    BY <1>2, CellSplits
  <2> DEFINE d == DimOf(fs[i])
             b == Origin(fs, i, d)
             v == p[d]
  <2>2. b <= v /\ d \in Dim
    BY <1>2, CellStep DEF Within
  <2>3. b \in Int /\ v \in Int
    BY <1>2, <2>2, LoopSlice
  <2>4. fs[i].start < fs[i].end /\ fs[i].start \in Int /\ fs[i].end \in Int
    <3>1. fs[i] \in FrameType
      BY StackFrame
    <3> QED  BY <1>2, <3>1 DEF FrameType
  <2> HIDE DEF b, v
  <2>5. ~(v < b) /\ ~(fs[i].start >= fs[i].end)
    BY <2>2, <2>3, <2>4
  <2> QED  BY <2>1, <2>5 DEF DoneAt, b, v
<1> QED  BY <1>1, <1>2

\* All frames of the stack above o run an iteration: a point of the innermost
\* cell is in all cells, and behind no loop.
LEMMA CellsNest ==
  ASSUME NEW r, Ready(r), NEW o \in NodesOf[r], Tree[o].kind = "Op",
         NEW fs, StackShape(fs, r), StackFits(fs),
         \A i \in 1 .. Len(fs) : fs[i].node \in Above(o) /\ (IsLoop(fs[i]) => fs[i].start < fs[i].end),
         NEW p \in [Dim -> Int], InCell(fs, Len(fs), o, p)
  PROVE  /\ \A i \in 0 .. Len(fs) : InCell(fs, i, o, p)
         /\ \A i \in 1 .. Len(fs) : ~DoneAt(fs, i, o, p)
<1> DEFINE n == Len(fs)
           G == {k \in 0 .. n : InCell(fs, n - k, o, p)}
<1>1. n \in Nat
  BY DEF StackShape
<1>2. 0 \in G
  BY <1>1
<1>3. ASSUME NEW k \in 1 .. n, k - 1 \in G PROVE k \in G
  <2>1. n - (k - 1) \in 1 .. n /\ n - (k - 1) - 1 = n - k /\ k \in 0 .. n
    BY <1>1
  <2>2. InCell(fs, n - (k - 1), o, p)
    BY <1>3
  <2>3. InCell(fs, n - (k - 1) - 1, o, p)
    BY <2>1, <2>2, CellNests
  <2> QED  BY <2>1, <2>3
<1>4. \A k \in 0 .. n : k \in G
  <2> HIDE DEF G
  <2> QED  BY <1>1, <1>2, <1>3, UpInduction
<1>5. ASSUME NEW i \in 0 .. n PROVE InCell(fs, i, o, p)
  <2>1. n - i \in 0 .. n /\ n - (n - i) = i
    BY <1>1
  <2>2. n - i \in G
    BY <1>4, <2>1
  <2> QED  BY <2>1, <2>2
<1>6. ASSUME NEW i \in 1 .. n PROVE ~DoneAt(fs, i, o, p)
  <2>1. i \in 0 .. n
    BY <1>1
  <2> QED  BY <1>5, <2>1, CellNests
<1> QED  BY <1>5, <1>6

-----------------------------------------------------------------------------
(* The block that an operation is executed on.                              *)

\* The stack of fs is about to visit operation o.
VisitsOp(r, fs, o) ==
  /\ StackShape(fs, r) /\ StackFits(fs) /\ fs # <<>>
  /\ o \in NodesOf[r] /\ Tree[o].kind = "Op" /\ Kids(o) = <<>>
  /\ Parent(o) = fs[Len(fs)].node /\ VisitsChildren(fs[Len(fs)])
  /\ \A i \in 1 .. Len(fs) : IsLoop(fs[i]) => fs[i].start < fs[i].end

\* All frames of the stack are above the operation.
LEMMA FramesAbove ==
  ASSUME NEW r \in Roots, NEW fs, NEW o, VisitsOp(r, fs, o)
  PROVE  \A i \in 1 .. Len(fs) : fs[i].node \in Above(o)
<1>1. StackShape(fs, r) /\ o \in Node /\ Len(fs) \in Nat /\ Len(fs) \in 1 .. Len(fs)
  BY NodesClosed DEF VisitsOp, StackShape
<1>2. fs[Len(fs)].node \in Node
  BY <1>1, StackFrame
<1>3. Above(o) = {fs[Len(fs)].node} \cup Above(fs[Len(fs)].node)
  BY <1>1, <1>2, AboveStep, NodesAreNumbers DEF VisitsOp, nullptr
<1>4. ASSUME NEW i \in 1 .. Len(fs) PROVE fs[i].node \in Above(o)
  BY <1>1, <1>3, StackNodes DEF Under
<1> QED  BY <1>4

\* The nearest loop over d that encloses the child of a frame.
LEMMA NearestToChild ==
  ASSUME NEW f \in FrameType, FrameFits(f), VisitsChildren(f),
         NEW x \in Node, Parent(x) = f.node, NEW d
  PROVE  Nearest(f, d) = LoopAbove(x, d)
<1>1. f.node \in Node
  BY DEF FrameType
<1>2. LoopAbove(x, d) = IF f.node \in TileLoops(d) THEN f.node ELSE LoopAbove(f.node, d)
  BY <1>1, LoopAboveStep, NodesAreNumbers DEF nullptr
<1>3. f.node \in TileLoops(d) <=> \E j \in 1 .. f.idx : Tree[f.node].loops[j].dim = d
  <2>1. CASE f.idx = 0
    <3>1. Tree[f.node].kind = "Scope"
      BY <2>1 DEF FrameFits
    <3> QED  BY <2>1, <3>1 DEF TileLoops
  <2>2. CASE f.idx # 0
    <3>1. Tree[f.node].kind = "Tile" /\ f.idx = Len(Tree[f.node].loops)
      BY <2>2 DEF FrameFits, VisitsChildren, isInnermost
    <3>2. DOMAIN Tree[f.node].loops = 1 .. Len(Tree[f.node].loops)
      BY <1>1, TreeAssumption
    <3> QED  BY <1>1, <3>1, <3>2 DEF TileLoops, LoopDims
  <2> QED  BY <2>1, <2>2
<1> QED  BY <1>2, <1>3 DEF Nearest

\* The nearest loop over d is the one above the operation.
LEMMA NearestToOp ==
  ASSUME NEW r \in Roots, NEW fs, NEW o, VisitsOp(r, fs, o), NEW d
  PROVE  Nearest(fs[Len(fs)], d) = LoopAbove(o, d)
<1> DEFINE f == fs[Len(fs)]
<1>1. /\ StackShape(fs, r) /\ o \in Node /\ Len(fs) \in 1 .. Len(fs) /\ Parent(o) = f.node
      /\ VisitsChildren(f)
  BY NodesClosed DEF VisitsOp, StackShape
<1>2. f \in FrameType /\ FrameFits(f)
  BY <1>1, StackFrame
<1> QED  BY <1>1, <1>2, NearestToChild

\* The iteration leaves no more than a block to the operation.
LEMMA SpanOfOp ==
  ASSUME NEW r, Ready(r), NEW fs, NEW o, VisitsOp(r, fs, o), NEW d \in LoopDims(o)
  PROVE  LET E == LoopOf(o, d).end IN
           /\ d \in Dim /\ E \in Nat \ {0} /\ Span(fs, Len(fs), d) \in 1 .. E
           /\ LoopAbove(o, d) # nullptr => Offsets[d][LoopAbove(o, d)].step = E
<1> DEFINE l == LoopOf(o, d)
           a == LoopAbove(o, d)
           n == Len(fs)
<1>1. /\ r \in Roots /\ OffsetsDefined(r) /\ CountsPositive(r) /\ SplitsAlike(r) /\ TopsCover(r)
      /\ OpsLoop(r)
  BY DEF Ready, Regular
<1>2. /\ o \in NodesOf[r] /\ o \in Node /\ Tree[o].kind = "Op" /\ Kids(o) = <<>>
      /\ StackShape(fs, r) /\ n \in 1 .. Len(fs)
  BY <1>1, NodesClosed DEF VisitsOp, StackShape
<1>3. /\ l \in Loop /\ l.dim = d /\ \E i \in DOMAIN Tree[o].loops : l = Tree[o].loops[i]
  BY <1>2, LoopOfIs
<1>4. d \in Dim
  <2> HIDE DEF l
  <2> QED  BY <1>3 DEF Loop
<1>5. l.end \in Nat \ {0} /\ l.res \in Nat \ {0}
  BY <1>1, <1>2, <1>4, RunsPositive
<1>6. l.res <= l.end
  <2> HIDE DEF l
  <2> QED  BY <1>1, <1>2, <1>3 DEF OpsLoop, Above
<1>7. Offsets[d][o].step = 1 /\ Offsets[d][o].last = 1
  BY <1>2, <1>4, LeafOffsets
<1>8. FullRun(o, d) = l.end /\ TailRun(o, d) = l.res
  <2>1. FullRun(o, d) = l.end * 1 /\ TailRun(o, d) = (l.res - 1) * 1 + 1
    BY <1>7 DEF FullRun, TailRun
  <2> HIDE DEF l
  <2> QED  BY <1>5, <2>1
<1>9. a # nullptr => Offsets[d][a].step = l.end /\ Offsets[d][a].last = l.res
  BY <1>1, <1>2, <1>4, <1>8, StepIsRun
<1>10. a = nullptr => l.res = FactorizedBounds[d]
  BY <1>1, <1>2, <1>4, <1>8 DEF TopsCover, Under
<1>11. Nearest(fs[n], d) = a
  BY <1>1, NearestToOp
<1> HIDE DEF a, n
<1>12. /\ a = nullptr => Span(fs, n, d) = FactorizedBounds[d]
       /\ a # nullptr => Span(fs, n, d) = IF LastTo(fs, n, d) THEN Offsets[d][a].last
                                          ELSE Offsets[d][a].step
  BY <1>1, <1>2, <1>11, LevelNode
<1>13. Span(fs, n, d) = l.res \/ Span(fs, n, d) = l.end
  BY <1>9, <1>10, <1>12
<1>14. l.res \in 1 .. l.end /\ l.end \in 1 .. l.end
  <2> HIDE DEF l
  <2> QED  BY <1>5, <1>6
<1> QED  BY <1>4, <1>5, <1>9, <1>13, <1>14 DEF a, n

\* x is a multiple of e.
Multiple(x, e) == \E k \in Nat : x = k * e

\* The loops over d above an operation move by whole blocks of it.
LEMMA StepsAreBlocks ==
  ASSUME NEW r, Ready(r), NEW fs, NEW o, VisitsOp(r, fs, o), NEW d \in LoopDims(o),
         NEW i \in 1 .. Len(fs), OverDim(fs[i], d)
  PROVE  Multiple(Offsets[d][fs[i].node].step, LoopOf(o, d).end)
<1> DEFINE n == Len(fs)
           E == LoopOf(o, d).end
           Q(k) == Nearest(fs[k], d) # nullptr => Multiple(Offsets[d][Nearest(fs[k], d)].step, E)
           G == {k \in 0 .. n - 1 : Q(n - k)}
<1>1. /\ r \in Roots /\ OffsetsDefined(r) /\ CountsPositive(r) /\ SplitsAlike(r)
  BY DEF Ready, Regular
<1>2. StackShape(fs, r) /\ n \in Nat /\ n >= 1
  BY DEF VisitsOp, StackShape
<1>3. E \in Nat \ {0} /\ d \in Dim /\ (LoopAbove(o, d) # nullptr => Offsets[d][LoopAbove(o, d)].step = E)
  BY SpanOfOp
<1> HIDE DEF E
<1>4. 0 \in G
  <2>1. 0 \in 0 .. n - 1 /\ n - 0 = n
    BY <1>2
  <2>2. Nearest(fs[n], d) = LoopAbove(o, d)
    BY <1>1, NearestToOp
  <2>3. Multiple(E, E)
    <3>1. E = 1 * E
      BY <1>3
    <3> QED  BY <3>1 DEF Multiple
  <2> QED  BY <1>3, <2>1, <2>2, <2>3
<1>5. ASSUME NEW k \in 1 .. n - 1, k - 1 \in G PROVE k \in G
  <2> DEFINE j == n - (k - 1)
  <2>1. k \in 0 .. n - 1 /\ j \in 1 .. n /\ j > 1 /\ j - 1 = n - k /\ Q(j)
    BY <1>2, <1>5
  <2> HIDE DEF j
  <2>2. fs[j] \in FrameType /\ FrameFits(fs[j]) /\ fs[j].node \in Node
        /\ j - 1 \in 1 .. n /\ EnteredFrom(fs[j - 1], fs[j])
    BY <1>2, <2>1, StackFrame
  <2>3. fs[j - 1] \in FrameType /\ FrameFits(fs[j - 1])
    BY <1>2, <2>2, StackFrame
  <2>4. Nearest(fs[j], d) = IF OverDim(fs[j], d) THEN fs[j].node ELSE Nearest(fs[j - 1], d)
    BY <2>2, <2>3, NearestStep
  <2>5. CASE ~OverDim(fs[j], d)
    <3>1. Q(j - 1)
      BY <2>1, <2>4, <2>5
    <3> QED  BY <2>1, <3>1
  <2>6. CASE OverDim(fs[j], d)
    <3> DEFINE m == fs[j].node
               a == LoopAbove(m, d)
    <3>1. Nearest(fs[j - 1], d) = a
      BY <2>2, <2>3, <2>6, NearestAbove
    <3>2. m # nullptr
      BY <2>2, NodesAreNumbers DEF nullptr
    <3>3. Multiple(Offsets[d][m].step, E)
      BY <2>1, <2>4, <2>6, <3>2
    <3>4. m \in NodesOf[r] /\ d \in LoopDims(m)
      BY <1>1, <1>2, <2>1, <2>2, <2>6, StackNodes, LoopOfFrame DEF OverDim, TileLoops
    <3>5. a # nullptr => Offsets[d][a].step = LoopOf(m, d).end * Offsets[d][m].step
      BY <1>1, <1>3, <3>4, StepIsRun DEF FullRun
    <3>6. LoopOf(m, d).end \in Nat
      BY <1>1, <1>3, <3>4, RunsPositive
    <3>7. a # nullptr => Multiple(Offsets[d][a].step, E)
      <4>1. PICK x \in Nat : Offsets[d][m].step = x * E
        BY <3>3 DEF Multiple
      <4> DEFINE y == LoopOf(m, d).end
      <4>2. y * x \in Nat /\ y * (x * E) = (y * x) * E
        <5> HIDE DEF y
        <5>1. y \in Nat
          BY <3>6 DEF y
        <5> QED  BY <1>3, <5>1
      <4> QED  BY <3>5, <4>1, <4>2 DEF Multiple
    <3>8. Q(j - 1)
      <4> HIDE DEF a, m
      <4> QED  BY <3>1, <3>7
    <3> QED  BY <2>1, <3>8
  <2> QED  BY <2>5, <2>6
<1>6. \A k \in 0 .. n - 1 : k \in G
  <2>1. n - 1 \in Nat
    BY <1>2
  <2> HIDE DEF G
  <2> QED  BY <1>4, <1>5, <2>1, UpInduction
<1>7. Q(i)
  <2>1. n - i \in 0 .. n - 1 /\ n - (n - i) = i
    BY <1>2
  <2>2. n - i \in G
    BY <1>6, <2>1
  <2> QED  BY <2>1, <2>2
<1>8. Nearest(fs[i], d) = fs[i].node /\ fs[i].node # nullptr
  <2>1. fs[i] \in FrameType /\ FrameFits(fs[i]) /\ fs[i].node \in Node
    BY <1>2, StackFrame
  <2>2. fs[i].idx \in Nat /\ fs[i].idx > 0
    BY <2>1 DEF OverDim, IsLoop, FrameType
  <2>3. fs[i].idx \in 1 .. fs[i].idx /\ Tree[fs[i].node].loops[fs[i].idx].dim = d
    BY <2>2 DEF OverDim, DimOf
  <2> QED  BY <2>1, <2>3, NodesAreNumbers DEF Nearest, nullptr
<1> QED  BY <1>7, <1>8 DEF E

\* The walk is at the corner of a block of the operation.
LEMMA OriginIsCorner ==
  ASSUME NEW r, Ready(r), NEW fs, NEW o, VisitsOp(r, fs, o), NEW d \in LoopDims(o)
  PROVE  Multiple(Origin(fs, Len(fs), d), LoopOf(o, d).end)
<1> DEFINE n == Len(fs)
           E == LoopOf(o, d).end
           G == {k \in 0 .. n : Multiple(Origin(fs, k, d), E)}
<1>1. StackShape(fs, r) /\ StackFits(fs) /\ n \in Nat /\ n >= 1
  BY DEF VisitsOp, StackShape
<1>2. E \in Nat \ {0}
  BY SpanOfOp
<1>3. 0 \in G
  <2>1. 0 = 0 * E
    BY <1>2
  <2>2. Multiple(Origin(fs, 0, d), E)
    BY <2>1, LevelBase DEF Multiple
  <2> QED  BY <1>1, <2>2
<1>4. ASSUME NEW k \in 1 .. n, k - 1 \in G PROVE k \in G
  <2>1. k \in Nat \ {0} /\ k \in 0 .. n /\ Multiple(Origin(fs, k - 1, d), E)
    BY <1>1, <1>4
  <2>2. CASE ~OverDim(fs[k], d)
    BY <2>1, <2>2, LevelStep
  <2>3. CASE OverDim(fs[k], d)
    <3> DEFINE s == fs[k].start
               t == Offsets[d][fs[k].node].step
    <3>1. Origin(fs, k, d) = fs[k].from + fs[k].moved
      BY <2>1, <2>3, LevelStep
    <3>2. fs[k].from = Origin(fs, k - 1, d) /\ fs[k].moved = s * t
      BY <1>1, <2>3 DEF StackFits, LoopFits, OverDim
    <3>3. s \in Nat
      <4>1. fs[k] \in FrameType
        BY <1>1, StackFrame
      <4> QED  BY <4>1 DEF FrameType
    <3>4. Multiple(t, E)
      BY <2>3, StepsAreBlocks
    <3>5. PICK x \in Nat : Origin(fs, k - 1, d) = x * E
      BY <2>1 DEF Multiple
    <3>6. PICK y \in Nat : t = y * E
      BY <3>4 DEF Multiple
    <3>7. s * y \in Nat /\ x * E + s * (y * E) = (x + s * y) * E
      <4> HIDE DEF s, E
      <4>1. s * y \in Nat /\ s * (y * E) = (s * y) * E
        BY <1>2, <3>3
      <4> DEFINE w == s * y
      <4>2. w \in Nat
        BY <4>1
      <4> HIDE DEF w
      <4>3. x * E + w * E = (x + w) * E
        BY <1>2, <4>2
      <4> QED  BY <4>1, <4>3 DEF w
    <3>8. Origin(fs, k, d) = (x + s * y) * E /\ x + s * y \in Nat
      <4>1. Origin(fs, k, d) = x * E + s * (y * E)
        BY <3>1, <3>2, <3>5, <3>6
      <4> QED  BY <3>7, <4>1
    <3>9. Multiple(Origin(fs, k, d), E)
      BY <3>8 DEF Multiple
    <3> QED  BY <2>1, <3>9
  <2> QED  BY <2>2, <2>3
<1>5. \A k \in 0 .. n : k \in G
  <2> HIDE DEF G
  <2> QED  BY <1>1, <1>3, <1>4, UpInduction
<1>6. n \in G
  BY <1>1, <1>5
<1> QED  BY <1>6

\* The corners of the blocks of an operation.
Corners(o) ==
  {p \in [Dim -> UNION {BlocksOf(o, d) : d \in Dim}] : \A d \in Dim : p[d] \in BlocksOf(o, d)}

\* Some loop over d, or the operation itself, splits the whole bound.
LEMMA BoundOfOp ==
  ASSUME NEW r, Ready(r), NEW o \in NodesOf[r], Tree[o].kind = "Op", NEW d \in Dim, d \in LoopDims(o)
  PROVE  FactorizedBounds[d] \in Nat \ {0}
<1>1. /\ r \in Roots /\ CountsPositive(r) /\ TopsCover(r)
  BY DEF Ready, Regular
<1>2. o \in Node
  BY <1>1, NodesClosed
<1>3. SUFFICES ASSUME NEW m \in NodesOf[r], Under(o, m), d \in LoopDims(m),
                      Tree[m].kind \in {"Tile", "Op"}, LoopAbove(m, d) = nullptr
               PROVE  FactorizedBounds[d] \in Nat \ {0}
  <2> DEFINE S == {m \in Above(o) : m \in TileLoops(d)}
  <2>1. CASE LoopAbove(o, d) = nullptr
    BY <1>3, <2>1 DEF Under
  <2>2. CASE LoopAbove(o, d) # nullptr
    <3>1. LoopAbove(o, d) \in S
      BY <1>2, <2>2, LoopAboveIs, LoopAboveAbove
    <3>2. S \in SUBSET Nat
      BY <1>2, AboveBefore, NodesAreNumbers
    <3>3. PICK m \in S : \A k \in S : m <= k
      <4> HIDE DEF S
      <4> QED  BY <3>1, <3>2, LeastNatural
    <3>4. /\ m \in NodesOf[r] /\ Under(o, m) /\ d \in LoopDims(m) /\ m \in Node /\ m \in Nat
          /\ Tree[m].kind = "Tile"
      BY <1>1, <1>2, <3>2, NodesAbove, AboveBefore DEF Under, TileLoops
    <3>5. LoopAbove(m, d) = nullptr
      <4>1. SUFFICES ASSUME LoopAbove(m, d) # nullptr PROVE FALSE
        OBVIOUS
      <4> DEFINE a == LoopAbove(m, d)
      <4>2. a \in Above(m) /\ a \in TileLoops(d) /\ m \in Above(o)
        BY <3>4, <4>1, LoopAboveIs, LoopAboveAbove
      <4>3. a \in Above(o) /\ a < m
        BY <1>2, <3>4, <4>2, AboveTransitive, AboveBefore
      <4>4. a \in S
        BY <4>2, <4>3
      <4> HIDE DEF a
      <4>5. a \in Nat /\ m <= a
        BY <3>2, <3>3, <4>4
      <4> QED  BY <3>4, <4>3, <4>5
    <3> QED  BY <1>3, <3>4, <3>5
  <2> QED  BY <2>1, <2>2
<1>4. FactorizedBounds[d] = TailRun(m, d)
  BY <1>1, <1>3 DEF TopsCover
<1> QED  BY <1>1, <1>3, <1>4, RunsPositive

\* A multiple of e leaves no remainder, and there is one in every e numbers.
LEMMA Multiples ==
  ASSUME NEW e \in Nat \ {0}, NEW x \in Int, Multiple(x, e)
  PROVE  /\ x \in Nat /\ x % e = 0
         /\ \A y \in Nat, s \in 1 .. e : y % e = 0 /\ x <= y /\ y < x + s => y = x
<1>1. PICK k \in Nat : x = k * e
  BY DEF Multiple
<1>2. x \in Nat
  BY <1>1
<1>3. x % e = 0
  <2> DEFINE q == x \div e
             m == x % e
  <2>1. q \in Nat /\ m \in 0 .. e - 1 /\ x = e * q + m
    BY <1>2
  <2> HIDE DEF q, m
  <2>2. CASE q <= k
    <3>1. k - q \in Nat /\ k * e = e * q + e * (k - q)
      BY <2>1, <2>2
    <3>2. m = e * (k - q)
      BY <1>1, <2>1, <3>1
    <3>3. k - q = 0 \/ e * (k - q) >= e
      BY <3>1
    <3> QED  BY <2>1, <3>1, <3>2, <3>3 DEF m
  <2>3. CASE q > k
    <3>1. q - k - 1 \in Nat /\ e * q = k * e + e + e * (q - k - 1) /\ e * (q - k - 1) \in Nat
      BY <2>1, <2>3
    <3> QED  BY <1>1, <2>1, <3>1
  <2> QED  BY <2>1, <2>2, <2>3
<1>4. ASSUME NEW y \in Nat, NEW s \in 1 .. e, y % e = 0, x <= y, y < x + s
      PROVE  y = x
  <2> DEFINE q == y \div e
  <2>1. q \in Nat /\ y = e * q + (y % e)
    OBVIOUS
  <2> HIDE DEF q
  <2>2. y = q * e
    BY <1>4, <2>1
  <2>3. CASE q <= k
    <3>1. k - q \in Nat /\ k * e = q * e + (k - q) * e
      BY <2>1, <2>3
    <3>2. (k - q) * e \in Nat
      BY <3>1
    <3> DEFINE u == (k - q) * e
               v == k * e
               w == q * e
    <3>3. u \in Nat /\ v = w + u /\ v = x /\ w = y
      BY <1>1, <2>2, <3>1, <3>2
    <3> HIDE DEF u, v, w
    <3> QED  BY <1>2, <1>4, <3>3
  <2>4. CASE q > k
    <3>1. q - k - 1 \in Nat /\ q * e = k * e + e + (q - k - 1) * e
      BY <2>1, <2>4
    <3>2. (q - k - 1) * e \in Nat
      BY <3>1
    <3> DEFINE u == (q - k - 1) * e
               v == k * e
               w == q * e
    <3>3. u \in Nat /\ w = v + e + u /\ v = x /\ w = y
      BY <1>1, <2>2, <3>1, <3>2
    <3> HIDE DEF u, v, w
    <3> QED  BY <1>2, <1>4, <3>3
  <2> QED  BY <2>1, <2>3, <2>4
<1> QED  BY <1>2, <1>3, <1>4

\* The corners are points of the iteration space, and all that is in it.
LEMMA CornersAre ==
  ASSUME NEW r, Ready(r), NEW o \in NodesOf[r], Tree[o].kind = "Op"
  PROVE  /\ Corners(o) \subseteq [Dim -> Int]
         /\ \A p \in Corners(o) : \A d \in LoopDims(o) \cap Dim :
              p[d] \in Nat /\ p[d] < FactorizedBounds[d] /\ p[d] % LoopOf(o, d).end = 0
         /\ \A p \in Corners(o) : \A d \in Dim \ LoopDims(o) : p[d] = 0
<1>1. ASSUME NEW d \in Dim, d \in LoopDims(o), NEW b \in BlocksOf(o, d)
      PROVE  b \in Nat /\ b < FactorizedBounds[d] /\ b % LoopOf(o, d).end = 0
  <2>1. FactorizedBounds[d] \in Nat \ {0}
    BY <1>1, BoundOfOp
  <2>2. b \in 0 .. FactorizedBounds[d] - 1 /\ b % LoopOf(o, d).end = 0
    BY <1>1 DEF BlocksOf
  <2> QED  BY <2>1, <2>2
<1>2. ASSUME NEW d \in Dim, d \notin LoopDims(o), NEW b \in BlocksOf(o, d)
      PROVE  b = 0
  BY <1>2 DEF BlocksOf
<1>3. ASSUME NEW d \in Dim, NEW b \in BlocksOf(o, d) PROVE b \in Int
  BY <1>1, <1>2, <1>3
<1>4. ASSUME NEW p \in Corners(o)
      PROVE  p \in [Dim -> Int] /\ \A d \in Dim : p[d] \in BlocksOf(o, d)
  <2>1. p \in [Dim -> UNION {BlocksOf(o, d) : d \in Dim}] /\ \A d \in Dim : p[d] \in BlocksOf(o, d)
    BY DEF Corners
  <2> QED  BY <1>3, <2>1
<1> QED  BY <1>1, <1>2, <1>4

\* The corners are in the iteration space that the root runs through.
LEMMA CornersInSpace ==
  ASSUME NEW r, Ready(r), NEW o \in NodesOf[r], Tree[o].kind = "Op", NEW fs,
         NEW p \in Corners(o)
  PROVE  InCell(fs, 0, o, p)
<1>1. o \in Node
  BY NodesClosed DEF Ready
<1>2. ASSUME NEW d \in LoopDims(o)
      PROVE  Origin(fs, 0, d) <= p[d] /\ p[d] < Origin(fs, 0, d) + Span(fs, 0, d)
  <2>1. d \in Dim
    <3>1. LoopOf(o, d) \in Loop /\ LoopOf(o, d).dim = d
      BY <1>1, <1>2, LoopOfIs
    <3> QED  BY <3>1 DEF Loop
  <2>2. p[d] \in Nat /\ p[d] < FactorizedBounds[d] /\ FactorizedBounds[d] \in Nat
    BY <1>2, <2>1, CornersAre, BoundOfOp
  <2>3. Origin(fs, 0, d) = 0 /\ Span(fs, 0, d) = FactorizedBounds[d]
    BY LevelBase
  <2> QED  BY <2>2, <2>3
<1> QED  BY <1>2 DEF InCell

\* The operation is executed at the corner of a block, the only one of its
\* corners in the running iterations.
LEMMA CellOfOp ==
  ASSUME NEW r, Ready(r), NEW fs, NEW o, VisitsOp(r, fs, o), NEW skew \in [Dim -> Int],
         \A d \in Dim : skew[d] = Origin(fs, Len(fs), d)
  PROVE  /\ skew \in Corners(o) /\ InCell(fs, Len(fs), o, skew)
         /\ \A p \in Corners(o) : InCell(fs, Len(fs), o, p) => p = skew
<1> DEFINE n == Len(fs)
<1>1. /\ r \in Roots /\ OpsLoop(r) /\ o \in NodesOf[r] /\ o \in Node /\ Tree[o].kind = "Op"
      /\ StackShape(fs, r) /\ StackFits(fs) /\ n \in Nat /\ n \in 1 .. Len(fs)
  BY NodesClosed DEF VisitsOp, StackShape, Ready, Regular
<1>2. ASSUME NEW d \in LoopDims(o)
      PROVE  /\ d \in Dim /\ LoopOf(o, d).end \in Nat \ {0} /\ Span(fs, n, d) \in 1 .. LoopOf(o, d).end
             /\ skew[d] \in Int /\ Origin(fs, n, d) = skew[d] /\ Multiple(skew[d], LoopOf(o, d).end)
  BY <1>2, SpanOfOp, OriginIsCorner
<1>3. ASSUME NEW d \in Dim, d \notin LoopDims(o) PROVE skew[d] = 0
  <2>1. LoopAbove(o, d) = nullptr
    <3>1. SUFFICES ASSUME LoopAbove(o, d) # nullptr PROVE FALSE
      OBVIOUS
    <3>2. LoopAbove(o, d) \in Above(o) /\ LoopAbove(o, d) \in TileLoops(d)
      BY <1>1, <3>1, LoopAboveIs, LoopAboveAbove
    <3> QED  BY <1>1, <1>3, <3>2 DEF OpsLoop, Above, TileLoops
  <2>2. Nearest(fs[n], d) = nullptr
    BY <1>1, <2>1, NearestToOp
  <2>3. Origin(fs, n, d) = 0
    BY <1>1, <2>2, LevelNode
  <2> QED  BY <1>3, <2>3
<1>4. InCell(fs, n, o, skew)
  <2>1. ASSUME NEW d \in LoopDims(o)
        PROVE  Origin(fs, n, d) <= skew[d] /\ skew[d] < Origin(fs, n, d) + Span(fs, n, d)
    <3>1. Origin(fs, n, d) = skew[d] /\ skew[d] \in Int /\ LoopOf(o, d).end \in Nat
          /\ Span(fs, n, d) \in 1 .. LoopOf(o, d).end
      BY <1>2, <2>1
    <3> QED  BY <3>1
  <2> QED  BY <2>1 DEF InCell
<1>5. InCell(fs, 0, o, skew)
  <2>1. \A i \in 1 .. Len(fs) : fs[i].node \in Above(o)
    BY <1>1, FramesAbove
  <2>2. \A i \in 1 .. Len(fs) : IsLoop(fs[i]) => fs[i].start < fs[i].end
    BY DEF VisitsOp
  <2>3. \A i \in 0 .. Len(fs) : InCell(fs, i, o, skew)
    BY <1>1, <1>4, <2>1, <2>2, CellsNest
  <2> QED  BY <1>1, <2>3
<1>6. ASSUME NEW d \in Dim PROVE skew[d] \in BlocksOf(o, d)
  <2>1. CASE d \in LoopDims(o)
    <3>1. skew[d] \in Nat /\ skew[d] % LoopOf(o, d).end = 0
      BY <1>2, <2>1, Multiples
    <3>2. FactorizedBounds[d] \in Nat
      BY <1>1, <2>1, BoundOfOp
    <3>3. skew[d] < FactorizedBounds[d]
      <4>1. skew[d] < Origin(fs, 0, d) + Span(fs, 0, d)
        BY <1>5, <2>1 DEF InCell
      <4>2. Origin(fs, 0, d) = 0 /\ Span(fs, 0, d) = FactorizedBounds[d]
        BY LevelBase
      <4> QED  BY <3>2, <4>1, <4>2
    <3>4. skew[d] \in 0 .. FactorizedBounds[d] - 1
      BY <3>1, <3>2, <3>3
    <3> QED  BY <2>1, <3>1, <3>4 DEF BlocksOf
  <2>2. CASE d \notin LoopDims(o)
    BY <1>3, <2>2 DEF BlocksOf
  <2> QED  BY <2>1, <2>2
<1>7. skew \in Corners(o)
  BY <1>6 DEF Corners
<1>8. ASSUME NEW p \in Corners(o), InCell(fs, n, o, p) PROVE p = skew
  <2>1. p \in [Dim -> Int]
    BY <1>1, CornersAre
  <2>2. ASSUME NEW d \in Dim PROVE p[d] = skew[d]
    <3>1. CASE d \in LoopDims(o)
      <4>1. p[d] \in Nat /\ p[d] % LoopOf(o, d).end = 0
        BY <1>1, <1>8, <3>1, CornersAre
      <4>2. skew[d] <= p[d] /\ p[d] < skew[d] + Span(fs, n, d)
        BY <1>2, <1>8, <3>1 DEF InCell
      <4> QED  BY <1>2, <3>1, <4>1, <4>2, Multiples
    <3>2. CASE d \notin LoopDims(o)
      BY <1>1, <1>3, <3>2, CornersAre
    <3> QED  BY <3>1, <3>2
  <2> QED  BY <2>1, <2>2
<1> QED  BY <1>4, <1>7, <1>8

-----------------------------------------------------------------------------
(* What is behind the walk grows by the visits of operations only.          *)

\* A loop that is entered has nothing behind it.
LEMMA EnterMade ==
  ASSUME WalkInv, root' = root, WalkInv', TilingInv', Ready(root), NEW f, Enters(f),
         NEW o \in NodesOf[root], Tree[o].kind = "Op", NEW p \in [Dim -> Int]
  PROVE  Made(frames', o, p) <=> Made(frames, o, p)
<1> DEFINE n == Len(frames)
           gs == frames'
<1>1. /\ frames \in Seq(FrameType) /\ n \in Nat /\ f \in FrameType /\ gs = Append(frames, f)
  BY StackTypes DEF Enters
<1>2. Len(gs) = n + 1 /\ gs[n + 1] = f /\ \A i \in 1 .. n : gs[i] = frames[i]
  BY <1>1
<1>3. root \in Roots /\ StackShape(gs, root) /\ StackFits(gs) /\ n + 1 \in 1 .. Len(gs)
  BY <1>1, <1>2 DEF WalkInv, TilingInv
<1>4. FrameFits(f) /\ f.node \in NodesOf[root]
  BY <1>2, <1>3, StackFrame, StackNodes
<1>5. ~Passed(f, o)
  <2>1. CASE f.idx = 0
    <3>1. f = ScopeFrame(f.node)
      BY <2>1 DEF Enters
    <3>2. f.kid = 1
      BY <3>1 DEF ScopeFrame
    <3>3. f.node \in Node
      BY <1>1 DEF FrameType
    <3>4. \A q \in DOMAIN Kids(f.node) : ~(f.kid > q)
      BY <3>2, <3>3, KidsAfter
    <3> QED  BY <2>1, <3>4 DEF Passed, IsLoop
  <2>2. CASE f.idx # 0
    <3>1. f = LoopFrame(f.node, f.idx)
      BY <2>2 DEF Enters
    <3>2. f.kid = 0
      BY <3>1 DEF LoopFrame
    <3>3. f.node \in Node
      BY <1>1 DEF FrameType
    <3>4. \A q \in DOMAIN Kids(f.node) : ~(f.kid > q)
      BY <3>2, <3>3, KidsAfter
    <3> QED  BY <3>2, <3>4 DEF Passed
  <2> QED  BY <2>1, <2>2
<1>6. ASSUME f.node \in Above(o) PROVE ~DoneAt(gs, n + 1, o, p)
  <2>1. SUFFICES ASSUME IsLoop(f), InCell(gs, n, o, p)
                 PROVE  ~(f.start >= f.end) /\ ~(p[DimOf(f)] < Origin(gs, n + 1, DimOf(f)))
    <3>1. n + 1 - 1 = n
      BY <1>1
    <3> QED  BY <1>2, <3>1 DEF DoneAt
  <2> DEFINE d == DimOf(f)
  <2>3. f.start = 0 /\ f.moved = 0
    BY <2>1, EnteredAtZero
  <2>4. d \in Dim /\ d \in LoopDims(f.node) /\ d \in LoopDims(o)
    <3>1. d \in Dim /\ d \in LoopDims(f.node)
      BY <1>1, <1>4, <2>1, LoopOfFrame DEF TileLoops
    <3> QED  BY <1>6, <3>1 DEF Ready, Regular, OpsLoop, Above
  <2>5. LoopFits(gs, n + 1)
    BY <1>2, <1>3, <2>1 DEF StackFits
  <2>6. /\ f.from = Origin(gs, n, d)
        /\ f.end \in {LoopOf(f.node, d).res, LoopOf(f.node, d).end}
    <3>1. n + 1 - 1 = n
      BY <1>1
    <3> QED  BY <1>2, <2>5, <3>1 DEF LoopFits
  <2>7. f.end \in Nat \ {0}
    BY <1>3, <1>4, <2>4, <2>6, RunsPositive DEF Ready, Regular
  <2>8. Origin(gs, n + 1, d) = f.from + f.moved
    <3>1. n + 1 \in Nat \ {0} /\ OverDim(gs[n + 1], d)
      BY <1>1, <1>2, <2>1 DEF OverDim
    <3> QED  BY <1>2, <3>1, LevelStep
  <2>9. Origin(gs, n, d) <= p[d]
    BY <2>1, <2>4 DEF InCell
  <2>10. f.from \in Int /\ p[d] \in Int
    BY <1>1, <2>4 DEF FrameType
  <2> HIDE DEF d
  <2>11. ~(f.start >= f.end)
    BY <2>3, <2>7
  <2>12. ~(p[d] < Origin(gs, n + 1, d))
    BY <2>3, <2>6, <2>8, <2>9, <2>10
  <2> QED  BY <2>11, <2>12 DEF d
<1>7. ~MadeAt(gs, n + 1, o, p)
  BY <1>2, <1>5, <1>6 DEF MadeAt
<1>8. ASSUME NEW i \in 1 .. n PROVE MadeAt(gs, i, o, p) <=> MadeAt(frames, i, o, p)
  <2>1. i \in Nat /\ i > 0 /\ \A j \in 1 .. i : gs[j] = frames[j]
    BY <1>1, <1>2
  <2> HIDE DEF gs
  <2> QED  BY <2>1, MadeSame
<1> HIDE DEF gs
<1>9. Made(gs, o, p) <=> \E i \in 1 .. n : MadeAt(gs, i, o, p)
  <2>1. \A i \in 1 .. Len(gs) : i = n + 1 \/ i \in 1 .. n
    BY <1>1, <1>2
  <2>2. \A i \in 1 .. n : i \in 1 .. Len(gs)
    BY <1>1, <1>2
  <2> QED  BY <1>7, <2>1, <2>2 DEF Made
<1>10. Made(gs, o, p) <=> Made(frames, o, p)
  BY <1>8, <1>9 DEF Made
<1> QED  BY <1>10 DEF gs

\* What a frame that goes on in its body adds.
LEMMA SteppedMade ==
  ASSUME WalkInv, frames # <<>>, frames' = Replace(Step(Current)), NEW o, NEW p
  PROVE  Made(frames', o, p) <=>
           (\/ Made(frames, o, p)
            \/ /\ Current.node \in Above(o) /\ Toward(Current, o)
               /\ InCell(frames, Len(frames), o, p))
<1> DEFINE n == Len(frames)
           gs == frames'
<1>1. frames \in Seq(FrameType) /\ n \in Nat /\ n \in 1 .. Len(frames) /\ Current = frames[n]
  BY StackTypes DEF Current
<1>2. SteppedTo(frames, gs, n)
  BY ReplacedIs
<1>3. Len(gs) = n
  BY <1>2 DEF SteppedTo
<1> HIDE DEF gs
<1>4. /\ \A i \in 1 .. n - 1 : MadeAt(gs, i, o, p) <=> MadeAt(frames, i, o, p)
      /\ MadeAt(gs, n, o, p) <=>
           \/ MadeAt(frames, n, o, p)
           \/ frames[n].node \in Above(o) /\ Toward(frames[n], o) /\ InCell(frames, n, o, p)
  BY <1>1, <1>2, MadeStepped
<1>5. \A i \in 1 .. n : i = n \/ i \in 1 .. n - 1
  BY <1>1
<1>6. \A i \in 1 .. n - 1 : i \in 1 .. n
  BY <1>1
<1>7. Made(gs, o, p) <=>
        (\/ Made(frames, o, p)
         \/ Current.node \in Above(o) /\ Toward(Current, o) /\ InCell(frames, n, o, p))
  BY <1>1, <1>3, <1>4, <1>5, <1>6 DEF Made
<1> QED  BY <1>7 DEF gs

\* Beginning an iteration leaves nothing behind.
LEMMA BeginMade ==
  ASSUME WalkInv, Begins, NEW o, NEW p
  PROVE  Made(frames', o, p) <=> Made(frames, o, p)
<1>1. frames # <<>> /\ Current.kid = 0 /\ frames' = Replace(Step(Current))
  BY DEF Begins
<1>2. Current.node \in Node
  BY <1>1, StackTypes
<1>3. 0 \notin DOMAIN Kids(Current.node)
  BY <1>2, KidsAfter
<1>4. ~Toward(Current, o)
  BY <1>1, <1>3 DEF Toward
<1> QED  BY <1>1, <1>4, SteppedMade

\* A node without children has nothing below it.
LEMMA UnderLeaf ==
  ASSUME NEW x \in Node, Kids(x) = <<>>, NEW o \in Node
  PROVE  Under(o, x) <=> o = x
<1>1. DOMAIN Kids(x) = {}
  OBVIOUS
<1>2. x \notin Above(o)
  BY <1>1, BelowKids
<1> QED  BY <1>2 DEF Under

\* The visit of a leaf puts the running iterations behind the leaf, and
\* changes nothing for the other operations.
LEMMA LeafMade ==
  ASSUME WalkInv, VisitsLeaf, Kids(Child(Current)) = <<>>,
         NEW o \in NodesOf[root], NEW p
  PROVE  Made(frames', o, p) <=>
           (Made(frames, o, p) \/ (o = Child(Current) /\ InCell(frames, Len(frames), o, p)))
<1> DEFINE x == Child(Current)
<1>1. frames # <<>> /\ AtChild(Current) /\ frames' = Replace(Step(Current))
  BY DEF VisitsLeaf
<1>2. /\ Current \in FrameType /\ Current.node \in Node /\ Current.kid \in DOMAIN Kids(Current.node)
      /\ x \in Node /\ Parent(x) = Current.node
  BY <1>1, StackTypes, StepsType
<1>3. o \in Node
  BY NodesClosed DEF WalkInv
<1>4. Toward(Current, o) <=> Under(o, x)
  BY <1>1, <1>2 DEF Toward, AtChild, Child
<1>5. Under(o, x) <=> o = x
  BY <1>2, <1>3, UnderLeaf
<1>6. o = x => Current.node \in Above(o)
  <2>1. Current.node # nullptr
    BY <1>2, NodesAreNumbers DEF nullptr
  <2> HIDE DEF x
  <2> QED  BY <1>2, <2>1, AboveStep
<1> HIDE DEF x
<1>7. Made(frames', o, p) <=>
           (Made(frames, o, p) \/ (o = x /\ InCell(frames, Len(frames), o, p)))
  BY <1>1, <1>4, <1>5, <1>6, SteppedMade
<1> QED  BY <1>7 DEF x

\* When the walk is about to visit an operation, all loops are in an iteration.
LEMMA AtOp ==
  ASSUME WalkInv, TilingInv, frames # <<>>, AtChild(Current), Tree[Child(Current)].kind = "Op",
         Kids(Child(Current)) = <<>>
  PROVE  VisitsOp(root, frames, Child(Current))
<1> DEFINE n == Len(frames)
           x == Child(Current)
<1>1. /\ root \in Roots /\ StackShape(frames, root) /\ StackFits(frames)
      /\ n \in Nat /\ n \in 1 .. n /\ Current = frames[n]
  BY StackTypes DEF WalkInv, TilingInv, Current
<1>2. /\ Current \in FrameType /\ Current.kid > 0 /\ Current.kid \in DOMAIN Kids(Current.node)
      /\ x \in Node /\ Parent(x) = Current.node /\ x = Kids(Current.node)[Current.kid]
  BY StackTypes, StepsType DEF Child
<1>3. x \in NodesOf[root]
  <2>1. Current.node \in NodesOf[root]
    BY <1>1, StackNodes
  <2> HIDE DEF x
  <2> QED  BY <1>1, <1>2, <2>1, NodesClosed
<1>4. VisitsChildren(Current)
  <2>1. Current.idx \in Nat
    BY <1>2 DEF FrameType
  <2> QED  BY <2>1 DEF AtChild, VisitsChildren, IsLoop
<1>5. ASSUME NEW i \in 1 .. n, IsLoop(frames[i]) PROVE frames[i].start < frames[i].end
  <2>1. CASE i = n
    BY <1>1, <1>2, <1>5, <2>1 DEF StackFits, LoopFits
  <2>2. CASE i # n
    <3>1. i \in 1 .. n - 1
      BY <1>1, <2>2
    <3> QED  BY <1>5, <3>1, InBodyBelow
  <2> QED  BY <2>1, <2>2
<1> QED  BY <1>1, <1>2, <1>3, <1>4, <1>5 DEF VisitsOp

\* No frame is past the child that leads to the operation it is about to visit.
LEMMA NonePassed ==
  ASSUME WalkInv, TilingInv, frames # <<>>, AtChild(Current), NEW i \in 1 .. Len(frames)
  PROVE  ~Passed(frames[i], Child(Current))
<1> DEFINE n == Len(frames)
           x == Child(Current)
           f == frames[i]
<1>1. /\ root \in Roots /\ StackShape(frames, root) /\ StackFits(frames)
      /\ n \in Nat /\ n \in 1 .. n /\ Current = frames[n]
  BY StackTypes DEF WalkInv, TilingInv, Current
<1>2. /\ Current \in FrameType /\ Current.kid \in DOMAIN Kids(Current.node)
      /\ x \in Node /\ Parent(x) = Current.node /\ x = Kids(Current.node)[Current.kid]
      /\ Current.node \in Node
  BY StackTypes, StepsType DEF Child
<1>3. f \in FrameType /\ f.node \in Node /\ f.kid \in Nat /\ f.idx \in Nat
  <2>1. f \in FrameType
    BY <1>1, StackFrame
  <2> QED  BY <2>1 DEF FrameType
<1>4. SUFFICES \/ IsLoop(f) /\ ~isInnermost(f) /\ f.kid = 1
               \/ /\ ~(IsLoop(f) /\ ~isInnermost(f)) /\ f.kid \in DOMAIN Kids(f.node)
                  /\ Under(x, Kids(f.node)[f.kid])
  <2>1. CASE IsLoop(f) /\ ~isInnermost(f) /\ f.kid = 1
    BY <2>1 DEF Passed
  <2>2. CASE /\ ~(IsLoop(f) /\ ~isInnermost(f)) /\ f.kid \in DOMAIN Kids(f.node)
             /\ Under(x, Kids(f.node)[f.kid])
    <3> HIDE DEF x, f
    <3>1. ASSUME NEW q \in DOMAIN Kids(f.node), Under(x, Kids(f.node)[q]) PROVE q = f.kid
      BY <1>2, <1>3, <2>2, <3>1, SiblingsApart
    <3>2. Passed(f, x) => \E q \in DOMAIN Kids(f.node) : Under(x, Kids(f.node)[q]) /\ f.kid > q
      BY <2>2 DEF Passed
    <3>3. ~(f.kid > f.kid)
      BY <1>3
    <3>4. ~Passed(f, x)
      BY <3>1, <3>2, <3>3
    <3> QED  BY <3>4 DEF x, f
  <2> QED  BY <1>4, <2>1, <2>2
<1>5. CASE i = n
  BY <1>1, <1>2, <1>5 DEF AtChild, Under
<1>6. CASE i # n
  <2> DEFINE g == frames[i + 1]
  <2>1. i \in 1 .. n - 1 /\ i + 1 \in 1 .. Len(frames) /\ i + 1 > 1 /\ i + 1 - 1 = i
    BY <1>1, <1>6
  <2>2. g \in FrameType /\ FrameFits(g) /\ g.node \in Node /\ EnteredFrom(f, g)
    BY <1>1, <2>1, StackFrame
  <2>3. InChild(f, g)
    BY <2>1, InBodyBelow
  <2>4. g.idx \in Nat
    BY <2>2 DEF FrameType
  <2>5. CASE g.idx > 1
    <3>1. g.node = f.node /\ f.idx = g.idx - 1 /\ f.kid = 1
      BY <2>2, <2>3, <2>4, <2>5 DEF EnteredFrom, InChild
    <3>2. g.idx \in 1 .. Len(Tree[g.node].loops) /\ Len(Tree[g.node].loops) \in Nat
      <4>1. Len(Tree[g.node].loops) \in Nat
        BY <2>2, TreeAssumption
      <4> QED  BY <2>2, <2>4, <2>5, <4>1 DEF FrameFits
    <3>3. IsLoop(f) /\ ~isInnermost(f)
      BY <2>4, <2>5, <3>1, <3>2 DEF IsLoop, isInnermost
    <3> QED  BY <3>1, <3>3
  <2>6. CASE ~(g.idx > 1)
    <3>1. /\ VisitsChildren(f) /\ f.kid \in DOMAIN Kids(f.node) /\ Kids(f.node)[f.kid] = g.node
      BY <2>2, <2>3, <2>4, <2>6 DEF EnteredFrom, InChild
    <3>2. ~(IsLoop(f) /\ ~isInnermost(f))
      BY <1>3, <3>1 DEF VisitsChildren, IsLoop
    <3>3. Under(x, g.node)
      <4>1. Under(Current.node, g.node)
        BY <1>1, <2>1, StackNodes
      <4>2. Above(x) = {Current.node} \cup Above(Current.node)
        <5>1. Current.node # nullptr
          BY <1>2, NodesAreNumbers DEF nullptr
        <5> HIDE DEF x
        <5> QED  BY <1>2, <5>1, AboveStep
      <4> HIDE DEF x, g
      <4> QED  BY <4>1, <4>2 DEF Under
    <3> QED  BY <3>1, <3>2, <3>3
  <2> QED  BY <2>5, <2>6
<1> QED  BY <1>5, <1>6

\* The block that is about to be executed is not behind the walk.
LEMMA NotMade ==
  ASSUME WalkInv, TilingInv, Ready(root), frames # <<>>, AtChild(Current),
         Tree[Child(Current)].kind = "Op", Kids(Child(Current)) = <<>>
  PROVE  ~Made(frames, Child(Current), dim_skew)
<1> DEFINE n == Len(frames)
           x == Child(Current)
<1>1. VisitsOp(root, frames, x)
  BY AtOp
<1>2. dim_skew \in [Dim -> Int] /\ \A d \in Dim : dim_skew[d] = Origin(frames, n, d)
  BY DEF WalkInv, TilingInv
<1>3. InCell(frames, n, x, dim_skew)
  BY <1>1, <1>2, CellOfOp
<1>4. /\ StackShape(frames, root) /\ StackFits(frames) /\ x \in NodesOf[root]
      /\ \A i \in 1 .. n : IsLoop(frames[i]) => frames[i].start < frames[i].end
  BY <1>1 DEF VisitsOp
<1>5. \A i \in 1 .. n : frames[i].node \in Above(x)
  BY <1>1, FramesAbove DEF Ready
<1>6. \A i \in 1 .. n : ~DoneAt(frames, i, x, dim_skew)
  BY <1>2, <1>3, <1>4, <1>5, CellsNest
<1>7. \A i \in 1 .. n : ~Passed(frames[i], x)
  BY NonePassed
<1> QED  BY <1>6, <1>7 DEF Made, MadeAt

\* At the end of its body a frame is past every child.
LEMMA PassedAtEnd ==
  ASSUME NEW f \in FrameType, f.kid > Steps(f), NEW o \in Node, f.node \in Above(o)
  PROVE  Passed(f, o)
<1>1. f.node \in Node /\ f.kid \in Nat
  BY DEF FrameType
<1>2. PICK q \in DOMAIN Kids(f.node) : Under(o, Kids(f.node)[q])
  BY <1>1, BelowKids
<1>3. CASE IsLoop(f) /\ ~isInnermost(f)
  BY <1>3 DEF Passed, Steps
<1>4. CASE ~(IsLoop(f) /\ ~isInnermost(f))
  <2>1. f.kid > Len(Kids(f.node))
    BY <1>4 DEF Steps
  <2>2. q \in Nat /\ q <= Len(Kids(f.node)) /\ Len(Kids(f.node)) \in Nat
    BY <1>1, <1>2, KidsAfter
  <2>3. f.kid > q
    BY <1>1, <2>1, <2>2
  <2> QED  BY <1>2, <1>4, <2>3 DEF Passed
<1> QED  BY <1>3, <1>4

\* Before its body a frame is past no child.
LEMMA PassedNone ==
  ASSUME NEW f \in FrameType, f.kid = 0, NEW o
  PROVE  ~Passed(f, o)
<1>1. f.node \in Node
  BY DEF FrameType
<1>2. \A q \in DOMAIN Kids(f.node) : ~(f.kid > q)
  BY <1>1, KidsAfter
<1> QED  BY <1>2 DEF Passed

\* The end of an iteration puts it behind the loop as a whole.
LEMMA EndMade ==
  ASSUME WalkInv, TilingInv, Ready(root), EndsBody,
         NEW o \in NodesOf[root], Tree[o].kind = "Op", NEW p \in [Dim -> Int]
  PROVE  Made(frames', o, p) <=> Made(frames, o, p)
<1> DEFINE n == Len(frames)
           gs == frames'
           f == Current
           d == DimOf(Current)
           step == Offsets[d][f.node].step
           g == [f EXCEPT !.kid = 0, !.start = @ + 1, !.moved = @ + step]
<1>1. /\ frames # <<>> /\ IsLoop(f) /\ f.kid > Steps(f) /\ gs = Replace(g)
  BY DEF EndsBody
<1>2. /\ root \in Roots /\ StackShape(frames, root) /\ StackFits(frames)
      /\ n \in Nat /\ n \in 1 .. n /\ f = frames[n] /\ frames \in Seq(FrameType)
      /\ f \in FrameType /\ FrameFits(f) /\ f.node \in Node
  BY <1>1, StackTypes DEF WalkInv, TilingInv, Current
<1>3. d \in Dim
  BY <1>1, <1>2, LoopOfFrame
<1>4. step \in Int
  BY <1>2, <1>3, OffsetsType
<1>5. /\ g \in FrameType /\ g.kid = 0 /\ g.node = f.node /\ g.idx = f.idx
      /\ g.start = f.start + 1 /\ g.end = f.end /\ g.moved = f.moved + step /\ g.from = f.from
  <2>1. /\ g \in FrameType /\ g.kid = 0 /\ g.node = f.node /\ g.idx = f.idx
    <3>1. f \in FrameType /\ step \in Int
      BY <1>2, <1>4
    <3> HIDE DEF f, step
    <3> QED  BY <3>1, FrameAdvanced, Zenon
  <2>2. f.end = g.end /\ g.from = f.from /\ g.start = f.start + 1 /\ g.moved = f.moved + step
    BY <1>2 DEF FrameType
  <2> QED  BY <2>1, <2>2
<1>6. Len(gs) = n /\ gs[n] = g /\ \A i \in 1 .. n - 1 : gs[i] = frames[i]
  <2> HIDE DEF g
  <2> QED  BY <1>1, <1>2, <1>5, ReplaceTop DEF Replace
<1>7. o \in Node
  BY <1>2, NodesClosed
<1>8. f.start < f.end /\ f.start \in Nat /\ f.end \in Int /\ f.from \in Int /\ f.moved \in Int
  <2>1. Steps(f) \in Nat /\ f.kid \in Nat
    BY <1>2, StepsType DEF FrameType
  <2>2. f.kid > 0
    BY <1>1, <2>1
  <2> QED  BY <1>1, <1>2, <2>2 DEF StackFits, LoopFits, FrameType
<1> HIDE DEF gs, g, n
<1>9. ASSUME NEW i \in 1 .. n - 1 PROVE MadeAt(gs, i, o, p) <=> MadeAt(frames, i, o, p)
  <2>1. i \in Nat /\ i > 0 /\ \A j \in 1 .. i : gs[j] = frames[j]
    BY <1>2, <1>6
  <2> QED  BY <2>1, MadeSame
<1>10. MadeAt(gs, n, o, p) <=> MadeAt(frames, n, o, p)
  <2>1. SUFFICES ASSUME f.node \in Above(o)
                 PROVE  (DoneAt(gs, n, o, p) \/ (Passed(g, o) /\ InCell(gs, n, o, p))) <=>
                        (DoneAt(frames, n, o, p) \/ (Passed(f, o) /\ InCell(frames, n, o, p)))
    BY <1>2, <1>5, <1>6 DEF MadeAt
  <2>2. Passed(f, o)
    BY <1>1, <1>2, <1>7, <2>1, PassedAtEnd
  <2>3. ~Passed(g, o)
    BY <1>5, PassedNone
  <2>4. (DoneAt(frames, n, o, p) \/ InCell(frames, n, o, p)) <=>
          (InCell(frames, n - 1, o, p) /\ (f.start + 1 >= f.end \/ p[d] < Origin(frames, n, d) + step))
    BY <1>1, <1>2, <1>8, <2>1, CellSplits DEF n
  <2>5. Origin(frames, n, d) = f.from + f.moved
    <3>1. n \in Nat \ {0} /\ OverDim(frames[n], d)
      BY <1>1, <1>2 DEF OverDim
    <3> QED  BY <1>2, <3>1, LevelStep
  <2>6. Origin(gs, n, d) = f.from + (f.moved + step) /\ DimOf(g) = d /\ IsLoop(g)
    <3>1. DimOf(g) = d /\ IsLoop(g)
      BY <1>1, <1>5 DEF DimOf, IsLoop
    <3>2. n \in Nat \ {0} /\ OverDim(gs[n], d)
      BY <1>2, <1>6, <3>1 DEF OverDim
    <3> QED  BY <1>5, <1>6, <3>1, <3>2, LevelStep
  <2>7. Origin(gs, n, d) = Origin(frames, n, d) + step
    <3> HIDE DEF step, f, d
    <3> QED  BY <1>4, <1>8, <2>5, <2>6
  <2>8. InCell(gs, n - 1, o, p) <=> InCell(frames, n - 1, o, p)
    <3>1. n - 1 \in Nat
      BY <1>2
    <3> QED  BY <1>6, <3>1, MadeSame
  <2>9. DoneAt(gs, n, o, p) <=>
          (InCell(gs, n - 1, o, p) /\ (g.start >= g.end \/ p[d] < Origin(gs, n, d)))
    BY <1>6, <2>6 DEF DoneAt
  <2> QED  BY <1>5, <2>2, <2>3, <2>4, <2>7, <2>8, <2>9
<1>11. \A i \in 1 .. n : i = n \/ i \in 1 .. n - 1
  BY <1>2
<1>12. Made(gs, o, p) <=> Made(frames, o, p)
  BY <1>6, <1>9, <1>10, <1>11 DEF Made, n
<1> QED  BY <1>12 DEF gs

\* A frame that returns has all of the iteration it was entered in behind it.
LEMMA ReturnsWhole ==
  ASSUME WalkInv, Ready(root), Returns,
         NEW o \in NodesOf[root], Tree[o].kind = "Op", NEW p
  PROVE  MadeAt(frames, Len(frames), o, p) <=>
           (Current.node \in Above(o) /\ InCell(frames, Len(frames) - 1, o, p))
<1> DEFINE n == Len(frames)
           f == Current
<1>1. /\ frames # <<>> /\ root \in Roots /\ StackShape(frames, root)
      /\ n \in Nat /\ n \in 1 .. Len(frames) /\ f = frames[n] /\ f \in FrameType
  BY StackTypes DEF WalkInv, Current, Returns
<1>2. o \in Node
  BY <1>1, NodesClosed
<1> SUFFICES ASSUME f.node \in Above(o)
             PROVE  (DoneAt(frames, n, o, p) \/ (Passed(f, o) /\ InCell(frames, n, o, p)))
                      <=> InCell(frames, n - 1, o, p)
  BY <1>1 DEF MadeAt
<1>3. CASE ~IsLoop(f) /\ f.kid > Steps(f)
  <2>1. Passed(f, o)
    BY <1>1, <1>2, <1>3, PassedAtEnd
  <2>2. InCell(frames, n, o, p) <=> InCell(frames, n - 1, o, p)
    BY <1>1, <1>3, CellStep
  <2> QED  BY <1>1, <1>3, <2>1, <2>2 DEF DoneAt
<1>4. CASE IsLoop(f) /\ f.kid = 0 /\ f.start >= f.end
  <2>1. ~Passed(f, o)
    BY <1>1, <1>4, PassedNone
  <2> QED  BY <1>1, <1>4, <2>1 DEF DoneAt
<1> QED  BY <1>3, <1>4 DEF Returns

\* What the caller has behind it when a frame returns.
LEMMA ReturnMade ==
  ASSUME WalkInv, TilingInv, Ready(root), Returns, Len(frames) > 1,
         NEW o \in NodesOf[root], Tree[o].kind = "Op", NEW p
  PROVE  Made(frames', o, p) <=> Made(frames, o, p)
<1> DEFINE n == Len(frames)
           m == Len(frames) - 1
           gs == frames'
           f == frames[m]
           g == Current
<1>1. /\ frames # <<>> /\ root \in Roots /\ StackShape(frames, root) /\ frames \in Seq(FrameType)
      /\ n \in Nat /\ n \in 1 .. Len(frames) /\ m \in 1 .. Len(frames) /\ n - 1 = m
      /\ n > 1 /\ g = frames[n] /\ gs = Returned
  BY StackTypes DEF WalkInv, Current, Returns
<1>2. o \in Node
  BY <1>1, NodesClosed
<1>3. /\ g \in FrameType /\ FrameFits(g) /\ g.node \in Node /\ EnteredFrom(f, g)
      /\ f \in FrameType /\ f.node \in Node
  BY <1>1, StackFrame
<1>4. InChild(f, g)
  BY <1>1 DEF TilingInv, StackFits
<1>5. g.idx \in Nat /\ f.idx \in Nat
  BY <1>3 DEF FrameType
<1>6. g.node \in Above(o) <=> (f.node \in Above(o) /\ Toward(f, o))
  <2>1. CASE g.idx > 1
    <3>1. g.node = f.node /\ f.idx = g.idx - 1 /\ f.kid = 1
      BY <1>3, <1>4, <1>5, <2>1 DEF EnteredFrom, InChild
    <3>2. g.idx \in 1 .. Len(Tree[g.node].loops) /\ Len(Tree[g.node].loops) \in Nat
      <4>1. Len(Tree[g.node].loops) \in Nat
        BY <1>3, TreeAssumption
      <4> QED  BY <1>3, <1>5, <2>1, <4>1 DEF FrameFits
    <3>3. IsLoop(f) /\ ~isInnermost(f)
      BY <1>5, <2>1, <3>1, <3>2 DEF IsLoop, isInnermost
    <3>4. Toward(f, o)
      BY <3>1, <3>3 DEF Toward
    <3> QED  BY <3>1, <3>4
  <2>2. CASE ~(g.idx > 1)
    <3>1. /\ VisitsChildren(f) /\ f.kid \in DOMAIN Kids(f.node) /\ Kids(f.node)[f.kid] = g.node
      BY <1>3, <1>4, <1>5, <2>2 DEF EnteredFrom, InChild
    <3>2. ~(IsLoop(f) /\ ~isInnermost(f))
      BY <1>5, <3>1 DEF VisitsChildren, IsLoop
    <3>3. Toward(f, o) <=> Under(o, g.node)
      BY <3>1, <3>2 DEF Toward
    <3>4. o # g.node
      BY <1>3 DEF FrameFits
    <3>5. Above(g.node) = {f.node} \cup Above(f.node)
      BY <1>3, <3>1, AboveKid
    <3>6. g.node \in Above(o) => f.node \in Above(o)
      <4>1. g.node \in Above(o) => Above(g.node) \subseteq Above(o)
        BY <1>2, AboveTransitive
      <4> QED  BY <3>5, <4>1
    <3> QED  BY <3>3, <3>4, <3>6 DEF Under
  <2> QED  BY <2>1, <2>2
<1>7. MadeAt(frames, n, o, p) <=> (g.node \in Above(o) /\ InCell(frames, m, o, p))
  BY ReturnsWhole
<1>8. SteppedTo(frames, gs, m)
  BY <1>1, ReturnedIs
<1>9. Len(gs) = m
  BY <1>8 DEF SteppedTo
<1> HIDE DEF gs, n, m
<1>10. /\ \A i \in 1 .. m - 1 : MadeAt(gs, i, o, p) <=> MadeAt(frames, i, o, p)
       /\ MadeAt(gs, m, o, p) <=>
            \/ MadeAt(frames, m, o, p)
            \/ f.node \in Above(o) /\ Toward(f, o) /\ InCell(frames, m, o, p)
  BY <1>1, <1>8, MadeStepped
<1>11. MadeAt(gs, m, o, p) <=> (MadeAt(frames, m, o, p) \/ MadeAt(frames, n, o, p))
  BY <1>6, <1>7, <1>10
<1>12. /\ \A i \in 1 .. n : i = n \/ i = m \/ i \in 1 .. m - 1
       /\ \A i \in 1 .. m : i = m \/ i \in 1 .. m - 1
       /\ \A i \in 1 .. m - 1 : i \in 1 .. n /\ i \in 1 .. m
       /\ m \in 1 .. m /\ m \in 1 .. n /\ n \in 1 .. n
  BY <1>1 DEF n, m
<1>13. Made(gs, o, p) <=> \E i \in 1 .. m : MadeAt(gs, i, o, p)
  BY <1>9 DEF Made
<1>14. Made(frames, o, p) <=> \E i \in 1 .. n : MadeAt(frames, i, o, p)
  BY DEF Made, n
<1>15. Made(gs, o, p) <=> Made(frames, o, p)
  BY <1>10, <1>11, <1>12, <1>13, <1>14
<1> QED  BY <1>15 DEF gs

\* When the root returns, all of the iteration space is behind the walk.
LEMMA FinishMade ==
  ASSUME WalkInv, Ready(root), Returns, Len(frames) = 1,
         NEW o \in NodesOf[root], Tree[o].kind = "Op", NEW p \in Corners(o)
  PROVE  Made(frames, o, p)
<1>1. /\ frames # <<>> /\ root \in Roots /\ StackShape(frames, root)
      /\ 1 \in 1 .. Len(frames) /\ Current = frames[1]
  BY DEF WalkInv, Current, Returns
<1>2. frames[1].node = root /\ FrameFits(frames[1])
  BY <1>1, StackFrame DEF StackShape
<1>3. root # o
  BY <1>2 DEF FrameFits
<1>4. root \in Above(o)
  BY <1>1, <1>3 DEF NodesOf, Above
<1>5. InCell(frames, 0, o, p)
  BY CornersInSpace
<1>6. MadeAt(frames, 1, o, p)
  BY <1>1, <1>2, <1>4, <1>5, ReturnsWhole
<1> QED  BY <1>1, <1>6 DEF Made

-----------------------------------------------------------------------------
(* Every block is executed once.                                            *)

\* No entry of s comes twice.
Once(s) == \A i, j \in DOMAIN s : s[i] = s[j] => i = j

\* An operation was executed at the corners that are behind the walk, once at
\* each.
ExecInv ==
  /\ DOMAIN executed = Ops
  /\ outcome \in {"walking", "finished"} =>
       \A o \in Ops : executed[o] \in Seq([Dim -> Int]) /\ Once(executed[o])
  /\ outcome = "walking" =>
       \A o \in Ops : \A p :
         p \in ToSet(executed[o]) <=> (p \in Corners(o) /\ Made(frames, o, p))
  /\ outcome = "finished" => \A o \in Ops : ToSet(executed[o]) = Corners(o)

\* One more entry at the end of a sequence that does not have it yet.
LEMMA OnceMore ==
  ASSUME NEW T, NEW s \in Seq(T), NEW x \in T
  PROVE  /\ Append(s, x) \in Seq(T) /\ ToSet(Append(s, x)) = ToSet(s) \cup {x}
         /\ Once(s) /\ x \notin ToSet(s) => Once(Append(s, x))
<1> DEFINE t == Append(s, x)
           n == Len(s)
<1>1. /\ t \in Seq(T) /\ Len(t) = n + 1 /\ n \in Nat /\ t[n + 1] = x /\ \A i \in 1 .. n : t[i] = s[i]
      /\ DOMAIN s = 1 .. n /\ DOMAIN t = 1 .. n + 1
  OBVIOUS
<1>2. \A i \in 1 .. n + 1 : i = n + 1 \/ i \in 1 .. n
  BY <1>1
<1>3. \A i \in 1 .. n : i \in 1 .. n + 1 /\ i # n + 1
  BY <1>1
<1>4. n + 1 \in 1 .. n + 1
  BY <1>1
<1> HIDE DEF t, n
<1>5. ToSet(t) = ToSet(s) \cup {x}
  BY <1>1, <1>2, <1>3, <1>4 DEF ToSet
<1>6. ASSUME Once(s), x \notin ToSet(s) PROVE Once(t)
  <2>1. \A i \in 1 .. n : s[i] # x
    BY <1>1, <1>6 DEF ToSet
  <2> QED  BY <1>1, <1>2, <1>6, <2>1 DEF Once
<1> QED  BY <1>1, <1>5, <1>6 DEF t

\* A step that executes nothing and leaves the same behind it.
LEMMA ExecKept ==
  ASSUME root' = root, ExecInv, outcome = "walking", executed' = executed,
         outcome' = "walking" =>
           \A o \in Ops : \A p \in Corners(o) : Made(frames', o, p) <=> Made(frames, o, p),
         outcome' = "finished" => \A o \in Ops : \A p \in Corners(o) : Made(frames, o, p)
  PROVE  ExecInv'
<1>1. Ops' = Ops
  BY DEF Ops, Nodes
<1>2. DOMAIN executed = Ops /\ \A o \in Ops : executed[o] \in Seq([Dim -> Int]) /\ Once(executed[o])
  BY DEF ExecInv
<1>3. \A o \in Ops : \A p : p \in ToSet(executed[o]) <=> (p \in Corners(o) /\ Made(frames, o, p))
  BY DEF ExecInv
<1>4. outcome' = "walking" =>
        \A o \in Ops : \A p : p \in ToSet(executed[o]) <=> (p \in Corners(o) /\ Made(frames', o, p))
  BY <1>3
<1>5. outcome' = "finished" => \A o \in Ops : ToSet(executed[o]) = Corners(o)
  <2>1. SUFFICES ASSUME outcome' = "finished", NEW o \in Ops PROVE ToSet(executed[o]) = Corners(o)
    OBVIOUS
  <2>2. \A p : p \in ToSet(executed[o]) <=> p \in Corners(o)
    BY <1>3, <2>1
  <2> QED  BY <2>2
<1> QED  BY <1>1, <1>2, <1>4, <1>5 DEF ExecInv

\* The operations of the mapping.
LEMMA OpsAre ==
  ASSUME NEW o \in Ops
  PROVE  o \in NodesOf[root] /\ Tree[o].kind = "Op"
BY DEF Ops, Nodes

\* The visit of a leaf executes the block at the running offset if the leaf is
\* an operation.
LEMMA LeafExec ==
  ASSUME WalkInv, root' = root, TilingInv, Ready(root), \A n \in Nodes : ChildrenLegal(n),
         ExecInv, outcome = "walking", VisitsLeaf, GoesOrFails
  PROVE  ExecInv'
<1> DEFINE x == Child(Current)
           n == Len(frames)
<1>1. /\ frames # <<>> /\ AtChild(Current) /\ Tree[x].kind \in {"Op", "Trans"}
      /\ executed' = IF Tree[x].kind = "Op" THEN [executed EXCEPT ![x] = Append(@, dim_skew)]
                     ELSE executed
  BY DEF VisitsLeaf
<1>2. x \in Nodes
  <2>1. root \in Roots /\ StackShape(frames, root) /\ n \in Nat /\ n \in 1 .. Len(frames)
        /\ Current = frames[n]
    BY <1>1, StackTypes DEF WalkInv, Current
  <2>2. Current.node \in NodesOf[root]
    BY <2>1, StackNodes
  <2>3. Current \in FrameType
    BY <1>1, StackTypes
  <2>4. Current.kid \in DOMAIN Kids(Current.node)
    BY <1>1, <2>3, StepsType
  <2> QED  BY <2>1, <2>2, <2>4, NodesClosed DEF Child, Nodes
<1>3. Kids(x) = <<>>
  BY <1>1, <1>2 DEF ChildrenLegal
<1>4. ASSUME NEW o \in Ops, NEW p
      PROVE  Made(frames', o, p) <=> (Made(frames, o, p) \/ (o = x /\ InCell(frames, n, o, p)))
  BY <1>3, OpsAre, LeafMade
<1>5. CASE Tree[x].kind # "Op"
  <2>1. ASSUME NEW o \in Ops, NEW p PROVE Made(frames', o, p) <=> Made(frames, o, p)
    <3>1. o # x
      BY <1>5, OpsAre
    <3> QED  BY <1>4, <3>1
  <2>2. executed' = executed
    BY <1>1, <1>5
  <2>3. outcome' # "finished"
    BY DEF GoesOrFails
  <2> HIDE DEF x
  <2> QED  BY <2>1, <2>2, <2>3, ExecKept
<1>6. CASE Tree[x].kind = "Op"
  <2>1. x \in Ops
    BY <1>2, <1>6 DEF Ops
  <2>2. VisitsOp(root, frames, x) /\ ~Made(frames, x, dim_skew)
    BY <1>1, <1>3, <1>6, AtOp, NotMade
  <2>3. dim_skew \in [Dim -> Int] /\ \A d \in Dim : dim_skew[d] = Origin(frames, n, d)
    BY DEF WalkInv, TilingInv
  <2>4. /\ dim_skew \in Corners(x) /\ InCell(frames, n, x, dim_skew)
        /\ \A p \in Corners(x) : InCell(frames, n, x, p) => p = dim_skew
    BY <2>2, <2>3, CellOfOp
  <2>5. Ops' = Ops
    BY DEF Ops, Nodes
  <2>6. /\ DOMAIN executed = Ops
        /\ \A o \in Ops : executed[o] \in Seq([Dim -> Int]) /\ Once(executed[o])
        /\ \A o \in Ops : \A p : p \in ToSet(executed[o]) <=> (p \in Corners(o) /\ Made(frames, o, p))
    BY DEF ExecInv
  <2> HIDE DEF x, n
  <2>7. /\ DOMAIN executed' = Ops /\ executed'[x] = Append(executed[x], dim_skew)
        /\ \A o \in Ops : o # x => executed'[o] = executed[o]
    BY <1>1, <1>6, <2>1, <2>6
  <2>8. /\ executed'[x] \in Seq([Dim -> Int]) /\ Once(executed'[x])
        /\ ToSet(executed'[x]) = ToSet(executed[x]) \cup {dim_skew}
    <3>1. dim_skew \notin ToSet(executed[x])
      BY <2>1, <2>2, <2>6
    <3>2. executed[x] \in Seq([Dim -> Int]) /\ Once(executed[x])
      BY <2>1, <2>6
    <3> QED  BY <2>3, <2>7, <3>1, <3>2, OnceMore
  <2>9. ASSUME NEW o \in Ops, NEW p
        PROVE  p \in ToSet(executed'[o]) <=> (p \in Corners(o) /\ Made(frames', o, p))
    <3>1. CASE o = x
      <4>1. p \in ToSet(executed'[o]) <=> ((p \in Corners(x) /\ Made(frames, x, p)) \/ p = dim_skew)
        BY <2>1, <2>6, <2>8, <3>1
      <4> QED  BY <1>4, <2>4, <3>1, <4>1
    <3>2. CASE o # x
      BY <1>4, <2>6, <2>7, <3>2
    <3> QED  BY <3>1, <3>2
  <2>10. outcome' # "finished"
    BY DEF GoesOrFails
  <2>11. \A o \in Ops : executed'[o] \in Seq([Dim -> Int]) /\ Once(executed'[o])
    BY <2>6, <2>7, <2>8
  <2> QED  BY <2>5, <2>7, <2>9, <2>10, <2>11 DEF ExecInv
<1> QED  BY <1>5, <1>6

\* Every step of the walk keeps the cells and what was executed in them.
LEMMA MoveKeeps ==
  ASSUME WalkInv, WalkInv', root' = root, FlagInv, TilingInv, ExecInv, Ready(root),
         \A n \in Nodes : ChildrenLegal(n), WalkNext
  PROVE  TilingInv' /\ ExecInv'
<1>1. outcome = "walking" /\ WalkMove
  BY WalkMoves DEF Ready, Regular
<1>2. CountsPositive(root)
  BY DEF Ready, Regular
<1>3. ASSUME NEW o \in Ops, NEW p \in Corners(o)
      PROVE  o \in NodesOf[root] /\ Tree[o].kind = "Op" /\ p \in [Dim -> Int]
  <2>1. o \in NodesOf[root] /\ Tree[o].kind = "Op"
    BY OpsAre
  <2> QED  BY <2>1, CornersAre
<1>4. CASE (\E f : Enters(f)) /\ GoesOrFails
  <2>1. PICK f : Enters(f)
    BY <1>4
  <2>2. TilingInv'
    BY <1>2, <2>1, EnterFits
  <2>3. \A o \in Ops : \A p \in Corners(o) : Made(frames', o, p) <=> Made(frames, o, p)
    BY <1>3, <2>1, <2>2, EnterMade
  <2>4. executed' = executed /\ outcome' # "finished"
    BY <1>1, <1>4, <2>1 DEF Enters, GoesOrFails
  <2> QED  BY <1>1, <2>2, <2>3, <2>4, ExecKept
<1>5. CASE Begins /\ GoesOrFails
  <2>1. \A o \in Ops : \A p \in Corners(o) : Made(frames', o, p) <=> Made(frames, o, p)
    BY <1>5, BeginMade
  <2>2. executed' = executed /\ outcome' # "finished"
    BY <1>1, <1>5 DEF Begins, GoesOrFails
  <2> QED  BY <1>1, <1>5, <2>1, <2>2, ExecKept, ReplaceFits
<1>6. CASE VisitsLeaf /\ GoesOrFails
  BY <1>1, <1>6, LeafExec, ReplaceFits
<1>7. CASE EndsBody /\ GoesOrFails
  <2>1. \A o \in Ops : \A p \in Corners(o) : Made(frames', o, p) <=> Made(frames, o, p)
    BY <1>3, <1>7, EndMade
  <2>2. executed' = executed /\ outcome' # "finished"
    BY <1>1, <1>7 DEF EndsBody, GoesOrFails
  <2> QED  BY <1>1, <1>7, <2>1, <2>2, ExecKept, EndFits
<1>8. CASE UNCHANGED <<frames, dim_skew, executed>> /\ GoesOrFails
  <2>1. TilingInv'
    BY <1>8 DEF TilingInv
  <2>2. executed' = executed /\ frames' = frames /\ outcome' # "finished"
    BY <1>1, <1>8 DEF GoesOrFails
  <2> QED  BY <1>1, <2>1, <2>2, ExecKept
<1>9. CASE /\ Returns
           /\ outcome' = "walking" => Len(frames) > 1
           /\ outcome' = "finished" => Len(frames) = 1 /\ IsLoop(Current)
  <2>1. outcome' = "walking" =>
          \A o \in Ops : \A p \in Corners(o) : Made(frames', o, p) <=> Made(frames, o, p)
    BY <1>3, <1>9, ReturnMade
  <2>2. outcome' = "finished" => \A o \in Ops : \A p \in Corners(o) : Made(frames, o, p)
    BY <1>3, <1>9, FinishMade
  <2>3. executed' = executed
    BY <1>9 DEF Returns
  <2> QED  BY <1>1, <1>9, <2>1, <2>2, <2>3, ExecKept, ReturnFits
<1> QED  BY <1>1, <1>4, <1>5, <1>6, <1>7, <1>8, <1>9 DEF WalkMove

\* The walk waits for InitAnalysis, which has computed the offsets.
OrderInv ==
  /\ outcome # "walking" => pass = "done"
  /\ pass \notin {"offset", "aborted"} => OffsetsDefined(root)

\* The inductive invariant of the theorem.
TiledInv ==
  /\ WalkInv /\ PassesInv /\ FlagInv /\ OrderInv
  /\ Ready(root) => TilingInv /\ ExecInv

\* Before the walk nothing runs and nothing is executed.
LEMMA TiledInitially ==
  ASSUME Init
  PROVE  TiledInv
<1>1. WalkInv /\ PassesInv
  BY WalkInitially, PassesInitially
<1>2. /\ frames = <<>> /\ outcome = "walking" /\ executed = [o \in Ops |-> <<>>]
      /\ vec_last_dim_ = [d \in Dim |-> <<>>] /\ dim_skew = [d \in Dim |-> 0] /\ pass = "offset"
  BY DEF Init, WalkEmpty, TensorsEmpty
<1>3. FlagInv
  BY <1>2 DEF FlagInv, FlagsTell
<1>4. OrderInv
  BY <1>2 DEF OrderInv
<1>5. TilingInv
  <2>1. Len(frames) = 0
    BY <1>2
  <2>2. \A d \in Dim : dim_skew[d] = Origin(frames, Len(frames), d)
    BY <1>2, <2>1, LevelBase
  <2>3. StackFits(frames)
    BY <2>1 DEF StackFits
  <2> QED  BY <2>2, <2>3 DEF TilingInv
<1>6. ExecInv
  <2>1. \A o \in Ops : executed[o] = <<>>
    BY <1>2
  <2>2. \A o \in Ops : executed[o] \in Seq([Dim -> Int]) /\ Once(executed[o])
                       /\ ToSet(executed[o]) = {}
    <3>1. <<>> \in Seq([Dim -> Int])
      OBVIOUS
    <3>2. Once(<<>>) /\ ToSet(<<>>) = {}
      BY DEF Once, ToSet
    <3> QED  BY <2>1, <3>1, <3>2
  <2>3. \A o \in Ops : \A p : ~Made(frames, o, p)
    <3>1. Len(frames) = 0
      BY <1>2
    <3> QED  BY <3>1 DEF Made
  <2> QED  BY <1>2, <2>2, <2>3 DEF ExecInv
<1> QED  BY <1>1, <1>3, <1>4, <1>5, <1>6 DEF TiledInv

\* Every step of the evaluation keeps the invariant.
LEMMA TiledStep ==
  ASSUME TiledInv, [Next]_vars
  PROVE  TiledInv'
<1>1. WalkInv' /\ \A d \in Dim : WalkStep(d)
  BY EvaluationStep DEF TiledInv
<1>2. PassesInv'
  BY PassesStep DEF TiledInv
<1>3. FlagInv'
  <2>1. ASSUME NEW d \in Dim PROVE FlagsTell(LoopFrames(d), vec_last_dim_[d])'
    BY <1>1, FlagStep DEF TiledInv
  <2> QED  BY <2>1 DEF FlagInv
<1>4. CASE Analyse
  <2>1. pass = "done" /\ WalkNext /\ UNCHANGED <<root, unvisited, verdict, tensorVars>>
    BY <1>4 DEF Analyse
  <2>2. pass' = pass /\ root' = root
    BY <2>1 DEF tensorVars
  <2>3. OrderInv'
    BY <2>1, <2>2 DEF OrderInv, TiledInv
  <2>4. \A n \in Nodes : ChildrenLegal(n)
    <3>1. verdict = "accepted" /\ unvisited = <<>>
      BY <2>1 DEF TiledInv, PassesInv, InTurn, CountInv, CountControl
    <3>2. \A n \in Nodes : ~Listed(n, unvisited)
      BY <3>1 DEF Listed
    <3> QED  BY <3>1, <3>2 DEF TiledInv, PassesInv, VisitedLegal
  <2>5. Ready(root)' => TilingInv' /\ ExecInv'
    <3>1. SUFFICES ASSUME Ready(root)' PROVE TilingInv' /\ ExecInv'
      OBVIOUS
    <3>2. Ready(root)
      BY <2>2, <3>1
    <3> QED  BY <1>1, <2>1, <2>2, <2>4, <3>2, MoveKeeps DEF TiledInv
  <2> QED  BY <1>1, <1>2, <1>3, <2>3, <2>5 DEF TiledInv
<1>5. CASE GetLoopCount \/ Initialise \/ Stop \/ UNCHANGED vars
  <2>1. UNCHANGED walkVars /\ root' = root
    <3>1. CASE GetLoopCount
      BY <3>1 DEF GetLoopCount, Evaluate, Visit, FinishCount
    <3>2. CASE Initialise
      BY <3>2 DEF Initialise, TensorNext, OffsetPasses, initOpTensor, StartTensorPass,
         initTensor, FinishTensors
    <3>3. CASE Stop \/ UNCHANGED vars
      BY <3>3 DEF Stop, vars
    <3> QED  BY <1>5, <3>1, <3>2, <3>3
  <2>2. UNCHANGED <<frames, dim_skew, executed, outcome>> /\ Ops' = Ops
    BY <2>1 DEF walkVars, Ops, Nodes
  <2>3. OrderInv'
    <3>1. CASE Initialise
      <4>1. TensorNext
        BY <3>1 DEF Initialise
      <4>2. pass # "done"
        BY <4>1 DEF TensorNext, OffsetPasses, initOpTensor, StartTensorPass, initTensor,
           FinishTensors
      <4>3. (pass' = "aborted" \/ OffsetsDefined(root))
        <5>1. CASE OffsetPasses
          BY <5>1 DEF OffsetPasses
        <5>2. CASE initOpTensor \/ StartTensorPass \/ initTensor \/ FinishTensors
          <6>1. pass \notin {"offset", "aborted"}
            BY <5>2 DEF initOpTensor, StartTensorPass, initTensor, FinishTensors
          <6> QED  BY <6>1 DEF TiledInv, OrderInv
        <5> QED  BY <4>1, <5>1, <5>2 DEF TensorNext
      <4> QED  BY <2>1, <2>2, <4>2, <4>3 DEF TiledInv, OrderInv
    <3>2. CASE GetLoopCount \/ Stop \/ UNCHANGED vars
      <4>1. pass' = pass
        BY <3>2 DEF GetLoopCount, Stop, vars, tensorVars
      <4> QED  BY <2>1, <2>2, <4>1 DEF TiledInv, OrderInv
    <3> QED  BY <1>5, <3>1, <3>2
  <2>4. Ready(root)' => TilingInv' /\ ExecInv'
    <3>1. Ready(root)' => Ready(root)
      BY <2>1
    <3>2. TilingInv => TilingInv'
      BY <2>2 DEF TilingInv
    <3>3. ExecInv => ExecInv'
      BY <2>2 DEF ExecInv
    <3> QED  BY <3>1, <3>2, <3>3 DEF TiledInv
  <2> QED  BY <1>1, <1>2, <1>3, <2>3, <2>4 DEF TiledInv
<1> QED  BY <1>4, <1>5 DEF Next

-----------------------------------------------------------------------------
(* What the legality check says of the outermost loops.                     *)

\* A nest adds its loop over d, of which there is at most one.
LEMMA LoopsOverAppend ==
  ASSUME NEW nests \in Seq(Seq(Loop)), NEW own \in Seq(Loop), NEW d,
         \A i, j \in DOMAIN own : own[i].dim = own[j].dim => i = j
  PROVE  /\ \A i \in DOMAIN own : own[i].dim = d =>
              LoopsOver(Append(nests, own), d) = Append(LoopsOver(nests, d), own[i])
         /\ (\A i \in DOMAIN own : own[i].dim # d) =>
              LoopsOver(Append(nests, own), d) = LoopsOver(nests, d)
<1> DEFINE p == FlattenSeq(nests)
           q == FlattenSeq(Append(nests, own))
           n == Len(p)
           m == Len(own)
           base == LoopsOver(nests, d)
<1>1. p \in Seq(Loop) /\ n \in Nat /\ m \in Nat /\ DOMAIN own = 1 .. m
  BY FlattenType
<1>2. q = p \o own
  BY FlattenAppend
<1>3. Append(nests, own) \in Seq(Seq(Loop))
  OBVIOUS
<1>4. PICK h \in [0 .. n -> Seq(Loop)] : Gathers(h, p, d) /\ base = h[n]
  BY LoopsOverPrefixes
<1>5. PICK g \in [0 .. Len(q) -> Seq(Loop)] :
        Gathers(g, q, d) /\ LoopsOver(Append(nests, own), d) = g[Len(q)]
  BY <1>3, LoopsOverPrefixes
<1> HIDE DEF p, q, n, m, base
<1>6. Len(q) = n + m /\ (\A k \in 1 .. n : q[k] = p[k]) /\ (\A k \in 1 .. m : q[n + k] = own[k])
  BY <1>1, <1>2 DEF n, m
<1>7. g[n] = base
  <2> DEFINE G == {k \in 0 .. n : g[k] = h[k]}
  <2>1. 0 \in G
    BY <1>1, <1>4, <1>5 DEF Gathers
  <2>2. ASSUME NEW k \in 1 .. n, k - 1 \in G PROVE k \in G
    <3>1. k \in 1 .. Len(q) /\ k \in 0 .. n /\ q[k] = p[k] /\ g[k - 1] = h[k - 1]
      BY <1>1, <1>6, <2>2
    <3>2. h[k] = IF p[k].dim = d THEN Append(h[k - 1], p[k]) ELSE h[k - 1]
      BY <1>4 DEF Gathers, n
    <3>3. g[k] = IF q[k].dim = d THEN Append(g[k - 1], q[k]) ELSE g[k - 1]
      BY <1>5, <3>1 DEF Gathers
    <3> QED  BY <3>1, <3>2, <3>3
  <2>3. \A k \in 0 .. n : k \in G
    <3> HIDE DEF G
    <3> QED  BY <1>1, <2>1, <2>2, UpInduction
  <2>4. n \in G
    BY <1>1, <2>3
  <2> QED  BY <1>4, <2>4
<1>8. ASSUME NEW k \in 1 .. m
      PROVE  g[n + k] = IF own[k].dim = d THEN Append(g[n + (k - 1)], own[k]) ELSE g[n + (k - 1)]
  <2> DEFINE j == n + k
  <2>1. j \in 1 .. Len(q) /\ j - 1 = n + (k - 1)
    BY <1>1, <1>6
  <2>2. q[j] = own[k]
    BY <1>6, Zenon
  <2> HIDE DEF j
  <2>3. g[j] = IF q[j].dim = d THEN Append(g[j - 1], q[j]) ELSE g[j - 1]
    BY <1>5, <2>1 DEF Gathers
  <2>4. g[j] = IF own[k].dim = d THEN Append(g[n + (k - 1)], own[k]) ELSE g[n + (k - 1)]
    BY <2>1, <2>2, <2>3
  <2> QED  BY <2>4 DEF j
<1>9. LoopsOver(Append(nests, own), d) = g[n + m]
  BY <1>5, <1>6
<1>10. ASSUME \A i \in DOMAIN own : own[i].dim # d PROVE g[n + m] = base
  <2> DEFINE G == {k \in 0 .. m : g[n + k] = base}
  <2>1. 0 \in G
    BY <1>1, <1>7
  <2>2. ASSUME NEW k \in 1 .. m, k - 1 \in G PROVE k \in G
    <3>1. k \in 0 .. m /\ own[k].dim # d
      <4>1. k \in DOMAIN own
        BY <1>1, Zenon
      <4>2. own[k].dim # d
        BY <1>10, <4>1, Zenon
      <4>3. k \in 0 .. m
        BY <1>1
      <4> QED  BY <4>2, <4>3
    <3>2. g[n + (k - 1)] = base
      BY <2>2, Zenon
    <3> QED  BY <1>8, <3>1, <3>2
  <2>3. \A k \in 0 .. m : k \in G
    <3> HIDE DEF G
    <3> QED  BY <1>1, <2>1, <2>2, UpInduction
  <2>4. m \in G
    BY <1>1, <2>3
  <2> QED  BY <2>4
<1>11. ASSUME NEW i \in DOMAIN own, own[i].dim = d PROVE g[n + m] = Append(base, own[i])
  <2> DEFINE at(k) == IF k < i THEN base ELSE Append(base, own[i])
             G == {k \in 0 .. m : g[n + k] = at(k)}
  <2>1. i \in 1 .. m /\ i \in Nat
    BY <1>1
  <2>2. 0 \in G
    BY <1>1, <1>7, <2>1
  <2>3. ASSUME NEW k \in 1 .. m, k - 1 \in G PROVE k \in G
    <3>1. k \in 0 .. m /\ g[n + (k - 1)] = at(k - 1) /\ k \in Nat
      BY <1>1, <2>3
    <3>2. own[k].dim = d <=> k = i
      BY <1>1, <1>11, <2>1
    <3>3. CASE k = i
      <4>1. at(k - 1) = base /\ at(k) = Append(base, own[i])
        BY <2>1, <3>3
      <4> HIDE DEF at
      <4> QED  BY <1>8, <3>1, <3>2, <3>3, <4>1
    <3>4. CASE k # i
      <4>1. at(k) = at(k - 1)
        BY <2>1, <3>1, <3>4
      <4> HIDE DEF at
      <4> QED  BY <1>8, <3>1, <3>2, <3>4, <4>1
    <3> QED  BY <3>3, <3>4
  <2>4. \A k \in 0 .. m : k \in G
    <3> HIDE DEF G
    <3> QED  BY <1>1, <2>2, <2>3, UpInduction
  <2>5. m \in G
    BY <1>1, <2>4
  <2>6. at(m) = Append(base, own[i])
    BY <1>1, <2>1
  <2> QED  BY <2>5, <2>6
<1> QED  BY <1>9, <1>10, <1>11 DEF base

\* The loops over d from the root to x, and those above x only.
LoopsDown(x, d) == LoopsOver(PathNests(x), d)
LoopsUpon(x, d) == IF Parent(x) = nullptr THEN <<>> ELSE LoopsDown(Parent(x), d)

\* The nodes whose loops the legality check counts.
Counted(d) == {n \in Node : Tree[n].kind \in {"Tile", "Op"} /\ d \in LoopDims(n)}

\* A node adds its own loop over d to those above it.
LEMMA LoopsDownStep ==
  ASSUME NEW x \in Node, NEW d
  PROVE  /\ LoopsUpon(x, d) \in Seq(Loop) /\ LoopsDown(x, d) \in Seq(Loop)
         /\ LoopsDown(x, d) = IF x \in Counted(d) THEN Append(LoopsUpon(x, d), LoopOf(x, d))
                              ELSE LoopsUpon(x, d)
<1> DEFINE up == IF Parent(x) = nullptr THEN <<>> ELSE PathNests(Parent(x))
<1>1. up \in Seq(Seq(Loop)) /\ PathNests(x) = up \o OwnNests(x) /\ LoopsOver(up, d) = LoopsUpon(x, d)
  <2>1. CASE Parent(x) = nullptr
    <3>1. up = <<>> /\ PathNests(x) = OwnNests(x) /\ LoopsUpon(x, d) = <<>>
      BY <2>1, PathNestsStep DEF LoopsUpon
    <3>2. OwnNests(x) \in Seq(Seq(Loop))
      BY OwnNestsType
    <3>3. <<>> \in Seq(Seq({})) /\ <<>> \in Seq(Seq(Loop))
      OBVIOUS
    <3>4. LoopsOver(<<>>, d) \in Seq({})
      BY <3>3, LoopsOverType
    <3>5. LoopsOver(<<>>, d) = <<>>
      BY <3>4
    <3>6. <<>> \o OwnNests(x) = OwnNests(x)
      BY <3>2
    <3> QED  BY <3>1, <3>3, <3>5, <3>6
  <2>2. CASE Parent(x) # nullptr
    <3>1. Parent(x) \in Node
      BY <2>2, ParentBefore
    <3> QED  BY <2>2, <3>1, PathNestsStep DEF LoopsUpon, LoopsDown
  <2> QED  BY <2>1, <2>2
<1> HIDE DEF up
<1>2. LoopsUpon(x, d) \in Seq(Loop) /\ LoopsDown(x, d) \in Seq(Loop)
  BY <1>1, PathNestsStep, LoopsOverType DEF LoopsDown
<1>3. CASE Tree[x].kind \notin {"Tile", "Op"}
  <2>1. OwnNests(x) = <<>> /\ x \notin Counted(d)
    BY <1>3 DEF OwnNests, Counted
  <2>2. PathNests(x) = up
    BY <1>1, <2>1
  <2> QED  BY <1>1, <1>2, <2>1, <2>2 DEF LoopsDown
<1>4. CASE Tree[x].kind \in {"Tile", "Op"}
  <2> DEFINE own == Tree[x].loops
  <2>1. /\ own \in Seq(Loop) /\ \A i, j \in DOMAIN own : own[i].dim = own[j].dim => i = j
    BY TreeAssumption
  <2>2. PathNests(x) = Append(up, own)
    <3>1. OwnNests(x) = <<own>>
      BY <1>4 DEF OwnNests
    <3> QED  BY <1>1, <2>1, <3>1
  <2>3. CASE d \in LoopDims(x)
    <3>1. PICK i \in DOMAIN own : own[i].dim = d
      BY <2>3 DEF LoopDims
    <3>2. LoopOf(x, d) = own[i]
      BY <2>3, <3>1, LoopOfIs
    <3> HIDE DEF own
    <3>3. LoopsDown(x, d) = Append(LoopsUpon(x, d), own[i])
      BY <1>1, <2>1, <2>2, <3>1, LoopsOverAppend DEF LoopsDown
    <3> QED  BY <1>2, <1>4, <2>3, <3>2, <3>3 DEF Counted
  <2>4. CASE d \notin LoopDims(x)
    <3>1. \A i \in DOMAIN own : own[i].dim # d
      BY <2>4 DEF LoopDims
    <3> HIDE DEF own
    <3>2. LoopsDown(x, d) = LoopsUpon(x, d)
      BY <1>1, <2>1, <2>2, <3>1, LoopsOverAppend DEF LoopsDown
    <3> QED  BY <1>2, <2>4, <3>2 DEF Counted
  <2> QED  BY <2>3, <2>4
<1> QED  BY <1>3, <1>4

\* Only tiles of a legal mapping are above another node and have loops over d.
LEMMA LoopsUponStep ==
  ASSUME NEW r \in Roots, \A n \in NodesOf[r] : ChildrenLegal(n), NEW x \in NodesOf[r], NEW d,
         Parent(x) # nullptr
  PROVE  LET y == Parent(x) IN
           /\ y \in NodesOf[r] /\ y \in Node
           /\ LoopsUpon(x, d) = IF y \in TileLoops(d) THEN Append(LoopsUpon(y, d), LoopOf(y, d))
                                ELSE LoopsUpon(y, d)
           /\ LoopAbove(x, d) = IF y \in TileLoops(d) THEN y ELSE LoopAbove(y, d)
<1> DEFINE y == Parent(x)
<1>1. x \in Node /\ y \in NodesOf[r]
  BY NodesClosed
<1>2. y \in Node /\ Kids(y) # <<>>
  <2>1. y \in Node /\ x \in ToSet(Kids(y))
    BY <1>1, TreeAssumption
  <2> QED  BY <2>1 DEF ToSet
<1>3. Tree[y].kind \in {"Tile", "Scope"}
  BY <1>1, <1>2, TreeAssumption DEF ChildrenLegal
<1>4. y \in Counted(d) <=> y \in TileLoops(d)
  BY <1>2, <1>3 DEF Counted, TileLoops
<1>5. LoopsUpon(x, d) = LoopsDown(y, d)
  BY DEF LoopsUpon
<1>6. LoopsDown(y, d) = IF y \in TileLoops(d) THEN Append(LoopsUpon(y, d), LoopOf(y, d))
                        ELSE LoopsUpon(y, d)
  BY <1>2, <1>4, LoopsDownStep
<1> QED  BY <1>1, <1>2, <1>5, <1>6, LoopAboveStep

\* Without a loop over d above it a node inherits none.
LEMMA NoneUpon ==
  ASSUME NEW r \in Roots, \A n \in NodesOf[r] : ChildrenLegal(n), NEW m \in NodesOf[r], NEW d,
         LoopAbove(m, d) = nullptr
  PROVE  LoopsUpon(m, d) = <<>>
<1> DEFINE Bad == {x \in NodesOf[r] : LoopAbove(x, d) = nullptr /\ LoopsUpon(x, d) # <<>>}
<1>1. SUFFICES ASSUME Bad # {} PROVE FALSE
  OBVIOUS
<1>2. PICK x \in Bad : Parent(x) # nullptr => Parent(x) \in Node /\ Parent(x) \notin Bad
  <2>1. Bad \in SUBSET Node
    BY NodesClosed
  <2> HIDE DEF Bad
  <2> QED  BY <1>1, <2>1, FirstNode
<1>3. x \in NodesOf[r] /\ LoopAbove(x, d) = nullptr /\ LoopsUpon(x, d) # <<>>
  OBVIOUS
<1>4. Parent(x) # nullptr
  BY <1>3 DEF LoopsUpon
<1> DEFINE y == Parent(x)
<1>5. /\ y \in NodesOf[r] /\ y \in Node
      /\ LoopsUpon(x, d) = IF y \in TileLoops(d) THEN Append(LoopsUpon(y, d), LoopOf(y, d))
                           ELSE LoopsUpon(y, d)
      /\ LoopAbove(x, d) = IF y \in TileLoops(d) THEN y ELSE LoopAbove(y, d)
  BY <1>3, <1>4, LoopsUponStep
<1>6. y \notin TileLoops(d)
  BY <1>3, <1>4, <1>5
<1>7. y \in Bad
  BY <1>3, <1>5, <1>6
<1> QED  BY <1>2, <1>4, <1>7

\* The legality check and getOffset agree on the loops below those above z:
\* ls are the loops over d down to an operation below z, W what the walk of
\* them covers from each loop on.
Agree(z, d, ls, W) ==
  LET up == LoopsUpon(z, d)
      a == LoopAbove(z, d)
  IN  /\ Len(up) <= Len(ls) /\ \A i \in 1 .. Len(up) : ls[i] = up[i]
      /\ a # nullptr => /\ InnerTrips(ls, Len(up)) = Offsets[d][a].step
                        /\ W[Len(up) + 1] = Offsets[d][a].last

\* W is what the walk of the loops ls covers from each loop on.
Walks(W, ls) ==
  /\ W \in [1 .. Len(ls) + 1 -> Int] /\ W[Len(ls) + 1] = 1
  /\ \A k \in 1 .. Len(ls) : W[k] = (ls[k].res - 1) * InnerTrips(ls, k) + W[k + 1]

\* They agree at the operation.
LEMMA AgreeAtOp ==
  ASSUME NEW r \in Roots, OffsetsDefined(r), SplitsAlike(r), CountsPositive(r),
         \A n \in NodesOf[r] : ChildrenLegal(n),
         NEW o \in NodesOf[r], Tree[o].kind = "Op", NEW d \in Dim, d \in LoopDims(o),
         NEW W, Walks(W, LoopsDown(o, d))
  PROVE  LET ls == LoopsDown(o, d)
             up == LoopsUpon(o, d)
         IN  /\ Agree(o, d, ls, W)
             /\ Len(ls) = Len(up) + 1 /\ W[Len(ls)] = TailRun(o, d)
<1> DEFINE ls == LoopsDown(o, d)
           up == LoopsUpon(o, d)
           l == LoopOf(o, d)
           n == Len(ls)
<1>1. o \in Node /\ Kids(o) = <<>>
  BY NodesClosed DEF ChildrenLegal
<1>2. o \in Counted(d)
  BY <1>1 DEF Counted
<1>3. up \in Seq(Loop) /\ ls \in Seq(Loop) /\ ls = Append(up, l)
  BY <1>1, <1>2, LoopsDownStep
<1>4. l \in Loop
  BY <1>1, LoopOfIs
<1>5. l.end \in Nat \ {0} /\ l.res \in Nat \ {0}
  BY RunsPositive
<1>6. FullRun(o, d) = l.end /\ TailRun(o, d) = l.res
  <2>1. Offsets[d][o].step = 1 /\ Offsets[d][o].last = 1
    BY <1>1, LeafOffsets
  <2>2. FullRun(o, d) = l.end * 1 /\ TailRun(o, d) = (l.res - 1) * 1 + 1
    BY <2>1 DEF FullRun, TailRun
  <2> HIDE DEF l
  <2> QED  BY <1>5, <2>2
<1>7. LoopAbove(o, d) # nullptr =>
        Offsets[d][LoopAbove(o, d)].step = l.end /\ Offsets[d][LoopAbove(o, d)].last = l.res
  BY <1>6, StepIsRun
<1> HIDE DEF l, up, ls
<1>8. /\ n = Len(up) + 1 /\ ls[n] = l /\ \A i \in 1 .. Len(up) : ls[i] = up[i]
      /\ n \in 1 .. Len(ls) /\ Len(up) \in Nat /\ n - 1 = Len(up)
  BY <1>3, <1>4
<1>9. InnerTrips(ls, n) = 1 /\ InnerTrips(ls, n - 1) = ls[n].end * InnerTrips(ls, n)
  BY <1>3, <1>8, InnerTripsStep
<1>10. W[n] = (ls[n].res - 1) * InnerTrips(ls, n) + W[n + 1] /\ W[n + 1] = 1
  BY <1>8 DEF Walks, ls
<1>11. InnerTrips(ls, Len(up)) = l.end /\ W[Len(up) + 1] = l.res
  <2>1. InnerTrips(ls, Len(up)) = l.end * 1
    BY <1>8, <1>9
  <2>2. W[Len(up) + 1] = (l.res - 1) * 1 + 1
    BY <1>8, <1>9, <1>10
  <2> QED  BY <1>5, <2>1, <2>2
<1>12. Len(up) <= Len(ls)
  BY <1>8
<1> HIDE DEF n
<1>13. Agree(o, d, ls, W)
  BY <1>7, <1>8, <1>11, <1>12 DEF Agree, up
<1> QED  BY <1>6, <1>8, <1>11, <1>13 DEF ls, up, n

\* If they agree below a loop over d, the loop covers what getOffset says.
LEMMA AgreeAtLoop ==
  ASSUME NEW r \in Roots, \A n \in NodesOf[r] : ChildrenLegal(n),
         NEW x \in NodesOf[r], NEW d \in Dim, Parent(x) \in TileLoops(d),
         NEW ls \in Seq(Loop), NEW W, Walks(W, ls), Agree(x, d, ls, W)
  PROVE  LET y == Parent(x)
             k == Len(LoopsUpon(y, d)) + 1
         IN  /\ k \in 1 .. Len(ls) /\ \A i \in 1 .. k - 1 : ls[i] = LoopsUpon(y, d)[i]
             /\ InnerTrips(ls, k - 1) = FullRun(y, d) /\ W[k] = TailRun(y, d)
<1> DEFINE y == Parent(x)
           up == LoopsUpon(y, d)
           k == Len(up) + 1
           l == LoopOf(y, d)
<1>1. y # nullptr
  BY NodesAreNumbers DEF TileLoops, nullptr
<1>2. /\ y \in Node /\ LoopsUpon(x, d) = Append(up, l) /\ LoopAbove(x, d) = y
  BY <1>1, LoopsUponStep
<1>3. up \in Seq(Loop)
  BY <1>2, LoopsDownStep
<1>4. l \in Loop
  BY <1>2, LoopOfIs DEF TileLoops
<1> HIDE DEF l, up
<1>5. /\ k \in Nat /\ k - 1 = Len(up) /\ Len(Append(up, l)) = k /\ Append(up, l)[k] = l
      /\ \A i \in 1 .. k - 1 : i \in 1 .. k /\ Append(up, l)[i] = up[i]
  BY <1>3, <1>4
<1>6. /\ k <= Len(ls) /\ \A i \in 1 .. k : ls[i] = Append(up, l)[i]
      /\ InnerTrips(ls, k) = Offsets[d][y].step /\ W[k + 1] = Offsets[d][y].last
  BY <1>1, <1>2, <1>5 DEF Agree
<1>7. k \in 1 .. Len(ls) /\ k \in 1 .. k
  BY <1>5, <1>6
<1>8. ls[k] = l /\ \A i \in 1 .. k - 1 : ls[i] = up[i]
  BY <1>5, <1>6, <1>7
<1> HIDE DEF k
<1>9. InnerTrips(ls, k - 1) = ls[k].end * InnerTrips(ls, k)
  BY <1>7, InnerTripsStep
<1>10. W[k] = (ls[k].res - 1) * InnerTrips(ls, k) + W[k + 1]
  BY <1>7 DEF Walks
<1>11. InnerTrips(ls, k - 1) = FullRun(y, d)
  BY <1>6, <1>8, <1>9 DEF FullRun, l
<1>12. W[k] = TailRun(y, d)
  BY <1>6, <1>8, <1>10 DEF TailRun, l
<1> QED  BY <1>7, <1>8, <1>11, <1>12 DEF k, up

\* If they agree at a node, they agree at its parent.
LEMMA AgreeUp ==
  ASSUME NEW r \in Roots, OffsetsDefined(r), SplitsAlike(r), \A n \in NodesOf[r] : ChildrenLegal(n),
         NEW x \in NodesOf[r], NEW d \in Dim, Parent(x) # nullptr,
         NEW ls \in Seq(Loop), NEW W, Walks(W, ls), Agree(x, d, ls, W)
  PROVE  Agree(Parent(x), d, ls, W)
<1> DEFINE y == Parent(x)
           up == LoopsUpon(y, d)
<1>1. /\ y \in Node /\ y \in NodesOf[r]
      /\ LoopsUpon(x, d) = IF y \in TileLoops(d) THEN Append(up, LoopOf(y, d)) ELSE up
      /\ LoopAbove(x, d) = IF y \in TileLoops(d) THEN y ELSE LoopAbove(y, d)
  BY LoopsUponStep
<1>2. CASE y \notin TileLoops(d)
  <2>1. LoopsUpon(x, d) = up /\ LoopAbove(x, d) = LoopAbove(y, d)
    BY <1>1, <1>2
  <2> QED  BY <2>1 DEF Agree
<1>3. CASE y \in TileLoops(d)
  <2> DEFINE k == Len(up) + 1
             a == LoopAbove(y, d)
  <2>1. /\ k \in 1 .. Len(ls) /\ \A i \in 1 .. k - 1 : ls[i] = up[i]
        /\ InnerTrips(ls, k - 1) = FullRun(y, d) /\ W[k] = TailRun(y, d)
    BY <1>3, AgreeAtLoop
  <2>2. up \in Seq(Loop)
    BY <1>1, LoopsDownStep
  <2>3. a # nullptr => Offsets[d][a].step = FullRun(y, d) /\ Offsets[d][a].last = TailRun(y, d)
    BY <1>1, <1>3, StepIsRun DEF TileLoops
  <2> HIDE DEF up, a, y
  <2>4. Len(up) \in Nat /\ k - 1 = Len(up)
    BY <2>2
  <2>5. Len(up) <= Len(ls)
    BY <2>1, <2>4
  <2>6. /\ \A i \in 1 .. Len(up) : ls[i] = up[i]
        /\ a # nullptr => /\ InnerTrips(ls, Len(up)) = Offsets[d][a].step
                          /\ W[Len(up) + 1] = Offsets[d][a].last
    BY <2>1, <2>3, <2>4
  <2>7. Agree(y, d, ls, W)
    BY <2>5, <2>6 DEF Agree, up, a
  <2> QED  BY <2>7 DEF y
<1> QED  BY <1>2, <1>3

\* They agree all the way up from the operation.
LEMMA AgreeOnPath ==
  ASSUME NEW r \in Roots, OffsetsDefined(r), SplitsAlike(r), CountsPositive(r),
         \A n \in NodesOf[r] : ChildrenLegal(n),
         NEW o \in NodesOf[r], Tree[o].kind = "Op", NEW d \in Dim, d \in LoopDims(o),
         NEW W, Walks(W, LoopsDown(o, d)), NEW z, Under(o, z)
  PROVE  Agree(z, d, LoopsDown(o, d), W)
<1> DEFINE ls == LoopsDown(o, d)
           Bad == {x \in Node : Under(o, x) /\ ~Agree(x, d, ls, W)}
<1>1. o \in Node /\ o \in Nat /\ ls \in Seq(Loop)
  BY NodesClosed, NodesAreNumbers, LoopsDownStep
<1> HIDE DEF ls
<1>2. z \in Node
  BY <1>1, AboveBefore DEF Under
<1>3. SUFFICES ASSUME Bad # {} PROVE FALSE
  BY <1>2 DEF ls
<1>4. Bad \in SUBSET Nat /\ \A x \in Bad : x <= o
  <2>1. ASSUME NEW x \in Bad PROVE x \in Nat /\ x <= o
    <3>1. x \in Node /\ x \in Nat /\ (x = o \/ x \in Above(o))
      BY NodesAreNumbers DEF Under
    <3> QED  BY <1>1, <3>1, AboveBefore
  <2> QED  BY <2>1
<1>5. PICK x \in Bad : \A k \in Bad : k <= x
  <2> HIDE DEF Bad
  <2> QED  BY <1>1, <1>3, <1>4, GreatestNatural
<1>6. x \in Node /\ x \in Nat /\ Under(o, x) /\ ~Agree(x, d, ls, W)
  BY <1>4
<1>7. x # o
  BY <1>6, AgreeAtOp DEF ls
<1>8. x \in Above(o)
  BY <1>6, <1>7 DEF Under
<1>9. PICK i \in DOMAIN Kids(x) : Kids(x)[i] = o \/ Kids(x)[i] \in Above(o)
  BY <1>1, <1>8, ChildOnTheWay
<1> DEFINE y == Kids(x)[i]
<1>10. y \in Node /\ y > x /\ Parent(y) = x /\ Under(o, y) /\ y \in NodesOf[r]
  BY <1>6, <1>9, KidsAfter, NodesAbove DEF Under
<1>11. y \notin Bad
  <2>1. y \in Nat
    BY <1>10, NodesAreNumbers
  <2> HIDE DEF y, Bad
  <2>2. SUFFICES ASSUME y \in Bad PROVE FALSE
    OBVIOUS
  <2>3. y <= x
    BY <1>5, <2>2
  <2> QED  BY <1>6, <1>10, <2>1, <2>3
<1>12. Agree(y, d, ls, W)
  BY <1>10, <1>11
<1>13. x # nullptr
  BY <1>6, NodesAreNumbers DEF nullptr
<1> HIDE DEF y
<1>14. Agree(x, d, ls, W)
  BY <1>1, <1>10, <1>12, <1>13, AgreeUp DEF ls
<1> QED  BY <1>6, <1>14

\* In a mapping that the legality check accepts, the outermost loops over a
\* dimension run through its whole bound.
LEMMA TopsCovered ==
  ASSUME NEW r \in Roots, OffsetsDefined(r), Regular(r), \A n \in NodesOf[r] : ChildrenLegal(n),
         \A o \in NodesOf[r] : Tree[o].kind = "Op" => OpFits(o)
  PROVE  TopsCover(r)
<1>1. CountsPositive(r) /\ SplitsAlike(r) /\ OpsLoop(r)
  BY DEF Regular
<1>2. SUFFICES ASSUME NEW o \in NodesOf[r], Tree[o].kind = "Op", NEW d \in Dim, NEW m \in NodesOf[r],
                      Under(o, m), Tree[m].kind \in {"Tile", "Op"}, d \in LoopDims(m),
                      LoopAbove(m, d) = nullptr
               PROVE  TailRun(m, d) = FactorizedBounds[d]
  BY DEF TopsCover
<1> DEFINE ls == LoopsDown(o, d)
<1>3. o \in Node /\ m \in Node /\ ls \in Seq(Loop)
  BY <1>2, NodesClosed, LoopsDownStep
<1>4. d \in LoopDims(o)
  BY <1>1, <1>2 DEF OpsLoop, Above, Under
<1>5. PICK W \in [1 .. Len(ls) + 1 -> Int] :
        /\ W[1] = DimResult(ls) /\ W[Len(ls) + 1] = 1
        /\ \A k \in 1 .. Len(ls) : W[k] = (ls[k].res - 1) * InnerTrips(ls, k) + W[k + 1]
  BY <1>3, WalkedFrom
<1>6. Walks(W, ls)
  BY <1>5 DEF Walks
<1>7. /\ Len(ls) = Len(LoopsUpon(o, d)) + 1 /\ W[Len(ls)] = TailRun(o, d)
  BY <1>1, <1>2, <1>4, <1>6, AgreeAtOp
<1>8. LoopsUpon(o, d) \in Seq(Loop)
  BY <1>3, LoopsDownStep
<1>9. W[1] = FactorizedBounds[d]
  <2>1. OpFits(o) /\ ls = LoopsOver(PathNests(o), d)
    BY <1>2 DEF LoopsDown
  <2>2. ls # <<>>
    <3> HIDE DEF ls
    <3> QED  BY <1>3, <1>7, <1>8
  <2>3. DimResult(ls) = FactorizedBounds[d]
    BY <2>1, <2>2 DEF OpFits
  <2> QED  BY <1>5, <2>3
<1>10. LoopsUpon(m, d) = <<>>
  BY <1>2, NoneUpon
<1>11. Len(LoopsUpon(m, d)) + 1 = 1
  BY <1>10
<1>12. CASE m = o
  BY <1>7, <1>9, <1>11, <1>12
<1>13. CASE m # o
  <2>1. m \in Above(o)
    BY <1>2, <1>13 DEF Under
  <2>2. PICK i \in DOMAIN Kids(m) : Kids(m)[i] = o \/ Kids(m)[i] \in Above(o)
    BY <1>3, <2>1, ChildOnTheWay
  <2> DEFINE x == Kids(m)[i]
  <2>3. x \in Node /\ Parent(x) = m /\ Under(o, x) /\ x \in NodesOf[r]
    BY <1>2, <1>3, <2>2, KidsAfter, NodesAbove DEF Under
  <2>4. Tree[m].kind = "Tile"
    <3>1. Kids(m) # <<>>
      BY <2>2
    <3> QED  BY <1>2, <3>1 DEF ChildrenLegal
  <2>5. m \in TileLoops(d)
    BY <1>2, <1>3, <2>4 DEF TileLoops
  <2>6. Agree(x, d, ls, W)
    BY <1>1, <1>2, <1>4, <1>6, <2>3, AgreeOnPath
  <2> HIDE DEF x, ls
  <2>7. W[Len(LoopsUpon(m, d)) + 1] = TailRun(m, d)
    BY <1>3, <1>6, <2>3, <2>5, <2>6, AgreeAtLoop
  <2> QED  BY <1>9, <1>11, <2>7
<1> QED  BY <1>12, <1>13

-----------------------------------------------------------------------------
\* A regular mapping that the passes before the walk have accepted is ready.
LEMMA AcceptedReady ==
  ASSUME TiledInv, pass = "done", Regular(root)
  PROVE  Ready(root) /\ \A n \in NodesOf[root] : ChildrenLegal(n)
<1>1. root \in Roots /\ OffsetsDefined(root)
  BY DEF TiledInv, WalkInv, OrderInv
<1>2. verdict = "accepted" /\ unvisited = <<>>
  BY DEF TiledInv, PassesInv, InTurn, CountInv, CountControl
<1>3. \A n \in NodesOf[root] : ChildrenLegal(n)
  <2>1. \A n \in Nodes : ~Listed(n, unvisited)
    BY <1>2 DEF Listed
  <2> QED  BY <1>2, <2>1 DEF TiledInv, PassesInv, VisitedLegal, Nodes
<1>4. \A o \in NodesOf[root] : Tree[o].kind = "Op" => OpFits(o)
  BY <1>2 DEF TiledInv, PassesInv, CountInv, VisitedFits, Ops, Nodes
<1> QED  BY <1>1, <1>3, <1>4, TopsCovered DEF Ready

\* The walk of the performance analysis executes every operation of a regular
\* mapping at the corner of each of its blocks, once (visitTileLoop and
\* visitOp of performance.cpp, for every mapping, workload and architecture).
THEOREM ExecutesBlocks == Spec => [](Regular(root) => ExecutesEachBlockOnce)
<1>1. Init => TiledInv
  BY TiledInitially
<1>2. TiledInv /\ [Next]_vars => TiledInv'
  BY TiledStep
<1>3. TiledInv => (Regular(root) => ExecutesEachBlockOnce)
  <2>1. SUFFICES ASSUME TiledInv, Regular(root), outcome = "finished"
                 PROVE  \A o \in Ops : ToSet(executed[o]) = Corners(o) /\ Once(executed[o])
    BY DEF ExecutesEachBlockOnce, Corners, Once
  <2>2. pass = "done"
    BY <2>1 DEF TiledInv, WalkInv, OrderInv
  <2>3. Ready(root)
    BY <2>1, <2>2, AcceptedReady
  <2> QED  BY <2>1, <2>3 DEF TiledInv, ExecInv
<1> QED  BY <1>1, <1>2, <1>3, PTL DEF Spec

-----------------------------------------------------------------------------
(* The offsets of a mapping without tails.                                  *)

\* The offsets of one iteration, of which the last is like the others.
Equal == {o \in [step : Int, last : Int] : o.last = o.step}

\* A last iteration is as long as the others.
LEMMA EvenOffsets ==
  ASSUME NEW r \in Roots, Untailed(r), NEW d \in Dim, NEW n \in NodesOf[r]
  PROVE  Offsets[d][n].last = Offsets[d][n].step
<1> DEFINE N == NodesOf[r]
           h == [m \in Node |-> IF m \in N THEN Offsets[d][m] ELSE [step |-> 1, last |-> 1]]
           next == [m \in Node |-> IF m \in N THEN OffsetFrom(m, d) ELSE nullptr]
<1>0. N \subseteq Node /\ n \in Node
  BY NodesClosed
<1>1. ASSUME NEW m \in N, OffsetFrom(m, d) # nullptr
      PROVE  /\ OffsetFrom(m, d) \in N /\ OffsetFrom(m, d) \in Node
             /\ OffsetFrom(m, d) > m /\ d \in LoopDims(OffsetFrom(m, d))
  <2>1. m \in Node /\ OffsetFrom(m, d) = LoopBelow(m, d)
    BY <1>0, <1>1 DEF OffsetFrom
  <2>2. OffsetFrom(m, d) \in Node /\ m \in Above(OffsetFrom(m, d))
    BY <1>1, <2>1, LoopBelowIsInside
  <2>3. OffsetFrom(m, d) \in N
    BY <2>2, NodesBelow DEF Under
  <2> QED  BY <1>1, <2>1, <2>2, <2>3, OffsetsStep
<1>2. next \in [Node -> Node \cup {nullptr}] /\ \A m \in Node : next[m] # nullptr => next[m] > m
  BY <1>1
<1>3. ASSUME NEW m \in Node, next[m] # nullptr => h[next[m]] \in Equal
      PROVE  h[m] \in Equal
  <2>0. [step |-> 1, last |-> 1] \in Equal
    BY DEF Equal
  <2>1. CASE m \notin N
    BY <2>0, <2>1
  <2>2. CASE m \in N /\ OffsetFrom(m, d) = nullptr
    <3>1. Offsets[d][m] = [step |-> 1, last |-> 1]
      BY <2>2, OffsetsStep
    <3> QED  BY <2>0, <2>2, <3>1
  <2>3. CASE m \in N /\ OffsetFrom(m, d) # nullptr
    <3> DEFINE b == OffsetFrom(m, d)
               l == LoopOf(b, d)
               o == Offsets[d][b]
    <3>1. /\ b \in N /\ b \in Node /\ d \in LoopDims(b)
          /\ Offsets[d][m] = FromBelow(l, o)
      BY <1>1, <2>3, OffsetsStep
    <3>2. l \in Loop /\ \E i \in DOMAIN Tree[b].loops : l = Tree[b].loops[i]
      BY <3>1, LoopOfIs
    <3>3. o \in Equal
      BY <1>3, <2>3, <3>1
    <3> HIDE DEF b
    <3>4. l.end \in Int /\ l.res = l.end
      <4>1. l.res = l.end
        <5> HIDE DEF l
        <5> QED  BY <3>1, <3>2 DEF Untailed
      <4> HIDE DEF l
      <4> QED  BY <3>2, <4>1 DEF Loop
    <3>5. o.step \in Int /\ o.last = o.step
      <4> HIDE DEF o
      <4> QED  BY <3>3 DEF Equal
    <3> HIDE DEF l, o
    <3>6. (l.end - 1) * o.step + o.step = l.end * o.step /\ l.end * o.step \in Int
      BY <3>4, <3>5
    <3>7. FromBelow(l, o) = [step |-> l.end * o.step, last |-> l.end * o.step]
      BY <3>4, <3>5, <3>6 DEF FromBelow
    <3>8. h[m] = [step |-> l.end * o.step, last |-> l.end * o.step]
      BY <2>3, <3>1, <3>7
    <3> QED  BY <3>6, <3>8 DEF Equal
  <2> QED  BY <2>1, <2>2, <2>3
<1>4. h[n] \in Equal
  <2> HIDE DEF h, next, N
  <2> QED  BY <1>0, <1>2, <1>3, DownwardType
<1>5. h[n] = Offsets[d][n]
  BY <1>0
<1> HIDE DEF h
<1> QED  BY <1>4, <1>5 DEF Equal

\* A loop runs through the same points on the path of last iterations.
LEMMA EvenRuns ==
  ASSUME NEW r \in Roots, Untailed(r), NEW d \in Dim, NEW n \in NodesOf[r], d \in LoopDims(n)
  PROVE  /\ LoopOf(n, d).res = LoopOf(n, d).end
         /\ TailRun(n, d) = FullRun(n, d)
<1> DEFINE l == LoopOf(n, d)
           s == Offsets[d][n].step
<1>1. n \in Node
  BY NodesClosed
<1>2. l \in Loop /\ \E i \in DOMAIN Tree[n].loops : l = Tree[n].loops[i]
  BY <1>1, LoopOfIs
<1>3. l.res = l.end
  <2> HIDE DEF l
  <2> QED  BY <1>2 DEF Untailed
<1>4. s \in Int /\ Offsets[d][n].last = s
  BY <1>1, OffsetsType, EvenOffsets
<1>5. l.end \in Int
  <2> HIDE DEF l
  <2> QED  BY <1>2 DEF Loop
<1>6. TailRun(n, d) = (l.end - 1) * s + s /\ FullRun(n, d) = l.end * s
  BY <1>3, <1>4 DEF TailRun, FullRun
<1> HIDE DEF l, s
<1>7. (l.end - 1) * s + s = l.end * s
  BY <1>4, <1>5
<1> QED  BY <1>3, <1>6, <1>7 DEF l

-----------------------------------------------------------------------------
(* The frames of one tile.                                                  *)

\* The loops of a tile lie on the stack one after the other.
LEMMA TileFrames ==
  ASSUME NEW r \in Roots, NEW fs, StackShape(fs, r), NEW i \in 1 .. Len(fs), IsLoop(fs[i])
  PROVE  LET b == i - fs[i].idx IN
           /\ b \in 0 .. i - 1
           /\ \A k \in 1 .. fs[i].idx : b + k \in 1 .. i
                /\ fs[b + k].node = fs[i].node /\ fs[b + k].idx = k
           /\ b > 0 => Parent(fs[i].node) = fs[b].node /\ VisitsChildren(fs[b])
           /\ b = 0 => fs[i].node = r
<1> DEFINE x == fs[i].idx
           n == fs[i].node
           G == {k \in 0 .. x : k > 0 => i - (x - k) \in 1 .. i
                                /\ fs[i - (x - k)].node = n /\ fs[i - (x - k)].idx = k}
<1>1. /\ Len(fs) \in Nat /\ i \in Nat /\ fs[i] \in FrameType /\ x \in Nat /\ x > 0 /\ n \in Node
      /\ FrameFits(fs[i]) /\ i \in 1 .. i
  <2>1. Len(fs) \in Nat /\ fs[i] \in FrameType /\ n \in Node /\ FrameFits(fs[i])
    BY StackFrame
  <2>2. x \in Nat /\ x > 0
    BY <2>1 DEF IsLoop, FrameType
  <2> QED  BY <2>1, <2>2
<1>2. x \in G
  <2> HIDE DEF x, n
  <2>1. i - (x - x) = i
    BY <1>1
  <2> QED  BY <1>1, <2>1 DEF x, n
<1>3. ASSUME NEW k \in 1 .. x, k \in G PROVE k - 1 \in G
  <2> DEFINE j == i - (x - k)
  <2>1. /\ j \in 1 .. i /\ fs[j].node = n /\ fs[j].idx = k
    BY <1>3
  <2>2. SUFFICES ASSUME k - 1 > 0
                 PROVE  /\ i - (x - (k - 1)) \in 1 .. i
                        /\ fs[i - (x - (k - 1))].node = n /\ fs[i - (x - (k - 1))].idx = k - 1
    <3> HIDE DEF x, n
    <3> QED  BY <1>1
  <2>3. i - (x - (k - 1)) = j - 1 /\ j \in 1 .. Len(fs)
    <3>1. i \in Int /\ x \in Int /\ k \in Int
      BY <1>1
    <3> HIDE DEF x, n
    <3> QED  BY <1>1, <2>1, <3>1
  <2> HIDE DEF j
  <2>4. j # 1
    <3>1. j = 1 => fs[j].idx = 1
      BY <2>3 DEF StackShape
    <3> QED  BY <2>1, <2>2, <3>1
  <2>5. j > 1 /\ j - 1 \in 1 .. i
    BY <1>1, <2>1, <2>4
  <2>6. EnteredFrom(fs[j - 1], fs[j])
    BY <2>3, <2>5, StackFrame
  <2>7. fs[j].idx > 1
    BY <2>1, <2>2
  <2>8. fs[j - 1].node = n /\ fs[j - 1].idx = k - 1
    BY <2>1, <2>6, <2>7 DEF EnteredFrom
  <2> QED  BY <2>3, <2>5, <2>8
<1>4. \A k \in 0 .. x : k \in G
  <2> HIDE DEF G, x
  <2> QED  BY <1>1, <1>2, <1>3, DownInduction
<1> DEFINE b == i - x
<1>5. \A k \in 1 .. x : b + k \in 1 .. i /\ fs[b + k].node = n /\ fs[b + k].idx = k
  <2>1. SUFFICES ASSUME NEW k \in 1 .. x
                 PROVE  b + k \in 1 .. i /\ fs[b + k].node = n /\ fs[b + k].idx = k
    OBVIOUS
  <2>2. k \in G /\ k > 0
    BY <1>1, <1>4
  <2>3. b + k = i - (x - k)
    <3>1. i \in Int /\ x \in Int /\ k \in Int
      BY <1>1
    <3> HIDE DEF x
    <3> QED  BY <3>1
  <2> QED  BY <2>2, <2>3
<1>6. 1 \in 1 .. x
  BY <1>1
<1>7. b + 1 \in 1 .. i /\ fs[b + 1].node = n /\ fs[b + 1].idx = 1
  BY <1>5, <1>6
<1> HIDE DEF G, x
<1>8. b \in 0 .. i - 1 /\ b + 1 \in 1 .. Len(fs) /\ b \in Int
  BY <1>1, <1>7
<1> HIDE DEF b
<1>9. b > 0 => Parent(n) = fs[b].node /\ VisitsChildren(fs[b])
  <2>1. SUFFICES ASSUME b > 0 PROVE Parent(n) = fs[b].node /\ VisitsChildren(fs[b])
    OBVIOUS
  <2>2. b + 1 > 1 /\ (b + 1) - 1 = b
    BY <1>8, <2>1
  <2>3. EnteredFrom(fs[b], fs[b + 1])
    BY <1>8, <2>2, StackFrame
  <2> QED  BY <1>7, <2>3 DEF EnteredFrom
<1>10. b = 0 => n = r
  <2>1. b = 0 => fs[b + 1] = fs[1]
    OBVIOUS
  <2>2. fs # <<>> => fs[1].node = r
    BY DEF StackShape
  <2>3. fs # <<>>
    BY <1>1
  <2> QED  BY <1>7, <2>1, <2>2, <2>3
<1> QED  BY <1>5, <1>8, <1>9, <1>10 DEF b, x

\* A tile lies on the stack once: its frames have the same frame under them.
LEMMA SameTile ==
  ASSUME NEW r \in Roots, NEW fs, StackShape(fs, r), NEW i \in 1 .. Len(fs), IsLoop(fs[i]),
         NEW j \in 1 .. i, fs[j].node = fs[i].node
  PROVE  IsLoop(fs[j]) /\ j - fs[j].idx = i - fs[i].idx
<1> DEFINE n == fs[i].node
           b == i - fs[i].idx
<1>1. /\ b \in 0 .. i - 1
      /\ b > 0 => Parent(n) = fs[b].node
      /\ \A k \in 1 .. fs[i].idx : fs[b + k].node = fs[i].node /\ fs[b + k].idx = k
  BY TileFrames
<1>2. /\ i \in Nat /\ j \in Nat /\ fs[i].idx \in Nat /\ n \in Node /\ j \in 1 .. Len(fs)
      /\ Len(fs) \in Nat
  <2>1. Len(fs) \in Nat /\ fs[i] \in FrameType /\ fs[i].node \in Node
    BY StackFrame
  <2> QED  BY <2>1 DEF FrameType
<1>3. j > b
  <2>1. SUFFICES ASSUME j <= b PROVE FALSE
    <3> HIDE DEF b
    <3> QED  BY <1>1, <1>2
  <2>2. b > 0 /\ b \in 1 .. Len(fs) /\ Parent(n) = fs[b].node
    <3>1. b > 0 /\ b \in 1 .. Len(fs)
      <4> HIDE DEF b
      <4> QED  BY <1>1, <1>2, <2>1
    <3> QED  BY <1>1, <3>1
  <2>3. Under(fs[b].node, n)
    BY <1>2, <2>1, <2>2, StackChain
  <2>4. fs[b].node \in Node
    BY <2>2, StackFrame
  <2>5. fs[b].node # nullptr
    BY <2>4, NodesAreNumbers DEF nullptr
  <2>6. fs[b].node < n
    BY <1>2, <2>2, <2>5, ParentBefore
  <2>7. n = fs[b].node \/ n < fs[b].node
    BY <2>3, <2>4, AboveBefore DEF Under
  <2> DEFINE p == fs[b].node
  <2>8. n \in Nat /\ p \in Nat /\ p < n /\ (n = p \/ n < p)
    BY <1>2, <2>4, <2>6, <2>7, NodesAreNumbers
  <2> HIDE DEF n, p
  <2> QED  BY <2>8
<1>4. j - b \in 1 .. fs[i].idx /\ b + (j - b) = j
  <2> DEFINE x == fs[i].idx
  <2>1. x \in Nat /\ i \in Nat /\ j \in Nat /\ j <= i /\ b = i - x /\ j > b
    BY <1>2, <1>3
  <2> HIDE DEF x, b
  <2>2. j - b \in 1 .. x /\ b + (j - b) = j
    BY <2>1
  <2> QED  BY <2>2 DEF x
<1>5. fs[j].idx = j - b
  <2>1. fs[b + (j - b)].idx = j - b
    BY <1>1, <1>4, Zenon
  <2> QED  BY <1>4, <2>1
<1> HIDE DEF b
<1>6. j - (j - b) = b /\ j - b > 0
  BY <1>1, <1>2, <1>3
<1> QED  BY <1>5, <1>6 DEF b, IsLoop

\* The cell under the first loop of a tile.
LEMMA LevelOfTile ==
  ASSUME NEW r \in Roots, NEW fs, StackShape(fs, r), NEW i \in 1 .. Len(fs), IsLoop(fs[i]),
         NEW d
  PROVE  LET b == i - fs[i].idx
             a == LoopAbove(fs[i].node, d)
         IN  /\ a = nullptr => Span(fs, b, d) = FactorizedBounds[d]
             /\ a # nullptr => Span(fs, b, d) \in {Offsets[d][a].last, Offsets[d][a].step}
<1> DEFINE n == fs[i].node
           b == i - fs[i].idx
           a == LoopAbove(fs[i].node, d)
<1>1. /\ b \in 0 .. i - 1
      /\ b > 0 => Parent(n) = fs[b].node /\ VisitsChildren(fs[b])
      /\ b = 0 => n = r
  BY TileFrames
<1>2. Len(fs) \in Nat /\ i \in Nat /\ n \in Node
  BY StackFrame
<1>3. CASE b = 0
  <2>1. n = r /\ Parent(r) = nullptr
    BY <1>1, <1>3 DEF Roots
  <2>2. a = nullptr
    BY <1>2, <2>1, LoopAboveStep
  <2>3. Span(fs, b, d) = FactorizedBounds[d]
    BY <1>3, LevelBase
  <2> QED  BY <2>2, <2>3
<1>4. CASE b > 0
  <2>1. b \in 1 .. Len(fs)
    <3> HIDE DEF b
    <3> QED  BY <1>1, <1>2, <1>4
  <2>2. fs[b] \in FrameType /\ FrameFits(fs[b])
    BY <2>1, StackFrame
  <2>3. Nearest(fs[b], d) = a
    BY <1>1, <1>2, <1>4, <2>2, NearestToChild
  <2> HIDE DEF a, b
  <2>4. /\ a = nullptr => Span(fs, b, d) = FactorizedBounds[d]
        /\ a # nullptr => Span(fs, b, d) = IF LastTo(fs, b, d) THEN Offsets[d][a].last
                                           ELSE Offsets[d][a].step
    BY <2>1, <2>3, LevelNode
  <2>5. a # nullptr => Span(fs, b, d) \in {Offsets[d][a].last, Offsets[d][a].step}
    BY <2>4
  <2> QED  BY <2>4, <2>5 DEF a, b
<1>5. b = 0 \/ b > 0
  <2> HIDE DEF b
  <2> QED  BY <1>1, <1>2
<1> QED  BY <1>3, <1>4, <1>5

\* On the path of an operation some loop over d is inside none, if it is the
\* operation's own.
LEMMA OutermostLoop ==
  ASSUME NEW r \in Roots, NEW o \in NodesOf[r], Tree[o].kind = "Op", NEW d \in LoopDims(o)
  PROVE  \E m \in NodesOf[r] : /\ Under(o, m) /\ Tree[m].kind \in {"Tile", "Op"}
                               /\ d \in LoopDims(m) /\ LoopAbove(m, d) = nullptr
<1> DEFINE S == {x \in Above(o) : x \in TileLoops(d)}
<1>1. o \in Node /\ S \subseteq Node
  BY NodesClosed DEF TileLoops
<1>2. CASE S = {}
  <2>1. LoopAbove(o, d) = nullptr
    BY <1>1, <1>2, LoopAboveAbove, LoopAboveIs
  <2> QED  BY <2>1 DEF Under
<1>3. CASE S # {}
  <2>1. S \in SUBSET Nat
    BY <1>1, NodesAreNumbers
  <2>2. PICK m \in S : \A k \in S : m <= k
    <3> HIDE DEF S
    <3> QED  BY <1>3, <2>1, LeastNatural
  <2>3. m \in Above(o) /\ m \in TileLoops(d) /\ m \in Node /\ m \in NodesOf[r]
    BY <1>1, NodesAbove
  <2>4. LoopAbove(m, d) = nullptr
    <3>1. SUFFICES ASSUME LoopAbove(m, d) # nullptr PROVE FALSE
      OBVIOUS
    <3> DEFINE k == LoopAbove(m, d)
    <3>2. k \in Above(m) /\ k \in TileLoops(d)
      BY <2>3, <3>1, LoopAboveAbove, LoopAboveIs
    <3>3. k \in Above(o) /\ k < m /\ k \in Node
      BY <1>1, <2>3, <3>2, AboveTransitive, AboveBefore
    <3>4. k \in S
      BY <3>2, <3>3
    <3> HIDE DEF k, S
    <3>5. k \in Nat /\ m \in Nat /\ m <= k
      BY <2>1, <2>2, <3>4
    <3> QED  BY <3>3, <3>5
  <2> QED  BY <2>3, <2>4 DEF Under, TileLoops
<1> QED  BY <1>2, <1>3

\* The loop that a tile reports for a dimension runs through the whole cell
\* of the tile.
LEMMA ReportedRun ==
  ASSUME NEW r, Ready(r), Untailed(r), TopsAlike(r), NEW fs, StackShape(fs, r),
         NEW i \in 1 .. Len(fs), IsLoop(fs[i]), NEW d \in Dim,
         NEW o \in NodesOf[r], Tree[o].kind = "Op", d \in LoopDims(o),
         BFSOffsetLoop[d][fs[i].node] # nullptr
  PROVE  LET m == BFSOffsetLoop[d][fs[i].node] IN
           /\ m \in NodesOf[r] /\ d \in LoopDims(m)
           /\ Span(fs, i - fs[i].idx, d) = FullRun(m, d)
<1> DEFINE n == fs[i].node
           m == BFSOffsetLoop[d][fs[i].node]
           a == LoopAbove(fs[i].node, d)
           s == Span(fs, i - fs[i].idx, d)
<1>1. r \in Roots /\ OffsetsDefined(r) /\ SplitsAlike(r) /\ TopsCover(r)
  BY DEF Ready, Regular
<1>2. n \in NodesOf[r] /\ n \in Node
  BY <1>1, StackNodes, NodesClosed
<1>3. /\ m \in Node /\ Under(m, n) /\ d \in LoopDims(m)
      /\ \A p \in Above(m) : Under(p, n) => d \notin LoopDims(p)
  BY <1>2, BFSFinds
<1> HIDE DEF m, n
<1>4. m \in NodesOf[r]
  BY <1>1, <1>2, <1>3, NodesBelow
<1>5. LoopAbove(m, d) = LoopAbove(n, d)
  BY <1>2, <1>3, SameLoopAbove DEF TileLoops
<1>6. LoopAbove(m, d) = a
  BY <1>5 DEF n
<1>7. TailRun(m, d) = FullRun(m, d)
  BY <1>1, <1>3, <1>4, EvenRuns
<1>8. /\ a = nullptr => s = FactorizedBounds[d]
      /\ a # nullptr => s \in {Offsets[d][a].last, Offsets[d][a].step}
  BY <1>1, LevelOfTile
<1> HIDE DEF a, s
<1>9. CASE a # nullptr
  <2>1. Offsets[d][a].step = FullRun(m, d) /\ Offsets[d][a].last = TailRun(m, d)
    BY <1>1, <1>3, <1>4, <1>6, <1>9, StepIsRun
  <2>2. s = FullRun(m, d)
    BY <1>7, <1>8, <1>9, <2>1
  <2> QED  BY <1>3, <1>4, <2>2 DEF m, s, n
<1>10. CASE a = nullptr
  <2>1. PICK top \in NodesOf[r] : /\ Under(o, top) /\ Tree[top].kind \in {"Tile", "Op"}
                                  /\ d \in LoopDims(top) /\ LoopAbove(top, d) = nullptr
    BY <1>1, OutermostLoop
  <2>2. TailRun(top, d) = FactorizedBounds[d]
    BY <1>1, <2>1 DEF TopsCover
  <2>3. TailRun(top, d) = FullRun(top, d)
    BY <1>1, <2>1, EvenRuns
  <2>4. FullRun(top, d) = FullRun(m, d)
    BY <1>3, <1>4, <1>6, <1>10, <2>1 DEF TopsAlike
  <2>5. s = FullRun(m, d)
    BY <1>8, <1>10, <2>2, <2>3, <2>4
  <2> QED  BY <1>3, <1>4, <2>5 DEF m, s, n
<1> QED  BY <1>9, <1>10

-----------------------------------------------------------------------------
(* What a tile measures.                                                    *)

\* Loops that are all in their first iteration have not moved the origin.
LEMMA FirstOrigin ==
  ASSUME NEW r \in Roots, NEW fs, StackShape(fs, r), StackFits(fs),
         NEW i \in 1 .. Len(fs), IsLoop(fs[i]), NEW d \in Dim,
         \A j \in 1 .. i : fs[j].node = fs[i].node => fs[j].start = 0
  PROVE  Origin(fs, i, d) = Origin(fs, i - fs[i].idx, d)
<1> DEFINE x == fs[i].idx
           b == i - fs[i].idx
           G == {k \in 0 .. x : Origin(fs, b + k, d) = Origin(fs, b, d)}
<1>1. /\ b \in 0 .. i - 1
      /\ \A k \in 1 .. x : b + k \in 1 .. i /\ fs[b + k].node = fs[i].node /\ fs[b + k].idx = k
  <2>1. b \in 0 .. i - 1
    BY TileFrames
  <2>2. \A k \in 1 .. x : b + k \in 1 .. i /\ fs[b + k].node = fs[i].node /\ fs[b + k].idx = k
    BY TileFrames
  <2> QED  BY <2>1, <2>2
<1>2. Len(fs) \in Nat /\ i \in Nat /\ x \in Nat /\ b \in Nat
  <2>1. Len(fs) \in Nat /\ fs[i] \in FrameType
    BY StackFrame
  <2>2. x \in Nat
    BY <2>1 DEF FrameType
  <2> HIDE DEF b, x
  <2> QED  BY <1>1, <2>1, <2>2
<1>3. b + 0 = b /\ b + x = i
  <2>1. b = i - x
    OBVIOUS
  <2> HIDE DEF b, x
  <2> QED  BY <1>2, <2>1
<1>4. 0 \in G
  BY <1>2, <1>3
<1>5. ASSUME NEW k \in 1 .. x, k - 1 \in G PROVE k \in G
  <2> DEFINE j == b + k
  <2>1. j \in 1 .. i /\ fs[j].node = fs[i].node /\ fs[j].idx = k
    BY <1>1
  <2>2. j \in 1 .. Len(fs) /\ j \in Nat \ {0} /\ j - 1 = b + (k - 1) /\ k \in 0 .. x
    <3> HIDE DEF b, x
    <3> QED  BY <1>2, <2>1
  <2>3. Origin(fs, j - 1, d) = Origin(fs, b, d)
    BY <1>5, <2>2
  <2> HIDE DEF j, b, x
  <2>4. /\ fs[j] \in FrameType /\ FrameFits(fs[j]) /\ IsLoop(fs[j]) /\ fs[j].start = 0
    <3>1. fs[j].idx > 0
      BY <2>1, <2>2, <1>2
    <3> QED  BY <2>1, <2>2, <3>1, StackFrame DEF IsLoop
  <2>5. Origin(fs, j, d) = Origin(fs, j - 1, d)
    <3>1. CASE ~OverDim(fs[j], d)
      BY <2>2, <3>1, LevelStep
    <3>2. CASE OverDim(fs[j], d)
      <4>1. DimOf(fs[j]) = d /\ Origin(fs, j, d) = fs[j].from + fs[j].moved
        BY <2>2, <3>2, LevelStep DEF OverDim
      <4>2. /\ fs[j].from = Origin(fs, j - 1, d)
            /\ fs[j].moved = fs[j].start * Offsets[d][fs[j].node].step
        BY <2>2, <2>4, <4>1 DEF StackFits, LoopFits
      <4>3. Offsets[d][fs[j].node].step \in Int
        <5>1. fs[j].node \in Node
          BY <2>4 DEF FrameType
        <5> QED  BY <5>1, OffsetsType
      <4>4. fs[j].moved = 0
        BY <2>4, <4>2, <4>3
      <4>5. fs[j].from \in Int
        BY <2>4 DEF FrameType
      <4> QED  BY <4>1, <4>2, <4>4, <4>5
    <3> QED  BY <3>1, <3>2
  <2> QED  BY <2>2, <2>3, <2>5 DEF j
<1>6. x \in G
  <2>1. x \in 0 .. x
    BY <1>2
  <2> HIDE DEF G, x
  <2> QED  BY <1>2, <1>4, <1>5, <2>1, UpInduction
<1> QED  BY <1>3, <1>6

\* FrameOf finds the loop of a tile whose loops all run.
LEMMA FrameOfIs ==
  ASSUME WalkInv, TilingInv, frames # <<>>, IsLoop(Current), isInnermost(Current),
         NEW d, d \in LoopDims(Current.node)
  PROVE  LET n == Current.node
             l == LoopOf(Current.node, d)
         IN  FrameOf(n, d).end \in {l.res, l.end} /\ FrameOf(n, d).ori = 0
<1> DEFINE n == Current.node
           l == LoopOf(Current.node, d)
           i == Len(frames)
           Is(j) == frames[j].node = n /\ IsLoop(frames[j]) /\ DimOf(frames[j]) = d
<1>1. /\ root \in Roots /\ StackShape(frames, root) /\ StackFits(frames)
      /\ i \in Nat /\ i \in 1 .. i /\ Current = frames[i] /\ frames \in Seq(FrameType) /\ n \in Node
  BY StackTypes DEF WalkInv, TilingInv, Current
<1>2. DOMAIN frames = 1 .. i
  BY <1>1
<1>3. PICK k \in DOMAIN Tree[n].loops : Tree[n].loops[k].dim = d
  BY DEF LoopDims
<1>4. k \in 1 .. Current.idx /\ k \in Nat /\ k > 0
  <2>1. DOMAIN Tree[n].loops = 1 .. Len(Tree[n].loops) /\ Len(Tree[n].loops) \in Nat
    BY <1>1, TreeAssumption
  <2> QED  BY <1>3, <2>1 DEF isInnermost
<1>5. \E j \in DOMAIN frames : Is(j)
  <2> DEFINE j == (i - Current.idx) + k
  <2>1. /\ \A q \in 1 .. frames[i].idx : (i - frames[i].idx) + q \in 1 .. i
             /\ frames[(i - frames[i].idx) + q].node = frames[i].node
             /\ frames[(i - frames[i].idx) + q].idx = q
    BY <1>1, TileFrames
  <2>2. j \in 1 .. i /\ frames[j].node = n /\ frames[j].idx = k
    BY <1>1, <1>4, <2>1, Zenon
  <2> HIDE DEF j
  <2>3. IsLoop(frames[j]) /\ DimOf(frames[j]) = d
    BY <1>3, <1>4, <2>2 DEF IsLoop, DimOf
  <2> QED  BY <1>2, <2>2, <2>3
<1> DEFINE q == CHOOSE j \in DOMAIN frames : Is(j)
<1>6. q \in DOMAIN frames /\ Is(q)
  BY <1>5
<1>7. FrameOf(n, d) = frames[q]
  BY DEF FrameOf
<1> HIDE DEF q
<1>8. frames[q].end \in {l.res, l.end}
  BY <1>1, <1>2, <1>6 DEF StackFits, LoopFits
<1>9. frames[q].ori = 0
  <2>1. frames[q] \in FrameType
    BY <1>1, <1>2, <1>6
  <2> QED  BY <2>1 DEF FrameType
<1> QED  BY <1>7, <1>8, <1>9

\* The range of a cell in one dimension.
CellRange(fs, b, d) == [low |-> Origin(fs, b, d), high |-> Origin(fs, b, d) + Span(fs, b, d)]

\* A tile that starts reports the cell that it runs through.
LEMMA MeasuredRange ==
  ASSUME WalkInv, TilingInv, Ready(root), Untailed(root), TopsAlike(root),
         frames # <<>>, IsLoop(Current), isInnermost(Current), isFirstLoop(Current.node),
         NEW o \in NodesOf[root], Tree[o].kind = "Op", NEW d \in Dim, d \in LoopDims(o),
         BFSOffsetLoop[d][Current.node] # nullptr
  PROVE  DimRange(Current.node, d) = CellRange(frames, Len(frames) - Current.idx, d)
<1> DEFINE n == Current.node
           i == Len(frames)
           b == Len(frames) - Current.idx
           m == BFSOffsetLoop[d][Current.node]
           s == Offsets[d][m].step
           e == LoopOf(m, d).end
<1>1. /\ root \in Roots /\ StackShape(frames, root) /\ StackFits(frames)
      /\ i \in Nat /\ i \in 1 .. i /\ Current = frames[i] /\ frames \in Seq(FrameType)
  BY StackTypes DEF WalkInv, TilingInv, Current
<1>2. m \in NodesOf[root] /\ d \in LoopDims(m) /\ Span(frames, b, d) = FullRun(m, d)
  BY <1>1, ReportedRun
<1>3. dim_skew[d] = Origin(frames, b, d) /\ dim_skew[d] \in Int
  <2>1. \A j \in 1 .. i : frames[j].node = frames[i].node => frames[j].start = 0
    <3>1. ASSUME NEW j \in 1 .. i PROVE frames[j].ori = 0 /\ j \in DOMAIN frames
      <4>1. frames[j] \in FrameType /\ j \in DOMAIN frames
        BY <1>1, <3>1
      <4> QED  BY <4>1 DEF FrameType
    <3> QED  BY <1>1, <3>1 DEF isFirstLoop
  <2>2. Origin(frames, i, d) = Origin(frames, i - frames[i].idx, d)
    BY <1>1, <2>1, FirstOrigin
  <2>3. dim_skew[d] = Origin(frames, i, d) /\ dim_skew[d] \in Int
    BY StackTypes DEF TilingInv
  <2> QED  BY <1>1, <2>2, <2>3
<1>4. LoopOf(m, d).res = e /\ Offsets[d][m].last = s /\ FullRun(m, d) = e * s
  BY <1>1, <1>2, EvenRuns, EvenOffsets DEF FullRun
<1>5. s \in Int /\ e \in Int
  <2>1. m \in Node
    BY <1>1, <1>2, NodesClosed
  <2>2. LoopOf(m, d) \in Loop
    BY <1>2, <2>1, LoopOfIs
  <2>3. e \in Int
    BY <2>2 DEF Loop
  <2> QED  BY <2>1, <2>3, OffsetsType
<1>6. m = n => FrameOf(n, d).end = e /\ FrameOf(n, d).ori = 0
  <2>1. SUFFICES ASSUME m = n PROVE FrameOf(n, d).end = e /\ FrameOf(n, d).ori = 0
    OBVIOUS
  <2>2. d \in LoopDims(n)
    BY <1>2, <2>1
  <2>3. FrameOf(n, d).end \in {LoopOf(n, d).res, LoopOf(n, d).end} /\ FrameOf(n, d).ori = 0
    BY <2>2, FrameOfIs
  <2> QED  BY <1>4, <2>1, <2>3
<1> DEFINE first == IF m = n THEN FrameOf(n, d).ori ELSE 0
           trips == IF m = n THEN FrameOf(n, d).end ELSE LoopOf(m, d).res
<1>7. first = 0 /\ trips = e
  BY <1>4, <1>6
<1>8. DimRange(n, d) = [low |-> dim_skew[d] + first * s,
                        high |-> dim_skew[d] + (trips - 1) * s + Offsets[d][m].last]
  BY DEF DimRange
<1> HIDE DEF n, m, b, s, e, first, trips
<1>9. /\ dim_skew[d] + (e - 1) * s + s = dim_skew[d] + e * s
      /\ dim_skew[d] + 0 * s = dim_skew[d]
  BY <1>3, <1>5
<1>10. DimRange(n, d) = [low |-> dim_skew[d], high |-> dim_skew[d] + e * s]
  BY <1>4, <1>7, <1>8, <1>9
<1>11. DimRange(n, d) = CellRange(frames, b, d)
  BY <1>2, <1>3, <1>4, <1>10 DEF CellRange
<1> QED  BY <1>11 DEF n, b

-----------------------------------------------------------------------------
(* What a tile keeps while it runs.                                         *)

\* The loop has come to the body of its nest, in which the tile is measured.
Begun(f) == f.start > 0 \/ f.kid > (IF isInnermost(f) THEN 0 ELSE 1)

\* An operation of the mapping loops over d.
InUse(d) == d \in Dim /\ \E o \in Ops : d \in LoopDims(o)

\* The tile of frame i keeps, of every tensor that it takes in, the cell that
\* its loops run through.
HoldsAt(kept, fs, i) ==
  LET n == fs[i].node
      b == i - fs[i].idx
  IN  \A t \in input_tensors_[n] :
        /\ DOMAIN kept[n][t] = ToSet(TensorDims[t])
        /\ \A d \in ToSet(TensorDims[t]) :
             InUse(d) => kept[n][t][d] = CellRange(fs, b, d)

\* So do all tiles of a stack whose loops have come to their bodies.
Holds(kept, fs) ==
  \A i \in 1 .. Len(fs) : IsLoop(fs[i]) /\ Begun(fs[i]) => HoldsAt(kept, fs, i)

\* What a frame says of its tile another one says that is for the same tile
\* and has alike frames under it.
LEMMA HoldsCarried ==
  ASSUME NEW r \in Roots, NEW kept, NEW fs, StackShape(fs, r), NEW i \in 1 .. Len(fs),
         IsLoop(fs[i]), HoldsAt(kept, fs, i),
         NEW gs, NEW j, gs[j].node = fs[i].node, j - gs[j].idx = i - fs[i].idx,
         \A k \in 1 .. i - 1 : Alike(fs[k], gs[k])
  PROVE  HoldsAt(kept, gs, j)
<1> DEFINE b == i - fs[i].idx
<1>1. b \in 0 .. i - 1
  BY TileFrames
<1>2. Len(fs) \in Nat
  BY StackFrame
<1>3. b \in Nat /\ \A k \in 1 .. b : k \in 1 .. i - 1
  <2> HIDE DEF b
  <2> QED  BY <1>1, <1>2
<1>4. ASSUME NEW d PROVE CellRange(fs, b, d) = CellRange(gs, b, d)
  <2> HIDE DEF b
  <2>1. \A k \in 1 .. b : Alike(fs[k], gs[k])
    BY <1>3
  <2>2. Origin(fs, b, d) = Origin(gs, b, d) /\ Span(fs, b, d) = Span(gs, b, d)
    BY <1>3, <2>1, LevelAlike
  <2> QED  BY <2>2 DEF CellRange
<1> QED  BY <1>4 DEF HoldsAt

\* A stack keeps what another one does if they differ in their last frame only,
\* and that one keeps it too.
LEMMA HoldsOnTop ==
  ASSUME NEW r \in Roots, NEW kept, NEW fs, StackShape(fs, r), Holds(kept, fs),
         NEW gs, NEW m \in Nat \ {0}, Len(gs) = m, m - 1 <= Len(fs),
         \A i \in 1 .. m - 1 : gs[i] = fs[i],
         IsLoop(gs[m]) /\ Begun(gs[m]) => HoldsAt(kept, gs, m)
  PROVE  Holds(kept, gs)
<1>1. SUFFICES ASSUME NEW i \in 1 .. m - 1, IsLoop(gs[i]), Begun(gs[i])
               PROVE  HoldsAt(kept, gs, i)
  <2>1. \A i \in 1 .. m : i = m \/ i \in 1 .. m - 1
    OBVIOUS
  <2> QED  BY <2>1 DEF Holds
<1>2. Len(fs) \in Nat
  BY DEF StackShape
<1>3. i \in 1 .. Len(fs) /\ gs[i] = fs[i] /\ \A k \in 1 .. i - 1 : gs[k] = fs[k]
  BY <1>2
<1>4. HoldsAt(kept, fs, i)
  BY <1>1, <1>3 DEF Holds
<1>5. \A k \in 1 .. i - 1 : Alike(fs[k], gs[k])
  BY <1>3 DEF Alike
<1> QED  BY <1>1, <1>3, <1>4, <1>5, HoldsCarried

\* A frame that is entered has not begun.
LEMMA EnterHolds ==
  ASSUME WalkInv, NEW kept, Holds(kept, frames), NEW f, Enters(f)
  PROVE  Holds(kept, frames')
<1>1. /\ root \in Roots /\ StackShape(frames, root) /\ frames \in Seq(FrameType)
      /\ Len(frames) \in Nat /\ f \in FrameType /\ frames' = Append(frames, f)
  BY StackTypes DEF WalkInv, Enters
<1> DEFINE m == Len(frames) + 1
<1>2. /\ m \in Nat \ {0} /\ Len(frames') = m /\ m - 1 <= Len(frames) /\ frames'[m] = f
      /\ \A i \in 1 .. m - 1 : frames'[i] = frames[i]
  BY <1>1
<1>3. IsLoop(f) => ~Begun(f)
  <2>1. SUFFICES ASSUME IsLoop(f) PROVE f.start = 0 /\ f.kid = 0
    BY DEF Begun
  <2> QED  BY <2>1, EnteredAtZero
<1> HIDE DEF m
<1> QED  BY <1>1, <1>2, <1>3, HoldsOnTop

\* A stack that goes on from a frame which has begun.
LEMMA StepHolds ==
  ASSUME NEW r \in Roots, NEW kept, NEW fs, StackShape(fs, r), Holds(kept, fs),
         NEW m \in 1 .. Len(fs), NEW gs, SteppedTo(fs, gs, m),
         IsLoop(fs[m]) /\ Begun(Step(fs[m])) => HoldsAt(kept, fs, m)
  PROVE  Holds(kept, gs)
<1>1. Len(fs) \in Nat /\ m \in Nat \ {0} /\ fs \in Seq(FrameType) /\ fs[m] \in FrameType
  BY StackFrame
<1>2. /\ Len(gs) = m /\ gs[m] = Step(fs[m]) /\ m - 1 <= Len(fs)
      /\ \A i \in 1 .. m - 1 : gs[i] = fs[i]
  BY <1>1 DEF SteppedTo
<1>3. Alike(gs[m], fs[m])
  BY <1>1, SteppedAlike
<1>4. gs[m].node = fs[m].node /\ gs[m].idx = fs[m].idx /\ (IsLoop(gs[m]) <=> IsLoop(fs[m]))
  BY <1>3, AlikeFrames
<1>5. \A k \in 1 .. m - 1 : Alike(fs[k], gs[k])
  BY <1>2 DEF Alike
<1>6. ASSUME IsLoop(gs[m]), Begun(gs[m]) PROVE HoldsAt(kept, gs, m)
  <2>1. IsLoop(fs[m]) /\ HoldsAt(kept, fs, m)
    BY <1>2, <1>4, <1>6
  <2> QED  BY <1>4, <1>5, <2>1, HoldsCarried
<1> QED  BY <1>1, <1>2, <1>6, HoldsOnTop

\* A frame that visits a child, or whose body is over, has begun.
LEMMA BegunInBody ==
  ASSUME NEW f \in FrameType, IsLoop(f), AtChild(f) \/ f.kid > Steps(f)
  PROVE  Begun(f)
<1>1. f.node \in Node /\ f.kid \in Nat
  BY DEF FrameType
<1>2. Len(Kids(f.node)) \in Nat
  <2>1. Kids(f.node) \in Seq(Node)
    BY <1>1, KidsAfter
  <2> QED  BY <2>1
<1>3. CASE isInnermost(f)
  <2>1. f.kid > 0
    BY <1>1, <1>2, <1>3 DEF AtChild, Steps
  <2> QED  BY <1>3, <2>1 DEF Begun
<1>4. CASE ~isInnermost(f)
  <2>1. f.kid > 1
    BY <1>4 DEF AtChild, Steps
  <2> QED  BY <1>4, <2>1 DEF Begun
<1> QED  BY <1>3, <1>4

\* The end of an iteration moves the loop inside the cell of its tile.
LEMMA EndHolds ==
  ASSUME WalkInv, NEW kept, Holds(kept, frames), EndsBody
  PROVE  Holds(kept, frames')
<1> DEFINE m == Len(frames)
           step == Offsets[DimOf(Current)][Current.node].step
           g == [Current EXCEPT !.kid = 0, !.start = @ + 1, !.moved = @ + step]
<1>1. /\ root \in Roots /\ StackShape(frames, root) /\ frames \in Seq(FrameType) /\ frames # <<>>
      /\ m \in Nat \ {0} /\ m \in 1 .. m /\ Current = frames[m] /\ Current \in FrameType
  BY StackTypes DEF WalkInv, Current, EndsBody
<1>2. frames' = [frames EXCEPT ![m] = g] /\ IsLoop(Current) /\ Current.kid > Steps(Current)
  BY DEF EndsBody, Replace
<1>3. g.node = Current.node /\ g.idx = Current.idx
  BY <1>1 DEF FrameType
<1> HIDE DEF g
<1>4. /\ Len(frames') = m /\ frames'[m] = g
      /\ \A i \in 1 .. m - 1 : frames'[i] = frames[i]
  BY <1>1, <1>2
<1>5. HoldsAt(kept, frames, m)
  <2>1. Begun(Current)
    BY <1>1, <1>2, BegunInBody
  <2> QED  BY <1>1, <1>2, <2>1 DEF Holds
<1>6. \A k \in 1 .. m - 1 : Alike(frames[k], frames'[k])
  BY <1>4 DEF Alike
<1>7. HoldsAt(kept, frames', m)
  <2>1. frames'[m].node = frames[m].node /\ m - frames'[m].idx = m - frames[m].idx
    BY <1>1, <1>3, <1>4
  <2> QED  BY <1>1, <1>2, <1>5, <1>6, <2>1, HoldsCarried
<1> QED  BY <1>1, <1>4, <1>7, HoldsOnTop

\* A loop that returns to an outer one of its tile has run, and leaves what
\* the tile keeps.
LEMMA ReturnHolds ==
  ASSUME WalkInv, TilingInv, CountsPositive(root), NEW kept, Holds(kept, frames), Returns
  PROVE  Holds(kept, frames')
<1> DEFINE n == Len(frames)
           m == Len(frames) - 1
<1>1. /\ root \in Roots /\ StackShape(frames, root) /\ frames \in Seq(FrameType) /\ frames # <<>>
      /\ n \in Nat \ {0} /\ n \in 1 .. n /\ Current = frames[n] /\ Current \in FrameType
      /\ StackFits(frames) /\ frames' = Returned
  BY StackTypes DEF WalkInv, Current, Returns, TilingInv
<1>2. CASE n = 1
  <2>1. frames' = <<>>
    BY <1>1, <1>2, ReturnedIs
  <2> QED  BY <2>1 DEF Holds
<1>3. CASE n # 1
  <2>1. n > 1 /\ m \in 1 .. n /\ m + 1 = n /\ m \in 1 .. n - 1
    <3>1. m = n - 1 /\ n \in Nat \ {0} /\ n # 1
      BY <1>1, <1>3
    <3> HIDE DEF n, m
    <3> QED  BY <3>1
  <2>2. SteppedTo(frames, frames', m)
    BY <1>1, <2>1, ReturnedIs
  <2>3. ASSUME IsLoop(frames[m]) PROVE HoldsAt(kept, frames, m)
    <3>1. frames[m].kid > 0 /\ frames[m] \in FrameType
      BY <1>1, <2>1, InBodyBelow, StackFrame
    <3>2. CASE isInnermost(frames[m])
      <4>1. Begun(frames[m])
        BY <3>1, <3>2 DEF Begun
      <4> QED  BY <2>1, <2>3, <4>1 DEF Holds
    <3>3. CASE ~isInnermost(frames[m])
      <4>1. EnteredFrom(frames[m], frames[n])
        BY <1>1, <2>1, StackFrame
      <4>2. frames[m].idx \in Nat /\ frames[n].idx \in Nat /\ frames[n].node \in Node
        BY <1>1, <3>1 DEF FrameType
      <4>3. ~VisitsChildren(frames[m])
        BY <2>3, <3>3, <4>2 DEF VisitsChildren, IsLoop
      <4>4. frames[n].idx > 1 /\ frames[n].node = frames[m].node /\ frames[m].idx = frames[n].idx - 1
        BY <4>1, <4>3 DEF EnteredFrom
      <4>5. IsLoop(frames[n])
        BY <4>2, <4>4 DEF IsLoop
      <4>6. Begun(frames[n])
        <5> DEFINE d == DimOf(frames[n])
                   l == LoopOf(frames[n].node, d)
        <5>1. Current.start >= Current.end
          BY <1>1, <4>5 DEF Returns
        <5>2. frames[n].end \in {l.res, l.end}
          BY <1>1, <4>5 DEF StackFits, LoopFits
        <5>3. frames[n].node \in NodesOf[root] /\ FrameFits(frames[n])
          BY <1>1, StackNodes, StackFrame
        <5>4. d \in LoopDims(frames[n].node) /\ d \in Dim
          BY <1>1, <4>5, <5>3, LoopOfFrame DEF TileLoops
        <5>5. l.end \in Nat \ {0} /\ l.res \in Nat \ {0}
          BY <1>1, <5>3, <5>4, RunsPositive
        <5>6. frames[n].start \in Nat
          BY <1>1 DEF FrameType
        <5> HIDE DEF l
        <5>7. frames[n].start > 0
          BY <1>1, <5>1, <5>2, <5>5, <5>6
        <5> QED  BY <5>7 DEF Begun
      <4>7. HoldsAt(kept, frames, n)
        BY <1>1, <4>5, <4>6 DEF Holds
      <4>8. m - frames[m].idx = n - frames[n].idx
        <5> DEFINE x == frames[n].idx
        <5>1. x \in Nat /\ frames[m].idx = x - 1
          BY <4>2, <4>4
        <5> HIDE DEF x, n, m
        <5>2. m - (x - 1) = n - x
          BY <1>1, <2>1, <5>1
        <5> QED  BY <5>1, <5>2 DEF x
      <4>9. \A k \in 1 .. n - 1 : Alike(frames[k], frames[k])
        BY DEF Alike
      <4> QED  BY <1>1, <4>4, <4>5, <4>7, <4>8, <4>9, HoldsCarried
    <3> QED  BY <3>2, <3>3
  <2> QED  BY <1>1, <2>1, <2>2, <2>3, StepHolds
<1> QED  BY <1>2, <1>3

\* A tile whose loops are not all in their first iteration was measured before.
LEMMA BeginHolds ==
  ASSUME WalkInv, NEW kept, Holds(kept, frames), Begins,
         ~(isInnermost(Current) /\ isFirstLoop(Current.node))
  PROVE  Holds(kept, frames')
<1> DEFINE m == Len(frames)
<1>1. /\ root \in Roots /\ StackShape(frames, root) /\ frames \in Seq(FrameType) /\ frames # <<>>
      /\ m \in Nat \ {0} /\ m \in 1 .. m /\ Current = frames[m] /\ Current \in FrameType
      /\ IsLoop(Current) /\ Current.kid = 0 /\ frames' = Replace(Step(Current))
      /\ DOMAIN frames = 1 .. m
  BY StackTypes DEF WalkInv, Current, Begins
<1>2. SteppedTo(frames, frames', m)
  BY <1>1, ReplacedIs
<1>3. ASSUME Begun(Step(frames[m])) PROVE HoldsAt(kept, frames, m)
  <2>1. CASE Begun(Current)
    BY <1>1, <2>1 DEF Holds
  <2>2. CASE ~Begun(Current)
    <3>1. /\ Step(Current).kid = 1 /\ Step(Current).start = Current.start
          /\ Step(Current).node = Current.node /\ Step(Current).idx = Current.idx
      BY <1>1 DEF Step, FrameType
    <3>2. isInnermost(Current)
      BY <1>1, <1>3, <2>2, <3>1 DEF Begun, isInnermost
    <3>3. PICK j \in 1 .. m : frames[j].node = Current.node /\ frames[j].start # 0
      <4>1. PICK j \in 1 .. m : frames[j].node = Current.node /\ frames[j].start # frames[j].ori
        BY <1>1, <3>2 DEF isFirstLoop
      <4>2. frames[j] \in FrameType
        BY <1>1
      <4>3. frames[j].ori = 0
        BY <4>2 DEF FrameType
      <4> QED  BY <4>1, <4>3
    <3>4. IsLoop(frames[j]) /\ j - frames[j].idx = m - frames[m].idx
      BY <1>1, <3>3, SameTile
    <3>5. Begun(frames[j])
      <4>1. frames[j].start \in Nat
        <5>1. frames[j] \in FrameType
          BY <1>1, <3>3
        <5> QED  BY <5>1 DEF FrameType
      <4> QED  BY <3>3, <4>1 DEF Begun
    <3>6. HoldsAt(kept, frames, j)
      BY <3>4, <3>5 DEF Holds
    <3>7. \A k \in 1 .. j - 1 : Alike(frames[k], frames[k])
      BY DEF Alike
    <3> QED  BY <1>1, <3>3, <3>4, <3>6, <3>7, HoldsCarried
  <2> QED  BY <2>1, <2>2
<1> QED  BY <1>1, <1>2, <1>3, StepHolds

\* A tile that is measured keeps its cell.
LEMMA MeasureHolds ==
  ASSUME WalkInv, TilingInv, Ready(root), Untailed(root), TopsAlike(root), Begins,
         isInnermost(Current), isFirstLoop(Current.node), RangesDefined(Current.node),
         NEW kept, Holds(kept, frames), NEW new,
         \A t \in input_tensors_[Current.node] :
           new[Current.node][t] = NewRanges(Current.node, t),
         \A x \in Nodes : x # Current.node => new[x] = kept[x]
  PROVE  Holds(new, frames')
<1> DEFINE m == Len(frames)
           n == Current.node
           b == Len(frames) - Current.idx
<1>1. /\ root \in Roots /\ StackShape(frames, root) /\ frames \in Seq(FrameType) /\ frames # <<>>
      /\ m \in Nat \ {0} /\ m \in 1 .. m /\ Current = frames[m] /\ Current \in FrameType
      /\ IsLoop(Current) /\ frames' = Replace(Step(Current))
  BY StackTypes DEF WalkInv, Current, Begins
<1>2. SteppedTo(frames, frames', m)
  BY <1>1, ReplacedIs
<1>3. ASSUME NEW t \in input_tensors_[n], NEW d \in ToSet(TensorDims[t]), InUse(d)
      PROVE  new[n][t][d] = CellRange(frames, b, d)
  <2>1. new[n][t][d] = DimRange(n, d)
    BY <1>3 DEF NewRanges
  <2>2. PICK o \in Ops : d \in LoopDims(o)
    BY <1>3 DEF InUse
  <2>3. d \in Dim /\ o \in NodesOf[root] /\ Tree[o].kind = "Op"
    BY <1>3, OpsAre DEF InUse
  <2>4. BFSOffsetLoop[d][n] # nullptr
    BY <1>3 DEF RangesDefined, ToSet
  <2>5. DimRange(n, d) = CellRange(frames, b, d)
    BY <1>1, <2>2, <2>3, <2>4, MeasuredRange
  <2> QED  BY <2>1, <2>5
<1>4. ASSUME NEW i \in 1 .. m, frames[i].node = n PROVE HoldsAt(new, frames, i)
  <2>1. i - frames[i].idx = b
    BY <1>1, <1>4, SameTile
  <2>2. \A t \in input_tensors_[n] : DOMAIN new[n][t] = ToSet(TensorDims[t])
    BY DEF NewRanges
  <2> HIDE DEF n, b
  <2> QED  BY <1>3, <1>4, <2>1, <2>2 DEF HoldsAt
<1>5. Holds(new, frames)
  <2>1. SUFFICES ASSUME NEW i \in 1 .. m, IsLoop(frames[i]), Begun(frames[i]), frames[i].node # n
                 PROVE  HoldsAt(new, frames, i)
    BY <1>4 DEF Holds
  <2>2. HoldsAt(kept, frames, i)
    BY <2>1 DEF Holds
  <2>3. frames[i].node \in Nodes
    BY <1>1, StackNodes DEF Nodes
  <2>4. new[frames[i].node] = kept[frames[i].node]
    BY <2>1, <2>3
  <2> QED  BY <2>2, <2>4 DEF HoldsAt
<1>6. HoldsAt(new, frames, m)
  BY <1>1, <1>4
<1> QED  BY <1>1, <1>2, <1>5, <1>6, StepHolds

\* What a step of the walk does to the ranges that the tiles keep.
LEMMA KeptMoves ==
  ASSUME WalkNext, DOMAIN resident = Nodes, frames # <<>> => Current.node \in Nodes
  PROVE  /\ DOMAIN resident' = Nodes
         /\ outcome' = "walking" =>
              \/ resident' = resident /\ (BeginIteration =>
                                          ~(isInnermost(Current) /\ isFirstLoop(Current.node)))
              \/ /\ BeginIteration /\ isInnermost(Current) /\ isFirstLoop(Current.node)
                 /\ RangesDefined(Current.node)
                 /\ \A t \in input_tensors_[Current.node] :
                      resident'[Current.node][t] = NewRanges(Current.node, t)
                 /\ \A x \in Nodes : x # Current.node => resident'[x] = resident[x]
<1> DEFINE n == Current.node
<1>1. CASE BeginIteration /\ isInnermost(Current) /\ isFirstLoop(n)
  <2>1. MeasureTile(n) /\ n \in Nodes
    BY <1>1 DEF BeginIteration
  <2>2. \/ (outcome' = Undefined /\ UNCHANGED costVars)
        \/ (outcome' = Abort /\ UNCHANGED costVars)
        \/ (addCurrentTensor(n) /\ RangesDefined(n))
    BY <2>1, Zenon DEF MeasureTile
  <2>3. CASE outcome' \in {Undefined, Abort} /\ UNCHANGED costVars
    BY <2>3 DEF costVars, Undefined, Abort
  <2>4. CASE addCurrentTensor(n) /\ RangesDefined(n)
    <3> DEFINE k == [t \in input_tensors_[n] |-> NewRanges(n, t)]
    <3>1. resident' = [resident EXCEPT ![n] = Over(k, @)]
      BY <2>4 DEF addCurrentTensor
    <3>2. resident'[n] = Over(k, resident[n]) /\ DOMAIN resident' = Nodes
          /\ \A x \in Nodes : x # n => resident'[x] = resident[x]
      BY <2>1, <3>1
    <3>3. \A t \in input_tensors_[n] : Over(k, resident[n])[t] = NewRanges(n, t)
      BY DEF Over
    <3> QED  BY <1>1, <2>4, <3>2, <3>3
  <2> QED  BY <2>2, <2>3, <2>4
<1>2. CASE ~(BeginIteration /\ isInnermost(Current) /\ isFirstLoop(n))
  <2>1. resident' = resident
    <3>1. CASE BeginIteration
      BY <1>2, <3>1 DEF BeginIteration
    <3>2. CASE StartWalk \/ EnterTile
      BY <3>2 DEF StartWalk, EnterTile, visitTile, costVars
    <3>3. CASE EnterInnerLoop
      BY <3>3 DEF EnterInnerLoop, costVars
    <3>4. CASE visitOp \/ visitTrans
      BY <3>4 DEF visitOp, visitTrans
    <3>5. CASE EnterScope \/ ExitScope
      BY <3>5 DEF EnterScope, ExitScope
    <3>6. CASE EndIteration \/ ExitLoop
      BY <3>6 DEF EndIteration, ExitLoop
    <3> QED  BY <3>1, <3>2, <3>3, <3>4, <3>5, <3>6 DEF WalkNext
  <2> QED  BY <1>2, <2>1
<1> QED  BY <1>1, <1>2

\* The head of an iteration is the only step that begins a body.
LEMMA OnlyBegins ==
  ASSUME WalkInv, WalkNext, Begins
  PROVE  BeginIteration
<1>1. /\ frames # <<>> /\ IsLoop(Current) /\ Current.kid = 0 /\ Current.start < Current.end
      /\ Current \in FrameType
  BY StackTypes DEF Begins
<1>2. ~AtChild(Current)
  BY <1>1 DEF AtChild
<1>3. ~(Current.kid > Steps(Current))
  <2>1. Current.node \in Node
    BY <1>1 DEF FrameType
  <2>2. Kids(Current.node) \in Seq(Node)
    BY <2>1, KidsAfter
  <2>3. Len(Kids(Current.node)) \in Nat
    BY <2>2
  <2>4. Steps(Current) \in Nat
    BY <2>3 DEF Steps
  <2> QED  BY <1>1, <2>4
<1>4. ~(Current.start >= Current.end)
  <2>1. Current.start \in Int /\ Current.end \in Int
    BY <1>1 DEF FrameType
  <2> QED  BY <1>1, <2>1
<1>5. ~StartWalk /\ ~EnterTile /\ ~EnterInnerLoop /\ ~visitOp /\ ~visitTrans /\ ~EnterScope
  BY <1>1, <1>2 DEF StartWalk, EnterTile, EnterInnerLoop, visitOp, visitTrans, EnterScope
<1>6. ~ExitScope /\ ~EndIteration /\ ~ExitLoop
  BY <1>1, <1>3, <1>4 DEF ExitScope, EndIteration, ExitLoop
<1> QED  BY <1>5, <1>6 DEF WalkNext

\* The tiles of the stack keep the cells that they run through.
HoldsInv == DOMAIN resident = Nodes /\ (outcome = "walking" => Holds(resident, frames))

\* Every step of the walk keeps that.
LEMMA MoveHolds ==
  ASSUME WalkInv, TilingInv, Ready(root), Even(root), WalkNext, HoldsInv,
         UNCHANGED <<root, input_tensors_>>
  PROVE  HoldsInv'
<1>1. outcome = "walking" /\ WalkMove /\ CountsPositive(root) /\ Untailed(root) /\ TopsAlike(root)
  BY WalkMoves DEF Ready, Regular, Even
<1>2. root \in Roots /\ StackShape(frames, root) /\ frames \in Seq(FrameType) /\ Len(frames) \in Nat
  BY StackTypes DEF WalkInv
<1>3. frames # <<>> => /\ Len(frames) \in 1 .. Len(frames) /\ Current = frames[Len(frames)]
                       /\ Current \in FrameType /\ Current.node \in Nodes
  <2>1. SUFFICES ASSUME frames # <<>>
                 PROVE  Len(frames) \in 1 .. Len(frames) /\ frames[Len(frames)].node \in Nodes
    BY StackTypes DEF Current
  <2>2. Len(frames) \in 1 .. Len(frames)
    BY <1>2, <2>1
  <2> QED  BY <1>2, <2>2, StackNodes DEF Nodes
<1>4. DOMAIN resident = Nodes /\ Holds(resident, frames)
  BY <1>1 DEF HoldsInv
<1>5. SUFFICES ASSUME outcome' = "walking" PROVE Holds(resident', frames')
  <2>1. Nodes' = Nodes /\ Ops' = Ops /\ input_tensors_' = input_tensors_
    BY DEF Nodes, Ops
  <2>2. DOMAIN resident' = Nodes
    BY <1>3, <1>4, KeptMoves
  <2>3. outcome' = "walking" => Holds(resident', frames')
    BY <1>5
  <2>4. Holds(resident', frames') => Holds(resident, frames)'
    BY <2>1 DEF Holds, HoldsAt, InUse
  <2> QED  BY <2>1, <2>2, <2>3, <2>4 DEF HoldsInv
<1>6. CASE /\ BeginIteration /\ isInnermost(Current) /\ isFirstLoop(Current.node)
           /\ RangesDefined(Current.node)
           /\ \A t \in input_tensors_[Current.node] :
                resident'[Current.node][t] = NewRanges(Current.node, t)
           /\ \A x \in Nodes : x # Current.node => resident'[x] = resident[x]
  <2>1. Begins
    <3>1. /\ frames # <<>> /\ IsLoop(Current) /\ ~InBody(Current) /\ Current.start < Current.end
          /\ frames' = Replace(Step(Current)) /\ UNCHANGED dim_skew
      BY <1>6 DEF BeginIteration
    <3>2. Current.kid = 0
      <4>1. Current.kid \in Nat
        BY <3>1, StackTypes
      <4> QED  BY <3>1, <4>1 DEF InBody
    <3>3. UNCHANGED executed
      BY <1>6, BeginOutcome
    <3> QED  BY <3>1, <3>2, <3>3 DEF Begins
  <2> QED  BY <1>1, <1>4, <1>6, <2>1, MeasureHolds
<1>7. CASE /\ resident' = resident
           /\ BeginIteration => ~(isInnermost(Current) /\ isFirstLoop(Current.node))
  <2>1. SUFFICES Holds(resident, frames')
    BY <1>7
  <2>2. CASE \E f : Enters(f)
    BY <1>4, <2>2, EnterHolds
  <2>3. CASE Begins
    <3>1. ~(isInnermost(Current) /\ isFirstLoop(Current.node))
      BY <1>7, <2>3, OnlyBegins
    <3> QED  BY <1>4, <2>3, <3>1, BeginHolds
  <2>4. CASE VisitsLeaf
    <3>1. frames # <<>> /\ AtChild(Current) /\ frames' = Replace(Step(Current))
      BY <2>4 DEF VisitsLeaf
    <3>2. SteppedTo(frames, frames', Len(frames))
      BY <3>1, ReplacedIs
    <3>3. IsLoop(Current) => HoldsAt(resident, frames, Len(frames))
      BY <1>3, <1>4, <3>1, BegunInBody DEF Holds
    <3> QED  BY <1>2, <1>3, <1>4, <3>1, <3>2, <3>3, StepHolds
  <2>5. CASE EndsBody
    BY <1>4, <2>5, EndHolds
  <2>6. CASE UNCHANGED frames
    BY <1>4, <2>6
  <2>7. CASE Returns
    BY <1>1, <1>4, <2>7, ReturnHolds
  <2> QED  BY <1>1, <2>2, <2>3, <2>4, <2>5, <2>6, <2>7 DEF WalkMove
<1> QED  BY <1>3, <1>4, <1>5, <1>6, <1>7, KeptMoves

-----------------------------------------------------------------------------
(* The block of an operation lies in the cells of the tiles above it.       *)

\* An origin is a number.
LEMMA OriginIsNumber ==
  ASSUME NEW fs \in Seq(FrameType), NEW i \in 0 .. Len(fs), NEW d
  PROVE  Origin(fs, i, d) \in Int
<1> DEFINE G == {k \in 0 .. Len(fs) : Origin(fs, k, d) \in Int}
<1>1. Len(fs) \in Nat
  OBVIOUS
<1>2. 0 \in G
  BY <1>1, LevelBase
<1>3. ASSUME NEW k \in 1 .. Len(fs), k - 1 \in G PROVE k \in G
  <2>1. k \in 0 .. Len(fs) /\ k \in Nat \ {0} /\ fs[k] \in FrameType
    BY <1>1
  <2>2. fs[k].from \in Int /\ fs[k].moved \in Int
    BY <2>1 DEF FrameType
  <2>3. Origin(fs, k, d) \in {Origin(fs, k - 1, d), fs[k].from + fs[k].moved}
    BY <2>1, LevelStep
  <2> QED  BY <1>3, <2>1, <2>2, <2>3
<1> HIDE DEF G
<1>4. i \in G
  BY <1>1, <1>2, <1>3, UpInduction
<1> QED  BY <1>4 DEF G

\* Every node that a frame of the stack lies under has a frame of its own.
LEMMA AllOnStack ==
  ASSUME NEW r \in Roots, NEW fs, StackShape(fs, r), NEW i \in 1 .. Len(fs),
         NEW n, Under(fs[i].node, n)
  PROVE  \E j \in 1 .. i : fs[j].node = n
<1> DEFINE G == {k \in 0 .. Len(fs) : k > 0 /\ Under(fs[k].node, n) =>
                                      \E j \in 1 .. k : fs[j].node = n}
<1>1. Len(fs) \in Nat /\ fs # <<>>
  BY StackFrame
<1>2. 0 \in G
  BY <1>1
<1>3. ASSUME NEW k \in 1 .. Len(fs), k - 1 \in G PROVE k \in G
  <2>1. k \in 0 .. Len(fs) /\ k \in Nat /\ fs[k].node \in Node
    BY <1>1, StackFrame
  <2>2. SUFFICES ASSUME Under(fs[k].node, n) PROVE \E j \in 1 .. k : fs[j].node = n
    BY <2>1
  <2>3. CASE k = 1
    <3>1. fs[k].node = r /\ Parent(r) = nullptr
      BY <1>1, <2>3 DEF StackShape, Roots
    <3>2. Above(r) = {}
      BY <2>1, <3>1, AboveStep
    <3>3. n = fs[k].node
      BY <2>2, <3>1, <3>2 DEF Under
    <3> QED  BY <2>3, <3>3
  <2>4. CASE k > 1
    <3>1. EnteredFrom(fs[k - 1], fs[k]) /\ k - 1 > 0 /\ k - 1 \in 1 .. Len(fs)
      BY <1>1, <2>4, StackFrame
    <3>2. fs[k - 1].node \in Node
      BY <3>1, StackFrame
    <3>3. n = fs[k].node \/ Under(fs[k - 1].node, n)
      <4>1. CASE fs[k].node = fs[k - 1].node
        BY <2>2, <4>1
      <4>2. CASE Parent(fs[k].node) = fs[k - 1].node
        <5>1. fs[k - 1].node # nullptr
          BY <3>2, NodesAreNumbers DEF nullptr
        <5>2. Above(fs[k].node) = {fs[k - 1].node} \cup Above(fs[k - 1].node)
          BY <2>1, <4>2, <5>1, AboveStep
        <5> QED  BY <2>2, <5>2 DEF Under
      <4> QED  BY <3>1, <4>1, <4>2 DEF EnteredFrom
    <3>4. CASE n = fs[k].node
      <4>1. k \in 1 .. k
        BY <2>1, <2>4
      <4> QED  BY <3>4, <4>1
    <3>5. CASE Under(fs[k - 1].node, n)
      <4>1. \E j \in 1 .. k - 1 : fs[j].node = n
        BY <1>3, <3>1, <3>5
      <4>2. \A j \in 1 .. k - 1 : j \in 1 .. k
        BY <2>1
      <4> QED  BY <4>1, <4>2
    <3> QED  BY <3>3, <3>4, <3>5
  <2> QED  BY <2>1, <2>3, <2>4
<1>4. i \in G /\ i > 0
  <2>1. i \in 0 .. Len(fs) /\ i > 0
    BY <1>1
  <2> HIDE DEF G
  <2> QED  BY <1>1, <1>2, <1>3, <2>1, UpInduction
<1> QED  BY <1>4

\* Every tile above the node that is visited next has begun.
LEMMA TilesBegun ==
  ASSUME WalkInv, TilingInv, frames # <<>>, AtChild(Current),
         NEW n, Under(Current.node, n), Tree[n].kind = "Tile"
  PROVE  \E j \in 1 .. Len(frames) : frames[j].node = n /\ IsLoop(frames[j]) /\ Begun(frames[j])
<1> DEFINE m == Len(frames)
           S == {k \in 1 .. m : frames[k].node = n}
<1>1. /\ root \in Roots /\ StackShape(frames, root) /\ frames \in Seq(FrameType)
      /\ m \in Nat /\ m \in 1 .. m /\ Current = frames[m]
  BY StackTypes DEF WalkInv, Current
<1>2. S # {} /\ S \in SUBSET Nat /\ \A k \in S : k <= m
  BY <1>1, AllOnStack
<1>3. PICK j \in S : \A k \in S : k <= j
  <2> HIDE DEF S, m
  <2> QED  BY <1>1, <1>2, GreatestNatural
<1>4. /\ j \in 1 .. m /\ frames[j].node = n /\ frames[j] \in FrameType /\ FrameFits(frames[j])
      /\ frames[j].node \in Node
  BY <1>1, <1>3, StackFrame
<1>5. IsLoop(frames[j]) /\ frames[j].idx \in Nat
  <2>1. frames[j].idx \in Nat /\ Len(Tree[n].loops) \in Nat
    BY <1>4, TreeAssumption DEF FrameType
  <2>2. frames[j].idx \in 1 .. Len(Tree[n].loops)
    BY <1>4 DEF FrameFits
  <2> QED  BY <2>1, <2>2 DEF IsLoop
<1>6. Begun(frames[j])
  <2>1. CASE j = m
    BY <1>1, <1>4, <1>5, <2>1, BegunInBody
  <2>2. CASE j # m
    <3>1. j \in 1 .. m - 1 /\ j + 1 \in 1 .. m /\ j + 1 > 1 /\ (j + 1) - 1 = j /\ ~(j + 1 <= j)
      BY <1>1, <1>4, <2>2
    <3>2. frames[j].kid > 0
      BY <3>1, InBodyBelow
    <3>3. EnteredFrom(frames[j], frames[j + 1])
      BY <1>1, <3>1, StackFrame
    <3>4. frames[j + 1].node # n
      BY <1>3, <3>1
    <3>5. VisitsChildren(frames[j])
      BY <1>4, <3>3, <3>4 DEF EnteredFrom
    <3>6. isInnermost(frames[j])
      BY <1>5, <3>5 DEF VisitsChildren, IsLoop
    <3> QED  BY <3>2, <3>6 DEF Begun
  <2> QED  BY <2>1, <2>2
<1> QED  BY <1>4, <1>5, <1>6

\* Without tails, the iteration leaves a whole block to the operation.
LEMMA EvenSpan ==
  ASSUME NEW r, Ready(r), Untailed(r), NEW fs, NEW o, VisitsOp(r, fs, o), NEW d \in LoopDims(o)
  PROVE  /\ Span(fs, Len(fs), d) = LoopOf(o, d).end
         /\ LoopOf(o, d).res = LoopOf(o, d).end
<1> DEFINE E == LoopOf(o, d).end
           a == LoopAbove(o, d)
           n == Len(fs)
<1>1. /\ r \in Roots /\ OffsetsDefined(r) /\ TopsCover(r)
  BY DEF Ready, Regular
<1>2. /\ o \in NodesOf[r] /\ o \in Node /\ Tree[o].kind = "Op" /\ Kids(o) = <<>>
      /\ StackShape(fs, r) /\ n \in 1 .. Len(fs)
  BY <1>1, NodesClosed DEF VisitsOp, StackShape
<1>3. d \in Dim /\ E \in Nat \ {0} /\ (a # nullptr => Offsets[d][a].step = E)
  BY SpanOfOp
<1>4. LoopOf(o, d).res = E /\ TailRun(o, d) = FullRun(o, d)
  BY <1>1, <1>2, <1>3, EvenRuns
<1>5. Nearest(fs[n], d) = a
  BY <1>1, NearestToOp
<1>6. /\ a = nullptr => Span(fs, n, d) = FactorizedBounds[d]
      /\ a # nullptr => Span(fs, n, d) \in {Offsets[d][a].last, Offsets[d][a].step}
  <2> HIDE DEF a, n
  <2>1. /\ a = nullptr => Span(fs, n, d) = FactorizedBounds[d]
        /\ a # nullptr => Span(fs, n, d) = IF LastTo(fs, n, d) THEN Offsets[d][a].last
                                           ELSE Offsets[d][a].step
    BY <1>1, <1>2, <1>5, LevelNode
  <2> QED  BY <2>1
<1>7. CASE a # nullptr
  <2>1. a \in NodesOf[r]
    <3>1. a \in Above(o)
      BY <1>2, <1>7, LoopAboveAbove
    <3> QED  BY <1>1, <1>2, <3>1, NodesAbove
  <2>2. Offsets[d][a].last = Offsets[d][a].step
    BY <1>1, <1>3, <2>1, EvenOffsets
  <2> QED  BY <1>3, <1>4, <1>6, <1>7, <2>2
<1>8. CASE a = nullptr
  <2>1. TailRun(o, d) = FactorizedBounds[d]
    BY <1>1, <1>2, <1>3, <1>8 DEF TopsCover, Under
  <2>2. FullRun(o, d) = E
    <3>1. Offsets[d][o].step = 1
      BY <1>2, <1>3, LeafOffsets
    <3>2. FullRun(o, d) = E * 1
      BY <3>1 DEF FullRun
    <3> HIDE DEF E
    <3> QED  BY <1>3, <3>2
  <2> QED  BY <1>4, <1>6, <1>8, <2>1, <2>2
<1> QED  BY <1>7, <1>8

\* What every tile above an operation keeps includes the operation's block.
LEMMA BlockIsHeld ==
  ASSUME WalkInv, TilingInv, Ready(root), Untailed(root), Holds(resident, frames),
         NEW o, frames # <<>>, AtChild(Current), o = Child(Current), Tree[o].kind = "Op",
         Kids(o) = <<>>, NEW n \in Above(o), Tree[n].kind = "Tile", NEW t \in input_tensors_[n],
         NEW d \in ToSet(TensorDims[t]), d \in LoopDims(o)
  PROVE  BlockAt(o, d) \subseteq resident[n][t][d].low .. resident[n][t][d].high - 1
<1> DEFINE m == Len(frames)
           E == LoopOf(o, d).end
<1>1. /\ root \in Roots /\ StackShape(frames, root) /\ StackFits(frames)
      /\ frames \in Seq(FrameType) /\ m \in Nat /\ m \in 1 .. m /\ Current = frames[m]
      /\ dim_skew \in [Dim -> Int] /\ \A x \in Dim : dim_skew[x] = Origin(frames, m, x)
  BY StackTypes DEF WalkInv, Current, TilingInv
<1>2. VisitsOp(root, frames, o)
  BY AtOp
<1>3. /\ o \in NodesOf[root] /\ o \in Node /\ Parent(o) = Current.node
  BY <1>1, <1>2, NodesClosed DEF VisitsOp
<1>4. \A i \in 1 .. m : frames[i].node \in Above(o) /\ (IsLoop(frames[i]) => frames[i].start < frames[i].end)
  BY <1>1, <1>2, FramesAbove DEF VisitsOp
<1>5. /\ d \in Dim /\ E \in Nat \ {0} /\ Span(frames, m, d) = E /\ LoopOf(o, d).res = E
      /\ \A x \in LoopDims(o) : x \in Dim /\ LoopOf(o, x).end \in Nat \ {0}
                                /\ Span(frames, m, x) = LoopOf(o, x).end
  BY <1>2, SpanOfOp, EvenSpan
<1>6. Under(Current.node, n)
  <2>1. Current.node \in Node
    BY StackTypes
  <2>2. Current.node # nullptr
    BY <2>1, NodesAreNumbers DEF nullptr
  <2>3. Above(o) = {Current.node} \cup Above(Current.node)
    BY <1>3, <2>2, AboveStep
  <2> QED  BY <2>3 DEF Under
<1>7. PICK j \in 1 .. m : frames[j].node = n /\ IsLoop(frames[j]) /\ Begun(frames[j])
  BY <1>6, TilesBegun
<1> DEFINE b == j - frames[j].idx
           low == Origin(frames, b, d)
           high == Origin(frames, b, d) + Span(frames, b, d)
<1>8. b \in 0 .. m
  <2>1. b \in 0 .. j - 1
    BY <1>1, <1>7, TileFrames
  <2> HIDE DEF b, m
  <2> QED  BY <1>1, <1>7, <2>1
<1>9. resident[n][t][d] = [low |-> low, high |-> high]
  <2>1. HoldsAt(resident, frames, j)
    BY <1>7 DEF Holds
  <2>2. InUse(d)
    BY <1>3, <1>5 DEF InUse, Ops, Nodes
  <2> QED  BY <1>7, <2>1, <2>2 DEF HoldsAt, CellRange
<1>10. ASSUME NEW y \in BlockAt(o, d)
       PROVE  y \in Int /\ low <= y /\ y < high
  <2> DEFINE p == [dim_skew EXCEPT ![d] = y]
             s == dim_skew[d]
  <2>1. s \in Int /\ s = Origin(frames, m, d)
    BY <1>1, <1>5
  <2>2. y \in s .. s + E - 1
    BY <1>5, <1>10 DEF BlockAt
  <2>3. y \in Int /\ s <= y /\ y < s + E
    <3> HIDE DEF s, E
    <3> QED  BY <1>5, <2>1, <2>2
  <2>4. p \in [Dim -> Int] /\ p[d] = y /\ \A x \in Dim : x # d => p[x] = dim_skew[x]
    BY <1>1, <1>5, <2>3
  <2> HIDE DEF p
  <2>5. InCell(frames, m, o, p)
    <3>1. SUFFICES ASSUME NEW x \in LoopDims(o)
                   PROVE  Origin(frames, m, x) <= p[x] /\ p[x] < Origin(frames, m, x) + Span(frames, m, x)
      BY DEF InCell
    <3>2. CASE x = d
      BY <1>5, <2>1, <2>3, <2>4, <3>2
    <3>3. CASE x # d
      <4> DEFINE e == LoopOf(o, x).end
                 q == dim_skew[x]
      <4>1. x \in Dim /\ e \in Nat \ {0} /\ Span(frames, m, x) = e
        BY <1>5
      <4>2. q \in Int /\ p[x] = q /\ Origin(frames, m, x) = q
        BY <1>1, <2>4, <3>3, <4>1
      <4> HIDE DEF e, q
      <4> QED  BY <4>1, <4>2
    <3> QED  BY <3>2, <3>3
  <2>6. InCell(frames, b, o, p)
    BY <1>1, <1>3, <1>4, <1>8, <2>4, <2>5, CellsNest
  <2> QED  BY <2>3, <2>4, <2>6 DEF InCell
<1>11. low \in Int /\ high \in Int
  <2>1. low \in Int
    BY <1>1, <1>8, OriginIsNumber
  <2>2. Span(frames, b, d) \in Int
    <3> DEFINE a == LoopAbove(frames[j].node, d)
    <3>1. /\ a = nullptr => Span(frames, b, d) = FactorizedBounds[d]
          /\ a # nullptr => Span(frames, b, d) \in {Offsets[d][a].last, Offsets[d][a].step}
      BY <1>1, <1>7, LevelOfTile
    <3>2. FactorizedBounds[d] \in Int
      BY <1>3, <1>5, BoundOfOp
    <3>3. a # nullptr => Offsets[d][a].last \in Int /\ Offsets[d][a].step \in Int
      <4>1. frames[j].node \in Node
        BY <1>1, <1>7, StackFrame
      <4>2. a # nullptr => a \in Node
        BY <4>1, LoopAboveIs DEF TileLoops
      <4> QED  BY <1>5, <4>2, OffsetsType
    <3> QED  BY <3>1, <3>2, <3>3
  <2> QED  BY <2>1, <2>2
<1> HIDE DEF low, high
<1>12. BlockAt(o, d) \subseteq low .. high - 1
  <2>1. ASSUME NEW y \in BlockAt(o, d) PROVE y \in low .. high - 1
    <3>1. y \in Int /\ low <= y /\ y < high
      BY <1>10, <2>1
    <3> QED  BY <1>11, <3>1
  <2> QED  BY <2>1
<1> QED  BY <1>9, <1>12

\* The inductive invariant of the theorem.
KeptInv ==
  /\ TiledInv
  /\ pass # "done" => WalkEmpty
  /\ Even(root) /\ Ready(root) => HoldsInv

\* Before the walk the tiles have room for their tensors and run nothing.
LEMMA KeptInitially ==
  ASSUME Init
  PROVE  KeptInv
<1>1. frames = <<>> /\ DOMAIN resident = Nodes
  BY DEF Init, WalkEmpty
<1>2. Holds(resident, frames)
  <2>1. Len(frames) = 0
    BY <1>1
  <2> QED  BY <2>1 DEF Holds
<1>3. WalkEmpty
  BY DEF Init
<1> QED  BY <1>1, <1>2, <1>3, TiledInitially DEF KeptInv, HoldsInv

\* Every step of the evaluation keeps the invariant.
LEMMA KeptStep ==
  ASSUME KeptInv, [Next]_vars
  PROVE  KeptInv'
<1>1. TiledInv /\ TiledInv'
  BY TiledStep DEF KeptInv
<1>0. pass' # "done" => WalkEmpty'
  <2>1. CASE Analyse
    BY <2>1 DEF Analyse, tensorVars
  <2>2. CASE ~Analyse
    <3>1. UNCHANGED <<walkVars, root>> /\ (pass' # "done" => pass # "done")
      <4>1. CASE Initialise
        BY <4>1 DEF Initialise, TensorNext, OffsetPasses, initOpTensor, StartTensorPass,
           initTensor, FinishTensors
      <4>2. CASE GetLoopCount \/ Stop \/ UNCHANGED vars
        BY <4>2 DEF GetLoopCount, Evaluate, Visit, FinishCount, Stop, vars, tensorVars
      <4> QED  BY <2>2, <4>1, <4>2 DEF Next
    <3>2. UNCHANGED <<outcome, frames, loop_start, vec_last_dim_, dim_skew, resident,
                      data_movements_, latency, latency_sub_vec_, latency_vec_, executed, loaded>>
          /\ Nodes' = Nodes /\ Ops' = Ops
      BY <3>1 DEF walkVars, Nodes, Ops
    <3>3. WalkEmpty => WalkEmpty'
      BY <3>2 DEF WalkEmpty
    <3> QED  BY <3>1, <3>3 DEF KeptInv
  <2> QED  BY <2>1, <2>2
<1>2. SUFFICES ASSUME Even(root)', Ready(root)' PROVE HoldsInv'
  BY <1>0, <1>1 DEF KeptInv
<1>3. CASE Analyse
  <2>1. WalkNext /\ UNCHANGED <<root, input_tensors_>>
    BY <1>3 DEF Analyse, tensorVars
  <2>2. Even(root) /\ Ready(root)
    BY <1>2, <2>1
  <2> QED  BY <1>1, <2>1, <2>2, MoveHolds DEF KeptInv, TiledInv
<1>4. CASE GetLoopCount \/ Stop \/ UNCHANGED vars
  <2>1. UNCHANGED <<walkVars, root, input_tensors_>>
    BY <1>4 DEF GetLoopCount, Evaluate, Visit, FinishCount, Stop, vars, tensorVars
  <2>2. Even(root) /\ Ready(root)
    BY <1>2, <2>1
  <2>3. UNCHANGED <<outcome, frames, resident>> /\ Nodes' = Nodes /\ Ops' = Ops
    BY <2>1 DEF walkVars, Nodes, Ops
  <2>4. HoldsInv
    BY <2>2 DEF KeptInv
  <2>5. Holds(resident, frames) => Holds(resident, frames)'
    BY <2>1, <2>3 DEF Holds, HoldsAt, InUse
  <2> QED  BY <2>3, <2>4, <2>5 DEF HoldsInv
<1>5. CASE Initialise
  <2>1. UNCHANGED walkVars /\ root' = root /\ pass # "done"
    BY <1>5 DEF Initialise, TensorNext, OffsetPasses, initOpTensor, StartTensorPass,
       initTensor, FinishTensors
  <2>2. Even(root) /\ Ready(root)
    BY <1>2, <2>1
  <2>3. UNCHANGED <<outcome, frames, resident>> /\ Nodes' = Nodes
    BY <2>1 DEF walkVars, Nodes
  <2>4. HoldsInv
    BY <2>2 DEF KeptInv
  <2>5. frames = <<>>
    BY <2>1 DEF KeptInv, WalkEmpty
  <2>6. Len(frames') = 0
    BY <2>3, <2>5
  <2>7. Holds(resident, frames)'
    BY <2>6 DEF Holds
  <2> QED  BY <2>3, <2>4, <2>7 DEF HoldsInv
<1> QED  BY <1>3, <1>4, <1>5 DEF Next

\* What the invariant says of an operation that is visited next.
LEMMA KeptAtOp ==
  ASSUME KeptInv, Even(root), outcome = "walking", frames # <<>>, AtChild(Current),
         NEW o, o = Child(Current), Tree[o].kind = "Op"
  PROVE  /\ WalkInv /\ TilingInv /\ Ready(root) /\ Untailed(root) /\ Holds(resident, frames)
         /\ Kids(o) = <<>> /\ pass = "done"
<1>1. pass = "done"
  BY DEF KeptInv, WalkEmpty
<1>2. TiledInv /\ WalkInv /\ Regular(root) /\ Untailed(root) /\ root \in Roots
  BY DEF KeptInv, TiledInv, Even, WalkInv
<1>3. Ready(root) /\ \A x \in NodesOf[root] : ChildrenLegal(x)
  BY <1>1, <1>2, AcceptedReady
<1>4. TilingInv /\ Holds(resident, frames)
  BY <1>3 DEF KeptInv, TiledInv, HoldsInv
<1>5. o \in NodesOf[root]
  <2>1. Len(frames) \in 1 .. Len(frames) /\ Current = frames[Len(frames)] /\ Current \in FrameType
    BY <1>2, StackTypes DEF Current
  <2>2. Current.node \in NodesOf[root]
    BY <1>2, <2>1, StackNodes DEF WalkInv
  <2>3. Current.kid \in DOMAIN Kids(Current.node) /\ o = Kids(Current.node)[Current.kid]
    BY <2>1, StepsType DEF Child
  <2> QED  BY <1>2, <2>2, <2>3, NodesClosed
<1>6. Kids(o) = <<>>
  BY <1>3, <1>5 DEF ChildrenLegal
<1> QED  BY <1>1, <1>2, <1>3, <1>4, <1>6

\* In a mapping without tails, whenever an operation is executed every tile
\* above it holds the part of its inputs that the operation's block touches
\* (addCurrentTensor, DimRange and BFSOffsetLoop of performance.cpp and
\* common.cpp, for every mapping, workload and architecture).
THEOREM TilesHoldBlocks == Spec => [](Even(root) => ResidentHoldsBlock)
<1>1. Init => KeptInv
  BY KeptInitially
<1>2. KeptInv /\ [Next]_vars => KeptInv'
  BY KeptStep
<1>3. KeptInv => (Even(root) => ResidentHoldsBlock)
  <2>1. SUFFICES ASSUME KeptInv, Even(root), outcome = "walking", frames # <<>>, AtChild(Current),
                        NEW o, o = Child(Current), Tree[o].kind = "Op",
                        NEW n \in Above(o) \cap Tiles, NEW t \in input_tensors_[n],
                        NEW d \in ToSet(TensorDims[t]) \cap LoopDims(o)
                 PROVE  BlockAt(o, d) \subseteq resident[n][t][d].low .. resident[n][t][d].high - 1
    BY DEF ResidentHoldsBlock, Above
  <2>2. /\ WalkInv /\ TilingInv /\ Ready(root) /\ Untailed(root) /\ Holds(resident, frames)
        /\ Kids(o) = <<>>
    BY <2>1, KeptAtOp
  <2> QED  BY <2>1, <2>2, BlockIsHeld DEF Tiles
<1> QED  BY <1>1, <1>2, <1>3, PTL DEF Spec

-----------------------------------------------------------------------------
(* The size of a tensor.                                                    *)

\* The product of the bounds of the dimensions q.
BoundsOver(q) == FoldLeft(LAMBDA acc, d : acc * FactorizedBounds[d], 1, q)

\* The product over a sequence is the last of the products over its prefixes.
LEMMA BoundsPrefixes ==
  ASSUME NEW T, NEW q \in Seq(T), \A d \in T : FactorizedBounds[d] \in Int
  PROVE  \E g \in [0 .. Len(q) -> Int] :
           /\ g[0] = 1 /\ BoundsOver(q) = g[Len(q)]
           /\ \A k \in 1 .. Len(q) : g[k] = g[k - 1] * FactorizedBounds[q[k]]
<1> DEFINE n == Len(q)
           Rec(f, s) == IF s = {} THEN 1 ELSE f[s \ {Max(s)}] * FactorizedBounds[q[Max(s)]]
           Eq(f) == f = [s \in SUBSET DOMAIN q |-> Rec(f, s)]
           F == CHOOSE f : Eq(f)
           step == [p \in Int \X (1 .. n) |-> p[1] * FactorizedBounds[q[p[2]]]]
<1>1. n \in Nat /\ DOMAIN q = 1 .. n /\ 1 \in Int /\ \A k \in 1 .. n : FactorizedBounds[q[k]] \in Int
  OBVIOUS
<1>2. BoundsOver(q) = F[DOMAIN q]
  BY Zenon DEF BoundsOver, FoldLeft, MapThenFoldSet
<1>3. /\ \A v \in Int : \A k \in 1 .. n : /\ step[<<v, k>>] = v * FactorizedBounds[q[k]]
                                          /\ v * FactorizedBounds[q[k]] \in Int
      /\ step \in [Int \X (1 .. n) -> Int]
  BY <1>1
<1> HIDE DEF n, step
<1>4. PICK h : SolvesSets(h, n, Int, 1, step)
  BY <1>1, <1>3, SetSolution
<1>5. ASSUME NEW s \in SUBSET (1 .. n) PROVE h[s] = Rec(h, s)
  <2>1. h[s] = IF s = {} THEN 1 ELSE step[<<h[s \ {Max(s)}], Max(s)>>]
    BY <1>4 DEF SolvesSets
  <2>2. h[s \ {Max(s)}] \in Int
    BY <1>4 DEF SolvesSets
  <2> QED  BY <1>1, <1>3, <2>1, <2>2, MaxOfIndices
<1>6. Eq(h)
  <2>1. h = [s \in SUBSET (1 .. n) |-> h[s]]
    BY <1>4 DEF SolvesSets
  <2> HIDE DEF Rec
  <2> QED  BY <1>1, <1>5, <2>1
<1>7. Eq(F)
  <2> HIDE DEF Eq
  <2> QED  BY <1>6
<1> HIDE DEF F
<1>8. \A s \in SUBSET (1 .. n) : F[s] = Rec(F, s)
  <2> HIDE DEF Rec
  <2> QED  BY <1>1, <1>7
<1>9. F[{}] = 1
  BY <1>8
<1>10. ASSUME NEW k \in 1 .. n, F[1 .. k - 1] \in Int
       PROVE  F[1 .. k] = step[<<F[1 .. k - 1], k>>] /\ F[1 .. k] \in Int
  <2>1. Max(1 .. k) = k /\ (1 .. k) \ {k} = 1 .. k - 1
    BY MaxOfPrefix
  <2>2. (1 .. k) \subseteq (1 .. n) /\ k \in 1 .. k
    BY <1>1
  <2>3. F[1 .. k] = Rec(F, 1 .. k)
    <3> HIDE DEF Rec
    <3> QED  BY <1>8, <2>2
  <2>4. F[1 .. k] = F[1 .. k - 1] * FactorizedBounds[q[k]]
    BY <2>1, <2>2, <2>3
  <2> QED  BY <1>3, <1>10, <2>4
<1> DEFINE g == [k \in 0 .. n |-> F[1 .. k]]
<1>11. SolvesPrefixes(g, n, Int, 1, step)
  BY <1>1, <1>9, <1>10, SetsToPrefixes
<1>12. BoundsOver(q) = g[n]
  BY <1>1, <1>2
<1> HIDE DEF g
<1>13. g \in [0 .. n -> Int] /\ g[0] = 1
  BY <1>11 DEF SolvesPrefixes
<1>14. ASSUME NEW k \in 1 .. n PROVE g[k] = g[k - 1] * FactorizedBounds[q[k]]
  <2>1. g[k - 1] \in Int /\ g[k] = step[<<g[k - 1], k>>]
    BY <1>1, <1>11, <1>13 DEF SolvesPrefixes
  <2> QED  BY <1>3, <2>1
<1> QED  BY <1>12, <1>13, <1>14 DEF n

\* The positions of a tensor over the dimensions D.
Positions(D) == Box([d \in D |-> 0 .. FactorizedBounds[d] - 1], D)

\* A tensor that names no dimension twice has as many positions as the
\* product of its bounds.
LEMMA TensorSize ==
  ASSUME NEW T, NEW q \in Seq(T), Once(q), \A d \in T : FactorizedBounds[d] \in Nat \ {0}
  PROVE  /\ IsFiniteSet(ToSet(q)) /\ IsFiniteSet(Positions(ToSet(q)))
         /\ BoundsOver(q) = Cardinality(Positions(ToSet(q)))
<1> DEFINE n == Len(q)
           D == ToSet(q)
           S == [d \in D |-> 0 .. FactorizedBounds[d] - 1]
           part == [k \in 0 .. n |-> {q[i] : i \in 1 .. k}]
<1>1. n \in Nat /\ DOMAIN q = 1 .. n /\ D = part[n] /\ D \subseteq T
      /\ \A i \in 1 .. n : q[i] \in D /\ q[i] \in T
  BY DEF ToSet
<1>2. IsFiniteSet(D)
  <2>1. q \in Seq(D) /\ \A x \in D : \E i \in 1 .. Len(q) : q[i] = x
    BY <1>1
  <2> HIDE DEF D
  <2> QED  BY <2>1 DEF IsFiniteSet
<1>3. ASSUME NEW d \in D
      PROVE  IsFiniteSet(S[d]) /\ Cardinality(S[d]) = FactorizedBounds[d]
  <2> DEFINE b == FactorizedBounds[d]
  <2>1. b \in Nat \ {0}
    BY <1>1
  <2>2. S[d] = 0 .. b - 1
    BY <1>3
  <2> HIDE DEF b, S
  <2>3. 0 \in Int /\ b - 1 \in Int /\ ~(0 > b - 1) /\ b - 1 - 0 + 1 = b
    BY <2>1
  <2>4. IsFiniteSet(0 .. b - 1) /\ Cardinality(0 .. b - 1) = IF 0 > b - 1 THEN 0 ELSE b - 1 - 0 + 1
    BY <2>3, FS_Interval
  <2> QED  BY <2>2, <2>3, <2>4 DEF b
<1>4. IsFiniteSet(Box(S, D))
  <2> HIDE DEF D, S
  <2> QED  BY <1>2, <1>3, BoxFinite
<1>5. PICK g \in [0 .. n -> Int] :
        /\ g[0] = 1 /\ BoundsOver(q) = g[n]
        /\ \A k \in 1 .. n : g[k] = g[k - 1] * FactorizedBounds[q[k]]
  BY BoundsPrefixes
<1> DEFINE G == {k \in 0 .. n : g[k] = Cardinality(Box(S, part[k]))}
<1>6. 0 \in G
  <2>1. part[0] = {} /\ 0 \in 0 .. n
    BY <1>1
  <2>2. Cardinality(Box(S, {})) = 1
    BY BoxEmpty
  <2> HIDE DEF S, part
  <2> QED  BY <1>1, <1>5, <2>1, <2>2
<1>7. ASSUME NEW k \in 1 .. n, k - 1 \in G PROVE k \in G
  <2>1. k \in 0 .. n /\ g[k - 1] = Cardinality(Box(S, part[k - 1]))
    BY <1>1, <1>7
  <2>2. part[k] \in SUBSET D /\ q[k] \in part[k]
    BY <1>1, <2>1
  <2>3. part[k] \ {q[k]} = part[k - 1]
    <3>1. \A i \in 1 .. k - 1 : i \in 1 .. k /\ i \in DOMAIN q /\ k \in DOMAIN q /\ i # k
      BY <1>1
    <3>2. \A i \in 1 .. k : i = k \/ i \in 1 .. k - 1
      BY <1>1
    <3>3. \A i \in 1 .. k - 1 : q[i] # q[k]
      BY <3>1 DEF Once
    <3>4. k - 1 \in 0 .. n
      BY <1>1
    <3> QED  BY <2>1, <3>1, <3>2, <3>3, <3>4
  <2> HIDE DEF part, S, D, n
  <2>4. \A d \in D : IsFiniteSet(S[d])
    BY <1>3
  <2>5. Cardinality(Box(S, part[k])) = Cardinality(S[q[k]]) * Cardinality(Box(S, part[k] \ {q[k]}))
    <3> DEFINE s == part[k]
               x == q[k]
    <3>1. s \in SUBSET D /\ x \in s
      BY <2>2
    <3> HIDE DEF s, x
    <3>2. Cardinality(Box(S, s)) = Cardinality(S[x]) * Cardinality(Box(S, s \ {x}))
      BY <1>2, <2>4, <3>1, BoxCount
    <3> QED  BY <3>2 DEF s, x
  <2>6. q[k] \in D /\ g[k] = g[k - 1] * FactorizedBounds[q[k]]
        /\ FactorizedBounds[q[k]] \in Nat
    BY <1>1, <1>5
  <2>7. g[k - 1] \in Int
    BY <1>1, <1>5
  <2>8. Cardinality(S[q[k]]) = FactorizedBounds[q[k]]
    BY <1>3, <2>6
  <2>9. Cardinality(Box(S, part[k])) = FactorizedBounds[q[k]] * g[k - 1]
    BY <2>1, <2>3, <2>5, <2>8
  <2> QED  BY <2>1, <2>6, <2>7, <2>9
<1>8. n \in G
  <2> HIDE DEF G
  <2>1. \A k \in 0 .. n : k \in G
    BY <1>1, <1>6, <1>7, UpInduction
  <2> QED  BY <1>1, <2>1
<1>9. BoundsOver(q) = Cardinality(Box(S, D))
  BY <1>1, <1>5, <1>8
<1> QED  BY <1>2, <1>4, <1>9 DEF Positions

-----------------------------------------------------------------------------
(* What a tile has loaded.                                                  *)

\* A function whose values lie in the sides of a box is a point of it.
LEMMA BoxHas ==
  ASSUME NEW D, NEW S, NEW x
  PROVE  x \in Box(S, D) <=> (x = [d \in D |-> x[d]] /\ \A d \in D : x[d] \in S[d])
BY DEF Box

\* A box whose sides lie in those of another one lies in it.
LEMMA BoxInside ==
  ASSUME NEW D, NEW S, NEW R, \A d \in D : S[d] \subseteq R[d]
  PROVE  Box(S, D) \subseteq Box(R, D)
<1>1. ASSUME NEW x \in Box(S, D) PROVE x \in Box(R, D)
  <2>1. x = [d \in D |-> x[d]] /\ \A d \in D : x[d] \in S[d]
    BY BoxHas
  <2>2. \A d \in D : x[d] \in R[d]
    BY <2>1
  <2> QED  BY <2>1, <2>2, BoxHas
<1> QED  BY <1>1

\* A load of what is missing of after, beside what was seen before.
LEMMA SeenMore ==
  ASSUME NEW S, IsFiniteSet(S), NEW P, IsFiniteSet(P), NEW Q, Q \subseteq S
  PROVE  /\ IsFiniteSet(S \cup P) /\ Cardinality(P \ Q) \in Nat
         /\ Cardinality(S \cup P) <= Cardinality(S) + Cardinality(P \ Q)
<1> DEFINE M == P \ Q
<1>1. S \cup P = S \cup M /\ M \in SUBSET P
  OBVIOUS
<1> HIDE DEF M
<1>2. IsFiniteSet(M)
  BY <1>1, FS_Subset
<1>3. /\ IsFiniteSet(S \cup M)
      /\ Cardinality(S \cup M) = Cardinality(S) + Cardinality(M) - Cardinality(S \cap M)
  BY <1>2, FS_Union
<1>4. IsFiniteSet(S \cap M)
  BY <1>2, FS_Intersection
<1>5. Cardinality(S) \in Nat /\ Cardinality(M) \in Nat /\ Cardinality(S \cap M) \in Nat
  BY <1>2, <1>4, FS_CardinalityType
<1>6. Cardinality(S \cup M) <= Cardinality(S) + Cardinality(M)
  BY <1>3, <1>5
<1> QED  BY <1>1, <1>3, <1>5, <1>6 DEF M

\* What operation o touches of tensor t when it is executed at p.
Touched(o, t, p) ==
  Box([d \in ToSet(TensorDims[t]) |-> p[d] .. p[d] + LoopOf(o, d).end - 1], ToSet(TensorDims[t]))

\* S is as large as what tile n has loaded of t, and has in it what the tile
\* keeps and all that the operations below it have touched.
Seen(S, kept, load, ran, n, t) ==
  /\ IsFiniteSet(S) /\ Cardinality(S) <= load
  /\ Points(kept) \subseteq S
  /\ \A o \in Ops : n \in Above(o) /\ t \in Ins(o) =>
       \A p \in ToSet(ran[o]) : Touched(o, t, p) \subseteq S

LoadsAt(kept, load, ran, n, t) ==
  /\ kept \in RangesOver(ToSet(TensorDims[t])) \cup {<<>>}
  /\ load \in Nat
  /\ \E S : Seen(S, kept, load, ran, n, t)

\* Every tile below the root has loaded what was touched of its tensors.
LoadInv ==
  /\ DOMAIN loaded = Nodes
  /\ \A n \in Tiles \ {root} : \A t \in input_tensors_[n] \cap Tensor :
       LoadsAt(resident[n][t], loaded[n][t], executed, n, t)

\* What the dimensions of a tensor are of which an operation reads a part.
LEMMA InputDims ==
  ASSUME Ready(root), InputsLooped(root), NEW o \in Ops, NEW t \in Ins(o)
  PROVE  LET q == TensorDims[t]
             D == ToSet(TensorDims[t])
         IN  /\ q \in Seq(LoopDims(o)) /\ Once(q) /\ D # {} /\ IsFiniteSet(D) /\ D \subseteq LoopDims(o)
             /\ \A d \in LoopDims(o) : /\ FactorizedBounds[d] \in Nat \ {0}
                                       /\ d \in Dim /\ LoopOf(o, d).end \in Nat \ {0}
<1> DEFINE q == TensorDims[t]
           D == ToSet(TensorDims[t])
<1>1. /\ root \in Roots /\ CountsPositive(root) /\ o \in NodesOf[root] /\ Tree[o].kind = "Op"
      /\ o \in Node
  BY OpsAre, NodesClosed DEF Ready, Regular
<1>2. q \in Seq(LoopDims(o)) /\ q # <<>> /\ Once(q)
  BY <1>1 DEF InputsLooped, Once
<1>3. ASSUME NEW d \in LoopDims(o)
      PROVE  FactorizedBounds[d] \in Nat \ {0} /\ d \in Dim /\ LoopOf(o, d).end \in Nat \ {0}
  <2> DEFINE l == LoopOf(o, d)
  <2>1. /\ l \in Loop /\ l.dim = d /\ \E i \in DOMAIN Tree[o].loops : l = Tree[o].loops[i]
    BY <1>1, LoopOfIs
  <2> HIDE DEF l
  <2>2. d \in Dim /\ l.end \in Int /\ l.end >= 1
    BY <1>1, <2>1 DEF Loop, CountsPositive
  <2>3. FactorizedBounds[d] \in Nat \ {0}
    BY <1>1, <2>2, BoundOfOp
  <2> QED  BY <2>2, <2>3 DEF l
<1>4. D # {} /\ D \subseteq LoopDims(o)
  <2>1. Len(q) \in Nat \ {0} /\ DOMAIN q = 1 .. Len(q)
    BY <1>2, EmptySeq
  <2>2. 1 \in DOMAIN q
    BY <2>1
  <2>3. D = {q[i] : i \in DOMAIN q}
    BY DEF ToSet
  <2>4. q \in Seq(LoopDims(o))
    BY <1>2
  <2> HIDE DEF q, D
  <2>5. \A i \in DOMAIN q : q[i] \in LoopDims(o)
    BY <2>4
  <2> QED  BY <2>2, <2>3, <2>5
<1>5. IsFiniteSet(D)
  BY <1>2, <1>3, TensorSize
<1> QED  BY <1>2, <1>3, <1>4, <1>5

\* A tensor that a tile takes in is read by an operation below the tile.
LEMMA InputReader ==
  ASSUME PassesInv, pass = "done", NEW n \in Tiles, NEW t \in input_tensors_[n]
  PROVE  t \in Tensor /\ \E o \in Ops : n \in Above(o) /\ t \in Ins(o)
<1>1. root \in Roots /\ InputsAreLiveIn
  BY PassInvLiveIn DEF PassesInv, PassInv, TypesInv
<1>2. PICK o \in Ops \cap Subtree(n) : t \in Ins(o) /\ t \in Tensor
  BY <1>1 DEF InputsAreLiveIn
<1>3. n \in Node /\ n \notin Ops
  BY <1>1, MappingFacts DEF Tiles
<1>4. Subtree(n) = {m \in Node : Under(m, n)}
  BY <1>3, PreOrderLists DEF Subtree
<1> QED  BY <1>2, <1>3, <1>4 DEF Under

\* What a step of the walk does to what the tiles keep and have loaded.
LEMMA LoadMoves ==
  ASSUME WalkNext, DOMAIN resident = Nodes, DOMAIN loaded = Nodes,
         frames # <<>> => Current.node \in Nodes
  PROVE  /\ DOMAIN loaded' = Nodes
         /\ \/ UNCHANGED <<resident, loaded>> /\ (visitOp \/ UNCHANGED executed)
            \/ /\ BeginIteration /\ isInnermost(Current) /\ isFirstLoop(Current.node)
               /\ RangesDefined(Current.node) /\ UNCHANGED executed
               /\ \A t \in input_tensors_[Current.node] \cap Tensor :
                    /\ resident'[Current.node][t] = NewRanges(Current.node, t)
                    /\ loaded'[Current.node][t]
                         = loaded[Current.node][t] + InputMoved(Current.node, t)
               /\ \A x \in Nodes : x # Current.node =>
                    resident'[x] = resident[x] /\ loaded'[x] = loaded[x]
<1> DEFINE n == Current.node
<1>1. CASE BeginIteration /\ isInnermost(Current) /\ isFirstLoop(n)
  <2>1. MeasureTile(n) /\ n \in Nodes
    BY <1>1 DEF BeginIteration
  <2>2. \/ (outcome' = Undefined /\ UNCHANGED costVars)
        \/ (outcome' = Abort /\ UNCHANGED costVars)
        \/ (addCurrentTensor(n) /\ RangesDefined(n))
    BY <2>1, Zenon DEF MeasureTile
  <2>3. CASE UNCHANGED costVars
    BY <2>3 DEF costVars
  <2>4. CASE addCurrentTensor(n) /\ RangesDefined(n)
    <3> DEFINE k == [t \in input_tensors_[n] |-> NewRanges(n, t)]
               over(t) == IF t \in input_tensors_[n] THEN InputMoved(n, t) ELSE 0
               a == [t \in Tensor |-> loaded[n][t] + over(t)]
    <3>1. /\ resident' = [resident EXCEPT ![n] = Over(k, @)]
          /\ loaded' = [loaded EXCEPT ![n] = a] /\ UNCHANGED executed
      BY <2>4 DEF addCurrentTensor
    <3>2. \A t \in input_tensors_[n] \cap Tensor : a[t] = loaded[n][t] + InputMoved(n, t)
      OBVIOUS
    <3>3. \A t \in input_tensors_[n] : Over(k, resident[n])[t] = NewRanges(n, t)
      BY DEF Over
    <3> HIDE DEF k, a
    <3>4. /\ resident'[n] = Over(k, resident[n]) /\ loaded'[n] = a /\ DOMAIN loaded' = Nodes
          /\ \A x \in Nodes : x # n => resident'[x] = resident[x] /\ loaded'[x] = loaded[x]
      BY <2>1, <3>1
    <3> QED  BY <1>1, <2>4, <3>1, <3>2, <3>3, <3>4
  <2> QED  BY <2>2, <2>3, <2>4
<1>2. CASE ~(BeginIteration /\ isInnermost(Current) /\ isFirstLoop(n))
  <2>1. UNCHANGED <<resident, loaded>> /\ (visitOp \/ UNCHANGED executed)
    <3>1. CASE BeginIteration
      BY <1>2, <3>1 DEF BeginIteration
    <3>2. CASE StartWalk \/ EnterTile
      BY <3>2 DEF StartWalk, EnterTile, visitTile, costVars
    <3>3. CASE EnterInnerLoop
      BY <3>3 DEF EnterInnerLoop, costVars
    <3>4. CASE visitOp \/ visitTrans
      BY <3>4 DEF visitOp, visitTrans
    <3>5. CASE EnterScope \/ ExitScope
      BY <3>5 DEF EnterScope, ExitScope
    <3>6. CASE EndIteration \/ ExitLoop
      BY <3>6 DEF EndIteration, ExitLoop
    <3> QED  BY <3>1, <3>2, <3>3, <3>4, <3>5, <3>6 DEF WalkNext
  <2> QED  BY <2>1
<1> QED  BY <1>1, <1>2

\* A tile that starts reports ranges that are not empty.
LEMMA MeasuredRanges ==
  ASSUME WalkInv, TilingInv, Ready(root), Untailed(root), TopsAlike(root),
         frames # <<>>, IsLoop(Current), isInnermost(Current), isFirstLoop(Current.node),
         RangesDefined(Current.node), InputsLooped(root), NEW o \in Ops, NEW t \in Ins(o),
         t \in input_tensors_[Current.node]
  PROVE  NewRanges(Current.node, t) \in RangesOver(ToSet(TensorDims[t]))
<1> DEFINE n == Current.node
           D == ToSet(TensorDims[t])
           b == Len(frames) - Current.idx
<1>1. /\ D # {} /\ IsFiniteSet(D) /\ \A d \in D : d \in LoopDims(o) /\ d \in Dim
      /\ o \in NodesOf[root] /\ Tree[o].kind = "Op" /\ root \in Roots
  BY InputDims, OpsAre DEF Ready
<1>2. /\ StackShape(frames, root) /\ StackFits(frames) /\ frames \in Seq(FrameType)
      /\ Len(frames) \in Nat /\ Len(frames) \in 1 .. Len(frames) /\ Current = frames[Len(frames)]
  BY StackTypes DEF WalkInv, TilingInv, Current
<1>3. b \in 0 .. Len(frames)
  <2>1. b \in 0 .. Len(frames) - 1
    BY <1>1, <1>2, TileFrames
  <2> HIDE DEF b
  <2> QED  BY <1>2, <2>1
<1>4. ASSUME NEW d \in D PROVE DimRange(n, d) \in HalfOpen
  <2> DEFINE m == BFSOffsetLoop[d][n]
             s == Offsets[d][m].step
             e == LoopOf(m, d).end
             low == Origin(frames, b, d)
             span == Span(frames, b, d)
  <2>1. m # nullptr
    BY <1>4 DEF RangesDefined, ToSet
  <2>2. DimRange(n, d) = [low |-> low, high |-> low + span]
    BY <1>1, <1>2, <1>4, <2>1, MeasuredRange DEF CellRange
  <2>3. m \in NodesOf[root] /\ d \in LoopDims(m) /\ span = e * s
    BY <1>1, <1>2, <1>4, <2>1, ReportedRun DEF FullRun
  <2>4. low \in Int
    BY <1>2, <1>3, OriginIsNumber
  <2>5. s \in Nat
    BY <1>1, <1>4, <2>3, OffsetsForward DEF Ready, Regular
  <2>6. e \in Nat
    <3> DEFINE l == LoopOf(m, d)
    <3> HIDE DEF m
    <3>1. l \in Loop /\ \E i \in DOMAIN Tree[m].loops : l = Tree[m].loops[i]
      BY <1>1, <2>3, LoopOfIs, NodesClosed
    <3> HIDE DEF l
    <3>2. l.end \in Int /\ l.end >= 1
      BY <2>3, <3>1 DEF Ready, Regular, CountsPositive, Loop
    <3> QED  BY <3>2 DEF l
  <2> HIDE DEF low, span, s, e
  <2>7. span \in Nat
    BY <2>3, <2>5, <2>6
  <2>8. low + span \in Int /\ low <= low + span
    BY <2>4, <2>7
  <2> QED  BY <2>2, <2>4, <2>8 DEF HalfOpen
<1> HIDE DEF D
<1>5. NewRanges(n, t) = [d \in D |-> DimRange(n, d)]
  BY DEF NewRanges, D
<1>6. NewRanges(n, t) \in [D -> HalfOpen]
  BY <1>4, <1>5
<1> QED  BY <1>1, <1>6 DEF RangesOver, D

\* A tile that starts loads what it lacks.
LEMMA MeasureLoads ==
  ASSUME NEW D, NEW kept \in RangesOver(D) \cup {<<>>}, NEW new \in RangesOver(D),
         NEW n, NEW t, D = ToSet(TensorDims[t]), NEW load, NEW ran, LoadsAt(kept, load, ran, n, t)
  PROVE  LoadsAt(new, load + calTensorMapDM(kept, new), ran, n, t)
<1> DEFINE P == Points(new)
           Q == Points(kept)
           c == calTensorMapDM(kept, new)
<1>1. load \in Nat
  BY DEF LoadsAt
<1>2. PICK S : Seen(S, kept, load, ran, n, t)
  BY DEF LoadsAt
<1>3. IsFiniteSet(P)
  BY VolumeCounts
<1>4. c = Cardinality(P \ Q)
  BY MovementCounts
<1>5. IsFiniteSet(S) /\ Q \subseteq S /\ Cardinality(S) <= load
  BY <1>2 DEF Seen
<1> HIDE DEF P, Q, c
<1>6. IsFiniteSet(S \cup P) /\ c \in Nat /\ Cardinality(S \cup P) <= Cardinality(S) + c
  BY <1>3, <1>4, <1>5, SeenMore
<1>7. Cardinality(S) \in Nat /\ Cardinality(S \cup P) \in Nat
  BY <1>5, <1>6, FS_CardinalityType
<1>8. load + c \in Nat /\ Cardinality(S \cup P) <= load + c
  BY <1>1, <1>5, <1>6, <1>7
<1>9. Seen(S \cup P, new, load + c, ran, n, t)
  BY <1>2, <1>6, <1>8 DEF Seen, P
<1> QED  BY <1>8, <1>9 DEF LoadsAt, c

\* What an operation touches of its inputs, the tiles above it keep.
LEMMA OpTouches ==
  ASSUME KeptInv, Even(root), InputsLooped(root), outcome = "walking", frames # <<>>,
         AtChild(Current), NEW o, o = Child(Current), Tree[o].kind = "Op",
         NEW n \in Above(o), Tree[n].kind = "Tile", NEW t \in input_tensors_[n], t \in Ins(o),
         resident[n][t] \in RangesOver(ToSet(TensorDims[t])) \cup {<<>>}
  PROVE  Touched(o, t, dim_skew) \subseteq Points(resident[n][t])
<1> DEFINE D == ToSet(TensorDims[t])
           kept == resident[n][t]
           S == [d \in D |-> dim_skew[d] .. dim_skew[d] + LoopOf(o, d).end - 1]
           R == [d \in D |-> Inside(kept[d])]
<1>1. /\ WalkInv /\ TilingInv /\ Ready(root) /\ Untailed(root) /\ Holds(resident, frames)
      /\ Kids(o) = <<>> /\ root \in Roots
  BY KeptAtOp DEF Ready
<1>2. VisitsOp(root, frames, o)
  BY <1>1, AtOp
<1>3. /\ o \in NodesOf[root] /\ o \in Node /\ o \in Ops /\ Parent(o) = Current.node
  <2>1. o \in NodesOf[root] /\ Parent(o) = frames[Len(frames)].node
    BY <1>2 DEF VisitsOp
  <2> QED  BY <1>1, <2>1, NodesClosed DEF Ops, Nodes, Current
<1>4. D # {} /\ D \subseteq LoopDims(o) /\ \A d \in D : d \in Dim
  BY <1>1, <1>3, InputDims
<1>5. kept \in RangesOver(D)
  <2>1. Current.node \in Node /\ Current.node # nullptr
    BY <1>1, StackTypes, NodesAreNumbers DEF nullptr
  <2>2. Above(o) = {Current.node} \cup Above(Current.node)
    BY <1>3, <2>1, AboveStep
  <2>3. Under(Current.node, n)
    BY <2>2 DEF Under
  <2>4. PICK j \in 1 .. Len(frames) : frames[j].node = n /\ IsLoop(frames[j]) /\ Begun(frames[j])
    BY <1>1, <2>3, TilesBegun
  <2>5. HoldsAt(resident, frames, j)
    BY <1>1, <2>4 DEF Holds
  <2>6. DOMAIN kept = D
    BY <2>4, <2>5 DEF HoldsAt
  <2> HIDE DEF kept, D
  <2>7. kept # <<>>
    BY <1>4, <2>6
  <2> QED  BY <2>7 DEF kept, D
<1>6. ASSUME NEW d \in D PROVE S[d] \subseteq R[d]
  <2>1. d \in Dim /\ d \in LoopDims(o)
    BY <1>4
  <2>2. BlockAt(o, d) \subseteq kept[d].low .. kept[d].high - 1
    BY <1>1, <2>1, BlockIsHeld
  <2>3. LoopOf(o, d).res = LoopOf(o, d).end
    BY <1>1, <1>3, <2>1, EvenRuns
  <2>4. BlockAt(o, d) = dim_skew[d] .. dim_skew[d] + LoopOf(o, d).end - 1
    BY <2>3 DEF BlockAt
  <2> QED  BY <2>2, <2>4 DEF Inside
<1>7. Box(S, D) \subseteq Box(R, D)
  <2> HIDE DEF S, R, D
  <2> QED  BY <1>6, BoxInside
<1>8. Points(kept) = Box(R, D)
  <2> HIDE DEF kept, D
  <2> QED  BY <1>5, PointsAreBox
<1> QED  BY <1>7, <1>8 DEF Touched

\* One more execution that touches nothing but what was seen.
LEMMA SeenAfter ==
  ASSUME NEW kept, NEW load, NEW n, NEW t, NEW ran, NEW then, LoadsAt(kept, load, ran, n, t),
         \A o \in Ops : n \in Above(o) /\ t \in Ins(o) => \A p \in ToSet(then[o]) :
           p \in ToSet(ran[o]) \/ Touched(o, t, p) \subseteq Points(kept)
  PROVE  LoadsAt(kept, load, then, n, t)
<1>1. PICK S : Seen(S, kept, load, ran, n, t)
  BY DEF LoadsAt
<1>2. Seen(S, kept, load, then, n, t)
  <2>1. IsFiniteSet(S) /\ Cardinality(S) <= load /\ Points(kept) \subseteq S
    BY <1>1 DEF Seen
  <2>2. ASSUME NEW o \in Ops, n \in Above(o), t \in Ins(o), NEW p \in ToSet(then[o])
        PROVE  Touched(o, t, p) \subseteq S
    <3>1. CASE p \in ToSet(ran[o])
      BY <1>1, <2>2, <3>1 DEF Seen
    <3>2. CASE Touched(o, t, p) \subseteq Points(kept)
      BY <2>1, <3>2
    <3> QED  BY <2>2, <3>1, <3>2
  <2> QED  BY <2>1, <2>2 DEF Seen
<1> QED  BY <1>2 DEF LoadsAt

\* Every step of the walk keeps what LoadInv says.
LEMMA MoveLoads ==
  ASSUME KeptInv, Even(root), Ready(root), InputsLooped(root), LoadInv, pass = "done", WalkNext,
         UNCHANGED <<root, input_tensors_>>
  PROVE  LoadInv'
<1>1. /\ WalkInv /\ TilingInv /\ ExecInv /\ PassesInv /\ HoldsInv /\ root \in Roots
      /\ Untailed(root) /\ TopsAlike(root)
  BY DEF KeptInv, TiledInv, Even, Ready
<1>2. DOMAIN resident = Nodes /\ DOMAIN loaded = Nodes /\ DOMAIN executed = Ops
  BY <1>1 DEF HoldsInv, LoadInv, ExecInv
<1>3. frames # <<>> => Current.node \in Nodes
  <2>1. SUFFICES ASSUME frames # <<>> PROVE frames[Len(frames)].node \in Nodes
    BY DEF Current
  <2>2. Len(frames) \in 1 .. Len(frames) /\ StackShape(frames, root)
    BY <1>1, <2>1, StackTypes DEF WalkInv
  <2> QED  BY <1>1, <2>2, StackNodes DEF Nodes
<1>4. outcome = "walking"
  BY DEF WalkNext, Walking, StartWalk, EnterTile, EnterInnerLoop, BeginIteration, visitOp,
     visitTrans, EnterScope, ExitScope, EndIteration, ExitLoop
<1>5. DOMAIN loaded' = Nodes
  BY <1>2, <1>3, LoadMoves
<1>6. SUFFICES ASSUME NEW n \in Tiles \ {root}, NEW t \in input_tensors_[n] \cap Tensor
               PROVE  LoadsAt(resident'[n][t], loaded'[n][t], executed', n, t)
  <2>1. Nodes' = Nodes /\ Ops' = Ops /\ Tiles' = Tiles /\ root' = root /\ input_tensors_' = input_tensors_
    BY DEF Nodes, Ops, Tiles
  <2>2. \A n \in Tiles \ {root} : \A t \in input_tensors_[n] \cap Tensor :
          LoadsAt(resident'[n][t], loaded'[n][t], executed', n, t)
    BY <1>6
  <2>3. ASSUME NEW n \in Tiles' \ {root'}, NEW t \in input_tensors_'[n] \cap Tensor
        PROVE  LoadsAt(resident[n][t], loaded[n][t], executed, n, t)'
    <3>1. LoadsAt(resident'[n][t], loaded'[n][t], executed', n, t)
      BY <2>1, <2>2, <2>3
    <3> QED  BY <2>1, <3>1 DEF LoadsAt, Seen
  <2> QED  BY <1>5, <2>1, <2>3 DEF LoadInv
<1>7. LoadsAt(resident[n][t], loaded[n][t], executed, n, t) /\ n \in Nodes /\ Tree[n].kind = "Tile"
  BY DEF LoadInv, Tiles
<1>8. CASE UNCHANGED <<resident, loaded, executed>>
  BY <1>7, <1>8
<1>9. CASE UNCHANGED <<resident, loaded>> /\ visitOp
  <2> DEFINE o == Child(Current)
  <2>1. /\ frames # <<>> /\ AtChild(Current) /\ Tree[o].kind = "Op"
        /\ executed' = [executed EXCEPT ![o] = Append(@, dim_skew)]
    BY <1>9 DEF visitOp
  <2> HIDE DEF o
  <2>2. dim_skew \in [Dim -> Int]
    BY <1>1 DEF WalkInv
  <2>3. ASSUME NEW x \in Ops, n \in Above(x), t \in Ins(x), NEW p \in ToSet(executed'[x])
        PROVE  p \in ToSet(executed[x]) \/ Touched(x, t, p) \subseteq Points(resident[n][t])
    <3>1. CASE x # o
      BY <1>2, <2>1, <2>3, <3>1
    <3>2. CASE x = o
      <4>1. executed'[x] = Append(executed[x], dim_skew) /\ executed[x] \in Seq([Dim -> Int])
        BY <1>1, <1>2, <1>4, <2>1, <3>2 DEF ExecInv
      <4>2. ToSet(executed'[x]) = ToSet(executed[x]) \cup {dim_skew}
        BY <2>2, <4>1, OnceMore
      <4>3. Touched(o, t, dim_skew) \subseteq Points(resident[n][t])
        BY <1>4, <1>7, <2>1, <2>3, <3>2, OpTouches DEF LoadsAt, o
      <4> QED  BY <2>3, <3>2, <4>2, <4>3
    <3> QED  BY <3>1, <3>2
  <2>4. LoadsAt(resident[n][t], loaded[n][t], executed', n, t)
    BY <1>7, <2>3, SeenAfter
  <2> QED  BY <1>9, <2>4
<1>10. CASE /\ BeginIteration /\ isInnermost(Current) /\ isFirstLoop(Current.node)
            /\ RangesDefined(Current.node) /\ UNCHANGED executed
            /\ \A u \in input_tensors_[Current.node] \cap Tensor :
                 /\ resident'[Current.node][u] = NewRanges(Current.node, u)
                 /\ loaded'[Current.node][u]
                      = loaded[Current.node][u] + InputMoved(Current.node, u)
            /\ \A x \in Nodes : x # Current.node =>
                 resident'[x] = resident[x] /\ loaded'[x] = loaded[x]
  <2>1. CASE n # Current.node
    BY <1>7, <1>10, <2>1
  <2>2. CASE n = Current.node
    <3>1. frames # <<>> /\ IsLoop(Current)
      BY <1>10 DEF BeginIteration
    <3>2. PICK o \in Ops : n \in Above(o) /\ t \in Ins(o)
      BY <1>1, InputReader
    <3>3. NewRanges(n, t) \in RangesOver(ToSet(TensorDims[t]))
      BY <1>1, <1>10, <2>2, <3>1, <3>2, MeasuredRanges
    <3>4. Parent(n) # nullptr
      BY <1>1, <1>7, NodesClosed DEF Nodes
    <3>5. InputMoved(n, t) = calTensorMapDM(resident[n][t], NewRanges(n, t))
      BY <3>4 DEF InputMoved
    <3>6. resident[n][t] \in RangesOver(ToSet(TensorDims[t])) \cup {<<>>}
      BY <1>7 DEF LoadsAt
    <3>7. LoadsAt(NewRanges(n, t), loaded[n][t] + calTensorMapDM(resident[n][t], NewRanges(n, t)),
                  executed, n, t)
      BY <1>7, <3>3, <3>6, MeasureLoads
    <3>8. /\ resident'[n][t] = NewRanges(n, t) /\ loaded'[n][t] = loaded[n][t] + InputMoved(n, t)
          /\ executed' = executed
      BY <1>10, <2>2
    <3> QED  BY <3>5, <3>7, <3>8
  <2> QED  BY <2>1, <2>2
<1> QED  BY <1>2, <1>3, <1>8, <1>9, <1>10, LoadMoves

\* The inductive invariant of the theorem.
LoadedInv == KeptInv /\ (Even(root) /\ Ready(root) /\ InputsLooped(root) => LoadInv)

\* Nothing is loaded of a tensor before the walk, and nothing is touched.
LEMMA EmptyLoads ==
  ASSUME NEW n, NEW t, NEW ran, \A o \in Ops : ran[o] = <<>>
  PROVE  LoadsAt(<<>>, 0, ran, n, t)
<1>1. IsFiniteSet({}) /\ Cardinality({}) = 0
  BY FS_EmptySet
<1>2. Points(<<>>) = {}
  BY DEF Points
<1>3. \A o \in Ops : ToSet(ran[o]) = {}
  BY DEF ToSet
<1>4. Seen({}, <<>>, 0, ran, n, t)
  BY <1>1, <1>2, <1>3 DEF Seen
<1> QED  BY <1>4 DEF LoadsAt

\* What a tile has loaded of a tensor before the walk.
LEMMA WalkEmptyLoads ==
  ASSUME WalkEmpty, NEW n \in Tiles, NEW t \in Tensor
  PROVE  /\ resident[n][t] = <<>> /\ loaded[n][t] = 0 /\ DOMAIN loaded = Nodes
         /\ LoadsAt(resident[n][t], loaded[n][t], executed, n, t)
<1>1. resident[n][t] = <<>> /\ loaded[n][t] = 0 /\ DOMAIN loaded = Nodes
  BY DEF WalkEmpty, Tiles
<1>2. \A o \in Ops : executed[o] = <<>>
  BY DEF WalkEmpty
<1> QED  BY <1>1, <1>2, EmptyLoads

LEMMA LoadedInitially ==
  ASSUME Init
  PROVE  LoadedInv
<1>1. WalkEmpty /\ DOMAIN loaded = Nodes
  BY DEF Init, WalkEmpty
<1> QED  BY <1>1, KeptInitially, WalkEmptyLoads DEF LoadedInv, LoadInv

\* Every step of the evaluation keeps the invariant.
LEMMA LoadedStep ==
  ASSUME LoadedInv, [Next]_vars
  PROVE  LoadedInv'
<1>1. KeptInv /\ KeptInv'
  BY KeptStep DEF LoadedInv
<1>2. SUFFICES ASSUME Even(root)', Ready(root)', InputsLooped(root)' PROVE LoadInv'
  BY <1>1 DEF LoadedInv
<1>3. CASE Analyse
  <2>1. WalkNext /\ UNCHANGED <<root, input_tensors_>> /\ pass = "done"
    BY <1>3 DEF Analyse, tensorVars
  <2>2. Even(root) /\ Ready(root) /\ InputsLooped(root)
    BY <1>2, <2>1
  <2> QED  BY <1>1, <2>1, <2>2, MoveLoads DEF LoadedInv
<1>4. CASE GetLoopCount \/ Stop \/ UNCHANGED vars
  <2>1. UNCHANGED <<walkVars, root, input_tensors_>>
    BY <1>4 DEF GetLoopCount, Evaluate, Visit, FinishCount, Stop, vars, tensorVars
  <2>2. Even(root) /\ Ready(root) /\ InputsLooped(root)
    BY <1>2, <2>1
  <2>3. UNCHANGED <<resident, loaded, executed>> /\ Nodes' = Nodes /\ Ops' = Ops /\ Tiles' = Tiles
    BY <2>1 DEF walkVars, Nodes, Ops, Tiles
  <2>4. LoadInv
    BY <2>2 DEF LoadedInv
  <2> QED  BY <2>1, <2>3, <2>4 DEF LoadInv, LoadsAt, Seen
<1>5. CASE Initialise
  <2>1. UNCHANGED walkVars /\ root' = root /\ pass # "done"
    BY <1>5 DEF Initialise, TensorNext, OffsetPasses, initOpTensor, StartTensorPass,
       initTensor, FinishTensors
  <2>2. UNCHANGED <<resident, loaded, executed>> /\ Nodes' = Nodes /\ Ops' = Ops /\ Tiles' = Tiles
    BY <2>1 DEF walkVars, Nodes, Ops, Tiles
  <2>3. WalkEmpty /\ DOMAIN loaded = Nodes
    BY <1>1, <2>1 DEF KeptInv, WalkEmpty
  <2>4. ASSUME NEW n \in Tiles' \ {root'}, NEW t \in input_tensors_'[n] \cap Tensor
        PROVE  LoadsAt(resident[n][t], loaded[n][t], executed, n, t)'
    <3>1. LoadsAt(resident[n][t], loaded[n][t], executed, n, t)
      BY <2>2, <2>3, <2>4, WalkEmptyLoads
    <3> QED  BY <2>2, <3>1 DEF LoadsAt, Seen
  <2> QED  BY <2>2, <2>3, <2>4 DEF LoadInv
<1> QED  BY <1>3, <1>4, <1>5 DEF Next

\* A number and the multiple of e below it.
LEMMA BlockBelow ==
  ASSUME NEW e \in Nat \ {0}, NEW x \in Nat
  PROVE  LET c == x - (x % e) IN c \in Nat /\ c <= x /\ x <= c + e - 1 /\ c % e = 0
<1> DEFINE q == x \div e
           m == x % e
<1>1. q \in Int /\ m \in Int /\ x = e * q + m /\ 0 <= m /\ m < e
  OBVIOUS
<1>2. x - m = e * q /\ e * q \in Int
  BY <1>1
<1>3. q >= 0
  <2>1. CASE q <= -1
    <3>1. e * q <= -e
      BY <1>1, <2>1
    <3> QED  BY <1>1, <1>2, <3>1
  <2> QED  BY <1>1, <2>1
<1> HIDE DEF q, m
<1>4. e * q >= 0
  BY <1>1, <1>3
<1>5. (e * q) % e = 0
  BY <1>1
<1>6. x - m \in Nat /\ x - m <= x /\ x <= x - m + e - 1
  BY <1>1, <1>2, <1>4
<1>7. (x - m) % e = 0
  BY <1>2, <1>5
<1> QED  BY <1>6, <1>7 DEF m

\* The blocks of an operation cover the tensors that it reads.
LEMMA BlocksCover ==
  ASSUME Ready(root), InputsLooped(root), NEW o \in Ops, NEW t \in Ins(o),
         NEW x \in Positions(ToSet(TensorDims[t]))
  PROVE  \E p \in Corners(o) : x \in Touched(o, t, p)
<1> DEFINE D == ToSet(TensorDims[t])
           E == [d \in LoopDims(o) |-> LoopOf(o, d).end]
           p == [d \in Dim |-> IF d \in D THEN x[d] - (x[d] % E[d]) ELSE 0]
<1>1. /\ D \subseteq LoopDims(o)
      /\ \A d \in LoopDims(o) : /\ FactorizedBounds[d] \in Nat \ {0}
                                /\ d \in Dim /\ E[d] \in Nat \ {0} /\ E[d] = LoopOf(o, d).end
  BY InputDims
<1>2. x = [d \in D |-> x[d]] /\ \A d \in D : x[d] \in 0 .. FactorizedBounds[d] - 1
  <2> DEFINE S == [d \in D |-> 0 .. FactorizedBounds[d] - 1]
  <2>1. x \in Box(S, D)
    BY DEF Positions
  <2>2. x = [d \in D |-> x[d]] /\ \A d \in D : x[d] \in S[d]
    <3> HIDE DEF S, D
    <3> QED  BY <2>1, BoxHas
  <2> QED  BY <2>2
<1> HIDE DEF E, D
<1>3. ASSUME NEW d \in D
      PROVE  /\ p[d] = x[d] - (x[d] % E[d]) /\ p[d] \in 0 .. FactorizedBounds[d] - 1
             /\ p[d] % E[d] = 0 /\ x[d] \in p[d] .. p[d] + E[d] - 1
  <2> DEFINE e == E[d]
             y == x[d]
             b == FactorizedBounds[d]
  <2>1. e \in Nat \ {0} /\ b \in Nat \ {0} /\ d \in Dim /\ y \in 0 .. b - 1
    BY <1>1, <1>2
  <2>2. p[d] = y - (y % e)
    BY <1>3, <2>1
  <2> HIDE DEF e, y, b, p
  <2>3. y \in Nat /\ y <= b - 1
    BY <2>1
  <2>4. p[d] \in Nat /\ p[d] <= y /\ y <= p[d] + e - 1 /\ p[d] % e = 0
    BY <2>1, <2>2, <2>3, BlockBelow
  <2>5. p[d] \in 0 .. b - 1 /\ y \in p[d] .. p[d] + e - 1
    BY <2>1, <2>3, <2>4
  <2> QED  BY <2>2, <2>4, <2>5 DEF e, y, b
<1>4. ASSUME NEW d \in Dim PROVE p[d] \in BlocksOf(o, d)
  <2>1. CASE d \in D
    <3>1. d \in LoopDims(o) /\ E[d] = LoopOf(o, d).end
      BY <1>1, <2>1
    <3>2. p[d] \in 0 .. FactorizedBounds[d] - 1 /\ p[d] % E[d] = 0
      BY <1>3, <2>1
    <3> HIDE DEF p
    <3> QED  BY <3>1, <3>2 DEF BlocksOf
  <2>2. CASE d \notin D
    <3>1. p[d] = 0
      BY <2>2
    <3>2. CASE d \in LoopDims(o)
      <4> DEFINE e == LoopOf(o, d).end
                 b == FactorizedBounds[d]
      <4>1. e \in Nat \ {0} /\ b \in Nat \ {0}
        BY <1>1, <3>2
      <4> HIDE DEF e, b, p
      <4>2. 0 \in 0 .. b - 1 /\ 0 % e = 0
        BY <4>1
      <4> QED  BY <3>1, <3>2, <4>2 DEF BlocksOf, e, b
    <3>3. CASE d \notin LoopDims(o)
      BY <3>1, <3>3 DEF BlocksOf
    <3> QED  BY <3>2, <3>3
  <2> QED  BY <2>1, <2>2
<1>5. p \in Corners(o)
  <2>1. p = [d \in Dim |-> p[d]]
    OBVIOUS
  <2> HIDE DEF p
  <2> QED  BY <1>4, <2>1 DEF Corners
<1>6. x \in Touched(o, t, p)
  <2> DEFINE S == [d \in D |-> p[d] .. p[d] + LoopOf(o, d).end - 1]
  <2>1. \A d \in D : x[d] \in S[d]
    <3> HIDE DEF p
    <3> QED  BY <1>1, <1>3
  <2> HIDE DEF p
  <2>2. Touched(o, t, p) = Box(S, D)
    BY DEF Touched, D
  <2> HIDE DEF S
  <2> QED  BY <1>2, <2>1, <2>2, BoxHas
<1> QED  BY <1>5, <1>6

\* In a mapping without tails whose operations loop over the dimensions of
\* their inputs, every tile below the root has loaded at least every element
\* of the tensors that it takes in when the walk is over (addCurrentTensor and
\* calTensorMapDM, for every mapping, workload and architecture): the reuse
\* that the movements are reduced by never leaves an element out.
THEOREM TilesLoadTensors ==
  Spec => [](Even(root) /\ InputsLooped(root) => LoadsWholeTensor)
<1>1. Init => LoadedInv
  BY LoadedInitially
<1>2. LoadedInv /\ [Next]_vars => LoadedInv'
  BY LoadedStep
<1>3. LoadedInv => (Even(root) /\ InputsLooped(root) => LoadsWholeTensor)
  <2>1. SUFFICES ASSUME LoadedInv, Even(root), InputsLooped(root), outcome = "finished",
                        NEW n \in Tiles \ {root}, NEW t \in input_tensors_[n]
                 PROVE  loaded[n][t] >= BoundsOver(TensorDims[t])
    BY DEF LoadsWholeTensor, BoundsOver
  <2> DEFINE q == TensorDims[t]
             P == Positions(ToSet(TensorDims[t]))
  <2>2. KeptInv /\ TiledInv /\ PassesInv /\ pass = "done" /\ Regular(root)
    BY <2>1 DEF LoadedInv, KeptInv, TiledInv, OrderInv, Even
  <2>3. Ready(root)
    BY <2>2, AcceptedReady
  <2>4. \A o \in Ops : ToSet(executed[o]) = Corners(o)
    BY <2>1, <2>2, <2>3 DEF TiledInv, ExecInv
  <2>5. PICK o \in Ops : t \in Tensor /\ n \in Above(o) /\ t \in Ins(o)
    BY <2>2, InputReader
  <2>6. LoadsAt(resident[n][t], loaded[n][t], executed, n, t)
    BY <2>1, <2>3, <2>5 DEF LoadedInv, LoadInv
  <2>7. PICK S : Seen(S, resident[n][t], loaded[n][t], executed, n, t)
    BY <2>6 DEF LoadsAt
  <2>8. P \subseteq S
    <3>1. ASSUME NEW x \in P PROVE x \in S
      <4>1. PICK p \in Corners(o) : x \in Touched(o, t, p)
        BY <2>1, <2>3, <2>5, BlocksCover
      <4>2. Touched(o, t, p) \subseteq S
        BY <2>4, <2>5, <2>7 DEF Seen
      <4> QED  BY <4>1, <4>2
    <3> QED  BY <3>1
  <2>9. IsFiniteSet(P) /\ BoundsOver(q) = Cardinality(P)
    <3>1. q \in Seq(LoopDims(o)) /\ Once(q) /\ \A d \in LoopDims(o) : FactorizedBounds[d] \in Nat \ {0}
      BY <2>1, <2>3, <2>5, InputDims
    <3> QED  BY <3>1, TensorSize
  <2> HIDE DEF P
  <2>10. IsFiniteSet(S) /\ Cardinality(S) <= loaded[n][t] /\ loaded[n][t] \in Nat
    BY <2>6, <2>7 DEF Seen, LoadsAt
  <2>11. Cardinality(P) <= Cardinality(S)
    BY <2>8, <2>10, FS_Subset
  <2>12. Cardinality(P) \in Nat /\ Cardinality(S) \in Nat
    BY <2>9, <2>10, FS_CardinalityType
  <2> QED  BY <2>9, <2>10, <2>11, <2>12
<1> QED  BY <1>1, <1>2, <1>3, PTL DEF Spec
=============================================================================
