------------------------------ MODULE Latency ------------------------------
(***************************************************************************)
(* The latency arithmetic of PerfAnalysis                                  *)
(* (src/src/loop-analysis/performance.cpp): where a tile's data comes from *)
(* and goes to, what a transfer costs, and how the latencies of the        *)
(* children of a tile are put together over its iterations.                *)
(*                                                                         *)
(* A route is a level name, or Abort where an assertion fails, or          *)
(* Undefined where the code follows a null pointer or leaves a vector.     *)
(***************************************************************************)
EXTENDS MappingTree, TensorMap, Hardware

CONSTANT UnsetBandwidths  \* what the bandwidth_ of an absent connection may read as

ASSUME BandwidthAssumption == UnsetBandwidths \subseteq Nat /\ UnsetBandwidths # {}

Abort == "aborted"
Undefined == "undefined"

Zero == [in |-> 0, out |-> 0, proc |-> 0]

Level(n) == Tree[n].target

\* The parameter `current_node_' of the code is n throughout.
TileAbove(n) ==
  Level(Ancestors[n][CHOOSE i \in DOMAIN Ancestors[n] :
          /\ Tree[Ancestors[n][i]].kind = "Tile"
          /\ \A j \in 1 .. i - 1 : Tree[Ancestors[n][j]].kind # "Tile"])

-----------------------------------------------------------------------------
\* findSource: the parent tile, or for a forwarding node after a Trans node
\* the operation that the Trans node takes its data from.
findSource(n) ==
  LET p == findCurrentNodePosition(n)
      siblings == Kids(Parent(n))
  IN  IF \/ Tree[n].mode # "Forward"
         \/ p = 1
         \/ Tree[siblings[p - 1]].kind # "Trans"
      THEN TileAbove(n)
      ELSE IF p = 2 THEN Undefined
      ELSE LET former == LastLeaf[siblings[p - 2]]
           IN  IF Tree[former].kind = "Op" THEN Level(former) ELSE Abort

\* Bug: a forwarding node that is the last child of its parent does not look
\* further up for the Trans node that follows it.
findTargetNearest(n) ==
  LET siblings == Kids(Parent(n))
      p == findCurrentNodePosition(n)
  IN  IF Tree[n].mode # "Forward" THEN TileAbove(n)
      ELSE IF Parent(n) = nullptr \/ p = Len(siblings) THEN Undefined
      ELSE IF Tree[siblings[p + 1]].kind = "Trans" THEN Level(siblings[p + 1]) ELSE Abort

\* findTarget: the parent tile, or for a forwarding node the Trans node that
\* follows it or the nearest of its ancestors that is not a last child.
findTarget(n) ==
  LET path == <<n>> \o Ancestors[n]
      isLast(m) == Parent(m) # nullptr /\ m = Last(Kids(Parent(m)))
      m == path[CHOOSE i \in DOMAIN path :
                  ~isLast(path[i]) /\ \A j \in 1 .. i - 1 : isLast(path[j])]
      next == Kids(Parent(m))[findCurrentNodePosition(m) + 1]
  IN  IF Tree[n].mode # "Forward" THEN TileAbove(n)
      ELSE IF Parent(m) = nullptr THEN Undefined
      ELSE IF Tree[next].kind = "Trans" THEN Level(next) ELSE Abort

\* The level that a tile's output leaves from (findLastOpTrans).
OutputLevel(n) ==
  IF Tree[n].mode = "Forward" THEN Level(LastLeaf[n]) ELSE Level(n)

\* What intercon[...].bandwidth_ may be: operator[] makes up an entry whose
\* bandwidth_ is not initialised.
Bandwidths(source, target) ==
  IF <<source, target>> \in DOMAIN InterCon
  THEN {InterCon[<<source, target>>].bandwidth}
  ELSE UnsetBandwidths

\* (dm + bandwidth - 1) / bandwidth.
Transfer(dm, bandwidth) == (dm + bandwidth - 1) \div bandwidth

\* The possible ends of a transfer: its latency, or how it fails.
Result(outcome, latency) == [outcome |-> outcome, latency |-> latency]

Transfers(source, target, dm) ==
  LET failed == {source, target} \cap {Abort, Undefined} IN
    IF failed # {} THEN {Result(f, 0) : f \in failed}
    ELSE {IF b = 0 THEN Result(Undefined, 0)
                   ELSE Result("computed", Transfer(dm, b)) :
            b \in Bandwidths(source, target)}

Free == {Result("computed", 0)}

getOutputLatency(n, dm) == Transfers(OutputLevel(n), findTarget(n), dm)

\* What came over a Trans node and what comes from a tile are two transfers;
\* the second is free within a level.
getInputLatency(n, dm_tile, dm_trans) ==
  LET fromTrans == IF dm_trans > 0
                   THEN Transfers(findSource(n), Level(n), dm_trans) ELSE Free
      fromTile == IF dm_tile > 0 /\ findSource(n) # Level(n)
                  THEN Transfers(findSource(n), Level(n), dm_tile) ELSE Free
  IN  {IF a.outcome # "computed" THEN a
       ELSE [b EXCEPT !.latency = a.latency + b.latency] :
         a \in fromTrans, b \in fromTile}

-----------------------------------------------------------------------------
\* getInterConNode: the children stand in a Scope if the first one is one.
Children(n) ==
  IF Tree[Kids(n)[1]].kind = "Scope" THEN Kids(Kids(n)[1]) ELSE Kids(n)

\* The connection that serves child i of tile n.
ConnectionOf(n, i) ==
  LET child == Children(n)[i] IN
    IF Tree[child].kind = "Trans"
    THEN <<Level(LastLeaf[Children(n)[i - 1]]), Level(child)>>
    ELSE <<Level(n), Level(child)>>

\* getInterConNode(i): Undefined outside the children, Abort when the
\* connection is not declared.
Reaches(n, i) ==
  IF \/ i > Len(Children(n))
     \/ i = 1 /\ Tree[Children(n)[1]].kind = "Trans"
  THEN Undefined
  ELSE IF ConnectionOf(n, i) \in DOMAIN InterCon THEN "found" ELSE Abort

getInterConNode(n, i) == InterCon[ConnectionOf(n, i)]

scopeType(n) ==
  IF Tree[Kids(n)[1]].kind = "Scope" THEN Tree[Kids(n)[1]].type ELSE "Pipeline"

\* dm_latency for child i: HD and FD connections set it; on a connection of
\* another type it keeps its value from the last child that set it.
DmLatency(n, ls, i) ==
  LET type == [j \in 1 .. i |-> getInterConNode(n, j).type]
      dm(j, l) == CASE j = 0 -> 0
                    [] type[j] = "HD" -> l.in + l.out
                    [] OTHER -> Larger(l.in, l.out)
      of(j) == dm(j, ls[j])
  IN  of(Max({0} \cup {j \in 1 .. i : type[j] \in {"HD", "FD"}}))

SumOver(f(_), S) == MapThenSumSet(f, S)

\* std::max over S, starting from 0.
MaxOver(f(_), S) == Max({0} \cup {f(i) : i \in S})

\* One iteration: the latencies ls of the children under the tile's scope
\* type.
computeScopeLatency(n, ls) ==
  LET I == DOMAIN ls
      dm == SumOver(LAMBDA i : DmLatency(n, ls, i), I)
      moves == SumOver(LAMBDA i : ls[i].in + ls[i].out, I)
      procs == SumOver(LAMBDA i : ls[i].proc, I)
  IN  CASE scopeType(n) = "Pipeline" ->
             [in |-> dm, out |-> dm, proc |-> procs]
        [] scopeType(n) = "Sequential" ->
             [in |-> moves, out |-> moves, proc |-> procs]
        [] scopeType(n) = "Parallel" ->
             [in |-> MaxOver(LAMBDA i : ls[i].in, I),
              out |-> MaxOver(LAMBDA i : ls[i].out, I),
              proc |-> MaxOver(LAMBDA i : ls[i].proc, I)]
        [] OTHER -> Zero

\* Bug: the iterations of a temporal tile overlap.
TemporalOverlapped(b) ==
  LET I == DOMAIN b
  IN  Larger(Larger(MaxOver(LAMBDA i : b[i].in, I), MaxOver(LAMBDA i : b[i].proc, I)),
             MaxOver(LAMBDA i : b[i].out, I))

\* A temporal tile runs its iterations one after the other.
TemporalLatency(b) ==
  LET I == DOMAIN b
  IN  Larger(Larger(SumOver(LAMBDA i : b[i].in, I), SumOver(LAMBDA i : b[i].proc, I)),
             SumOver(LAMBDA i : b[i].out, I))

\* A spatial tile runs fanout iterations in a round.  total_latency is never
\* reset between the rounds, and the rounds over a unicast connection are
\* weighted by repeat - i * fanout.
SpatialLatency(b, con) ==
  LET repeat == (Len(b) + con.fanout - 1) \div con.fanout
      upTo(r) == 1 .. Smaller(r * con.fanout, Len(b))
      round(r) == upTo(r) \ upTo(r - 1)
      core(r) ==
        CASE con.type = "UC" ->
               Larger(MaxOver(LAMBDA i : b[i].in, upTo(r)),
                      MaxOver(LAMBDA i : b[i].out, upTo(r)))
                 * (repeat - (r - 1) * con.fanout)
                 + MaxOver(LAMBDA i : b[i].proc, upTo(r))
          [] con.type = "BC" ->
               MaxOver(LAMBDA i : b[i].in + b[i].out + b[i].proc, round(r))
          [] OTHER -> 0
  IN  SumOver(core, 1 .. repeat)

\* computeLatency of tile n for what its children took in each iteration.
computeLatency(n, latency_vec_) ==
  LET blocks == [i \in DOMAIN latency_vec_ |->
                   computeScopeLatency(n, latency_vec_[i])]
  IN  IF Tree[n].type = "Temporal" THEN TemporalLatency(blocks)
      ELSE SpatialLatency(blocks, getInterConNode(n, 1))

\* How computeLatency ends: every child that has a latency needs a
\* connection, looked up in order, and the fanout of a spatial tile divides.
LatencyOutcome(n, latency_vec_) ==
  LET indices == UNION {DOMAIN latency_vec_[k] : k \in DOMAIN latency_vec_}
      bad == {i \in {1} \cup indices : Reaches(n, i) # "found"}
  IN  IF latency_vec_ = <<>> THEN Abort
      ELSE IF 1 \in bad THEN Reaches(n, 1)
      ELSE IF Tree[n].type = "Spatial" /\ getInterConNode(n, 1).fanout = 0
      THEN Undefined
      ELSE IF bad # {} THEN Reaches(n, Min(bad)) ELSE "computed"
=============================================================================
