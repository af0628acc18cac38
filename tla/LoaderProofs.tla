---------------------------- MODULE LoaderProofs ----------------------------
(***************************************************************************)
(* What the parsers of the architecture and of the problem leave behind,   *)
(* and what the parser of the mapping builds, for every input: proofs      *)
(* about Loader, whose steps are theirs.                                   *)
(***************************************************************************)
EXTENDS Loader, Induction

-----------------------------------------------------------------------------
(* Lists.                                                                   *)

\* A list is a sequence: it has a length, and its positions are numbered from 1.
LEMMA ListIs ==
  ASSUME NEW s, IsList(s)
  PROVE  /\ Len(s) \in Nat
         /\ DOMAIN s = 1 .. Len(s)
         /\ \A i \in DOMAIN s : s[i] \in ToSet(s)
  BY DEF IsList

\* A list with one more element is a list.
LEMMA AppendList ==
  ASSUME NEW s, IsList(s), NEW e
  PROVE  /\ IsList(Append(s, e))
         /\ ToSet(Append(s, e)) = ToSet(s) \cup {e}
<1> DEFINE S == ToSet(s) \cup {e}
<1>1. s \in Seq(S)
  <2>1. s \in Seq(ToSet(s))
    BY DEF IsList
  <2> HIDE DEF S
  <2>2. ToSet(s) \subseteq S
    BY DEF S
  <2> QED  BY <2>1, <2>2
<1>2. /\ Append(s, e) \in Seq(S)
      /\ Len(Append(s, e)) = Len(s) + 1
      /\ Append(s, e)[Len(s) + 1] = e
      /\ \A i \in 1 .. Len(s) : Append(s, e)[i] = s[i]
      /\ Len(s) \in Nat
      /\ DOMAIN s = 1 .. Len(s)
  <2> HIDE DEF S
  <2> e \in S
    BY DEF S
  <2> QED  BY <1>1
<1>3. DOMAIN Append(s, e) = 1 .. Len(s) + 1
  <2> HIDE DEF S
  <2> QED  BY <1>2
<1>4. ToSet(Append(s, e)) = S
  BY <1>2, <1>3 DEF ToSet
<1> QED  BY <1>2, <1>4 DEF IsList

-----------------------------------------------------------------------------
(* The architecture.                                                        *)

\* How many levels have been read.
LevelsRead == IF stage = "levels" THEN next - 1 ELSE Len(config.levels)

\* The level of an entry has what the entry says.
AsDeclared(l, topo) ==
  /\ l.name \in DOMAIN topo
  /\ topo[l.name].level_num \in LookupUnset(l, "level_num")
  /\ topo[l.name].level_type = LevelType[l.level_name]
  /\ \A k \in Attribute : topo[l.name][k] = lookupValue(l.attributes, k, 0)

Reading == config \in Configs /\ next \in Nat \ {0}

\* While the levels are read next is at most one past their end.
LevelsControl == stage = "levels" => next <= Len(config.levels) + 1

\* A level that no later entry read so far repeats is as declared.
LastDeclared ==
  stage \notin {Abort, Undefined} =>
    \A i \in 1 .. LevelsRead :
      (\A j \in i + 1 .. LevelsRead : config.levels[j].name # config.levels[i].name)
        => AsDeclared(config.levels[i], archTopo_map_)

InstancesCounted == \A l \in DOMAIN archTopo_map_ : archTopo_map_[l].level_num \in Nat

TargetsListed == \A s \in DOMAIN intercon_map_ : IsList(intercon_map_[s])

\* The inductive invariant of the architecture's sections.
ArchInv == /\ Reading
           /\ LevelsControl
           /\ LastDeclared
           /\ InstancesCounted
           /\ TargetsListed
           /\ ConnectionsPrintable

\* Of two levels with instances one has as many as the other at least once.
LEMMA FansPositive ==
  ASSUME NEW target \in Nat, NEW source \in Nat, FansDefined(target, source)
  PROVE  Fans(target, source).fanout > 0 \/ Fans(target, source).fanin > 0
<1>1. \A a, b \in Nat : a > b /\ b # 0 => a \div b > 0
  OBVIOUS
<1> QED  BY <1>1 DEF Fans, FansDefined

\* What is read into levelAttri_ for an entry.
LEMMA AttributesAre ==
  ASSUME NEW l, DOMAIN l.attributes \subseteq Attribute, NEW num
  PROVE  /\ SetAttributes(l, num).level_num = num
         /\ SetAttributes(l, num).level_type = LevelType[l.level_name]
         /\ \A k \in Attribute : SetAttributes(l, num)[k] = lookupValue(l.attributes, k, 0)
<1> DEFINE type == LevelType[l.level_name]
           named == [level_type |-> type, level_num |-> num]
<1>1. /\ DOMAIN named = {"level_type", "level_num"}
      /\ named["level_type"] = type
      /\ named["level_num"] = num
  OBVIOUS
<1>2. /\ "level_type" \notin Attribute
      /\ "level_num" \notin Attribute
  BY DEF Attribute
<1>3. \A k \in Attribute : k \in DOMAIN Cleared /\ Cleared[k] = 0
  BY <1>2 DEF Cleared, Over
<1> HIDE DEF type, named
<1>4. /\ DOMAIN Over(named, Cleared) = DOMAIN named \cup DOMAIN Cleared
      /\ Over(named, Cleared)["level_type"] = type
      /\ Over(named, Cleared)["level_num"] = num
      /\ \A k \in Attribute : Over(named, Cleared)[k] = 0
  BY <1>1, <1>2, <1>3 DEF Over
<1>5. SetAttributes(l, num) = Over(l.attributes, Over(named, Cleared))
  BY DEF SetAttributes, clear, named, type
<1>6. /\ SetAttributes(l, num)["level_type"] = type
      /\ SetAttributes(l, num)["level_num"] = num
  BY <1>1, <1>2, <1>4, <1>5 DEF Over
<1>7. \A k \in Attribute : SetAttributes(l, num)[k] = lookupValue(l.attributes, k, 0)
  BY <1>1, <1>2, <1>3, <1>4, <1>5 DEF Over, lookupValue, exists
<1> QED  BY <1>6, <1>7 DEF type

\* A step of the later sections leaves the earlier stages behind.
LEMMA ProblemStages ==
  ASSUME ProblemNext, next \in Nat \ {0}
  PROVE  /\ stage \in {"dimensions", "ops", "instance"}
         /\ stage' \in {"ops", "instance", "mapping", Abort}
         /\ next' \in Nat \ {0}
         /\ stage' \in {"ops", "instance"} => stage \in {"dimensions", stage', "ops"}
<1> USE DEF Exit, Advance, Turn
<1>1. CASE NewTensor
  BY <1>1 DEF NewTensor, InTensors, InOps
<1>2. CASE EndWorkload
  BY <1>2 DEF EndWorkload, InOps
<1>3. CASE KnownTensor
  BY <1>3 DEF KnownTensor, InTensors, InOps
<1>4. CASE set_dims \/ RefuseProblem
  BY <1>4 DEF set_dims, RefuseProblem
<1>5. CASE ParseBound \/ EndProblem
  BY <1>5 DEF ParseBound, EndProblem, Abort
<1>6. CASE BeginWorkload \/ RefuseWorkload
  BY <1>6 DEF BeginWorkload, RefuseWorkload, InOps
<1>7. CASE EndOps \/ RefuseInstance
  BY <1>7 DEF EndOps, RefuseInstance, exists
<1> QED  BY <1>1, <1>2, <1>3, <1>4, <1>5, <1>6, <1>7 DEF ProblemNext

\* A step of the parser of the mapping stays in its section or ends it.
LEMMA MappingStages ==
  ASSUME MappingNext, next \in Nat \ {0}
  PROVE  /\ stage = "mapping"
         /\ stage' \in {"mapping", "loaded", Abort}
         /\ next' \in Nat \ {0}
<1> USE DEF InMapping, Exit, Turn
<1>1. CASE BeginNode \/ LooplessNode \/ RefuseNode \/ ParseEnd
  BY <1>1 DEF BeginNode, LooplessNode, RefuseNode, ParseEnd
<1>2. CASE ParseResidual \/ RefuseResidual
  BY <1>2 DEF ParseResidual, RefuseResidual, Bound
<1>3. CASE FinishNode
  BY <1>3 DEF FinishNode
<1>4. CASE ParseChild \/ Return
  BY <1>4 DEF ParseChild, Return
<1> QED  BY <1>1, <1>2, <1>3, <1>4 DEF MappingNext

\* Where the architecture is left alone its invariant stays.
LEMMA ArchFrame ==
  ASSUME ArchInv, UNCHANGED <<config, archVars>>, next' \in Nat \ {0},
         \/ UNCHANGED <<stage, next>>
         \/ stage' # "levels" /\ stage # "levels"
         \/ stage' \in {Abort, Undefined}
         \/ stage = "levels" /\ ~MoreOf(config.levels) /\ stage' = "connections",
         stage \in {Abort, Undefined} => stage' = stage
  PROVE  ArchInv'
<1> USE DEF ArchInv, archVars
<1> IsList(config.levels)
  BY LevelsAssumption DEF Reading
<1>1. Len(config.levels) \in Nat
  BY ListIs
<1>2. Reading' /\ LevelsControl'
  BY <1>1 DEF Reading, LevelsControl, Abort, Undefined
<1>3. InstancesCounted' /\ TargetsListed' /\ ConnectionsPrintable'
  BY DEF InstancesCounted, TargetsListed, ConnectionsPrintable
<1>4. LastDeclared'
  <2> SUFFICES ASSUME stage' \notin {Abort, Undefined}
               PROVE  LastDeclared'
    BY DEF LastDeclared
  <2>1. stage \notin {Abort, Undefined}
    OBVIOUS
  <2>2. LevelsRead' = LevelsRead
    BY <1>1 DEF LevelsRead, Abort, Undefined, LevelsControl, MoreOf, Reading
  <2> QED  BY <2>1, <2>2 DEF LastDeclared, AsDeclared
<1> QED  BY <1>2, <1>3, <1>4

\* A level is read.
LEMMA LevelStep ==
  ASSUME ArchInv, ParseLevel, UNCHANGED config
  PROVE  ArchInv'
<1> DEFINE l == config.levels[next]
<1> USE DEF ArchInv
<1>1. /\ IsList(config.levels)
      /\ Len(config.levels) \in Nat
      /\ DOMAIN config.levels = 1 .. Len(config.levels)
  BY LevelsAssumption, ListIs DEF Reading
<1>2. next \in DOMAIN config.levels
  BY <1>1 DEF ParseLevel, MoreOf, Reading
<1>3. /\ exists(l, "level_num") => l.level_num \in Nat
      /\ DOMAIN l.attributes \subseteq Attribute
  BY <1>2, LevelsAssumption DEF Reading
<1>4. PICK num \in LookupUnset(l, "level_num") :
        /\ levelAttri_' = SetAttributes(l, num)
        /\ archTopo_map_' = Put(archTopo_map_, l.name, levelAttri_')
  BY DEF ParseLevel, Entry
<1>5. /\ stage = "levels" /\ stage' = "levels"
      /\ next' = next + 1
      /\ UNCHANGED <<intercon_map_, intercon_attri_map_>>
  BY DEF ParseLevel, Advance
<1>6. num \in Nat
  BY <1>3, UnsetAssumption DEF LookupUnset
<1>7. /\ SetAttributes(l, num).level_num = num
      /\ SetAttributes(l, num).level_type = LevelType[l.level_name]
      /\ \A k \in Attribute : SetAttributes(l, num)[k] = lookupValue(l.attributes, k, 0)
  <2> HIDE DEF l
  <2> QED  BY <1>3, AttributesAre
<1>8. /\ DOMAIN archTopo_map_' = DOMAIN archTopo_map_ \cup {l.name}
      /\ archTopo_map_'[l.name] = SetAttributes(l, num)
      /\ \A k \in DOMAIN archTopo_map_ : k # l.name => archTopo_map_'[k] = archTopo_map_[k]
  BY <1>4 DEF Put
<1>9. Reading' /\ LevelsControl'
  BY <1>1, <1>2, <1>5 DEF Reading, LevelsControl
<1>10. InstancesCounted' /\ TargetsListed' /\ ConnectionsPrintable'
  BY <1>5, <1>6, <1>7, <1>8 DEF InstancesCounted, TargetsListed, ConnectionsPrintable
<1>11. LastDeclared'
  <2>1. LevelsRead = next - 1 /\ LevelsRead' = next
    BY <1>5 DEF LevelsRead, Reading
  <2>2. \A i \in 1 .. next - 1 :
          (\A j \in i + 1 .. next - 1 : config.levels[j].name # config.levels[i].name)
            => AsDeclared(config.levels[i], archTopo_map_)
    BY <1>5, <2>1 DEF LastDeclared, Abort, Undefined
  <2>3. AsDeclared(l, archTopo_map_')
    BY <1>4, <1>7, <1>8 DEF AsDeclared, LookupUnset, lookupValue, exists
  <2> SUFFICES ASSUME NEW i \in 1 .. next,
                      \A j \in i + 1 .. next : config.levels[j].name # config.levels[i].name
               PROVE  AsDeclared(config.levels[i], archTopo_map_')
    BY <2>1 DEF LastDeclared
  <2>4. CASE i = next
    BY <2>3, <2>4
  <2>5. CASE i # next
    <3>1. i \in 1 .. next - 1 /\ next \in i + 1 .. next
      BY <2>5 DEF Reading
    <3>2. AsDeclared(config.levels[i], archTopo_map_) /\ l.name # config.levels[i].name
      <4>1. \A j \in i + 1 .. next - 1 : j \in i + 1 .. next
        BY DEF Reading
      <4> QED  BY <2>2, <3>1, <4>1
    <3> QED  BY <1>8, <3>2 DEF AsDeclared, LookupUnset, lookupValue, exists
  <2> QED  BY <2>4, <2>5
<1> QED  BY <1>9, <1>10, <1>11

\* A connection is read.
LEMMA ConnectionStep ==
  ASSUME ArchInv, ParseConnection, UNCHANGED config
  PROVE  ArchInv'
<1> DEFINE c == config.connections[next]
           target == TargetOf(c.target, c.type)
           targets == IF c.source \in DOMAIN intercon_map_
                      THEN intercon_map_[c.source] ELSE <<>>
           node(b) == InterConNode(c.type, b, FanOf(c, c.target), FanOf(c, c.source))
<1> USE DEF ArchInv
<1>1. /\ stage = "connections" /\ stage' = "connections"
      /\ next' = next + 1
      /\ c.type \in ConType
      /\ ConnectionDefined(c)
      /\ archTopo_map_' = (IF IsInner(c) THEN archTopo_map_ ELSE LookedUp(c))
      /\ intercon_map_' = Put(intercon_map_, c.source, Append(targets, target))
  BY DEF ParseConnection, Advance, Entry
<1>2. PICK b : intercon_attri_map_' = Put(intercon_attri_map_, <<c.source, target>>, node(b))
  BY DEF ParseConnection, Entry
<1>3. \A level \in {c.source, c.target} :
        level \in DOMAIN LookedUp(c) /\ LookedUp(c)[level].level_num \in Nat
  <2>1. ZeroInitialised.level_num = 0
    BY DEF ZeroInitialised, Cleared, Over
  <2> QED  BY <2>1 DEF LookedUp, Over, InstancesCounted
<1>4. /\ \A l \in DOMAIN archTopo_map_ : /\ l \in DOMAIN archTopo_map_'
                                         /\ archTopo_map_'[l] = archTopo_map_[l]
      /\ InstancesCounted'
  <2>1. CASE IsInner(c)
    BY <1>1, <2>1 DEF InstancesCounted
  <2>2. CASE ~IsInner(c)
    <3>1. DOMAIN LookedUp(c) = DOMAIN archTopo_map_ \cup {c.source, c.target}
      BY DEF LookedUp, Over
    <3>2. \A l \in DOMAIN archTopo_map_ : LookedUp(c)[l] = archTopo_map_[l]
      BY DEF LookedUp, Over
    <3> QED  BY <1>1, <1>3, <2>2, <3>1, <3>2 DEF InstancesCounted
  <2> QED  BY <2>1, <2>2
<1>5. node(b).fanout > 0 \/ node(b).fanin > 0
  <2>1. FanOf(c, c.target) \in Nat /\ FanOf(c, c.source) \in Nat
    BY <1>3 DEF FanOf
  <2>2. FansDefined(FanOf(c, c.target), FanOf(c, c.source))
    BY <1>1 DEF ConnectionDefined
  <2> QED  BY <2>1, <2>2, FansPositive DEF InterConNode
<1>6. IsList(targets)
  <2>1. IsList(<<>>)
    BY DEF IsList
  <2> QED  BY <2>1 DEF TargetsListed
<1>7. /\ IsList(Append(targets, target))
      /\ ToSet(Append(targets, target)) = ToSet(targets) \cup {target}
  <2> HIDE DEF targets, target
  <2> QED  BY <1>6, AppendList
<1> DEFINE list == Append(targets, target)
<1>8. /\ DOMAIN intercon_map_' = DOMAIN intercon_map_ \cup {c.source}
      /\ intercon_map_'[c.source] = list
      /\ \A s \in DOMAIN intercon_map_ : s # c.source => intercon_map_'[s] = intercon_map_[s]
  BY <1>1 DEF Put
<1>9. /\ DOMAIN intercon_attri_map_' = DOMAIN intercon_attri_map_ \cup {<<c.source, target>>}
      /\ intercon_attri_map_'[<<c.source, target>>] = node(b)
      /\ \A p \in DOMAIN intercon_attri_map_ :
           p # <<c.source, target>> => intercon_attri_map_'[p] = intercon_attri_map_[p]
  BY <1>2 DEF Put
<1>10. TargetsListed'
  <2> HIDE DEF list
  <2>1. IsList(list)
    BY <1>7 DEF list
  <2> QED  BY <1>8, <2>1 DEF TargetsListed
<1>11. ConnectionsPrintable'
  <2> HIDE DEF list, target, node
  <2> SUFFICES ASSUME NEW s \in DOMAIN intercon_map_', NEW t \in ToSet(intercon_map_'[s])
               PROVE  /\ <<s, t>> \in DOMAIN intercon_attri_map_'
                      /\ \/ intercon_attri_map_'[<<s, t>>].fanout > 0
                         \/ intercon_attri_map_'[<<s, t>>].fanin > 0
    BY DEF ConnectionsPrintable
  <2>1. CASE s = c.source /\ t = target
    BY <1>5, <1>9, <2>1
  <2>2. CASE ~(s = c.source /\ t = target)
    <3>1. s \in DOMAIN intercon_map_ /\ t \in ToSet(intercon_map_[s])
      <4>1. CASE s = c.source
        <5>1. t \in ToSet(targets)
          BY <1>7, <1>8, <2>2, <4>1 DEF list
        <5>2. ToSet(<<>>) = {}
          BY DEF ToSet
        <5> QED  BY <4>1, <5>1, <5>2
      <4>2. CASE s # c.source
        BY <1>8, <4>2
      <4> QED  BY <4>1, <4>2
    <3>2. <<s, t>> # <<c.source, target>>
      BY <2>2
    <3> QED  BY <1>9, <3>1, <3>2 DEF ConnectionsPrintable
  <2> QED  BY <2>1, <2>2
<1>12. Reading' /\ LevelsControl'
  BY <1>1 DEF Reading, LevelsControl
<1>13. LastDeclared'
  <2>1. LevelsRead' = LevelsRead
    BY <1>1 DEF LevelsRead
  <2> QED  BY <1>1, <1>4, <2>1 DEF LastDeclared, AsDeclared, Abort, Undefined
<1> QED  BY <1>4, <1>10, <1>11, <1>12, <1>13

\* The invariant holds before the first entry is read.
LEMMA ArchInitially ==
  ASSUME Init
  PROVE  ArchInv
<1> IsList(config.levels) /\ Len(config.levels) \in Nat
  BY LevelsAssumption, ListIs DEF Init
<1>1. LevelsRead = 0
  BY DEF Init, LevelsRead
<1>2. LastDeclared
  BY <1>1 DEF LastDeclared
<1>3. Reading /\ LevelsControl
  BY DEF Init, Reading, LevelsControl
<1>4. InstancesCounted /\ TargetsListed /\ ConnectionsPrintable
  BY DEF Init, ArchInit, InstancesCounted, TargetsListed, ConnectionsPrintable
<1> QED  BY <1>2, <1>3, <1>4 DEF ArchInv

\* Every step of the loader keeps it.
LEMMA ArchStep ==
  ASSUME ArchInv, [Next]_vars
  PROVE  ArchInv'
<1> next \in Nat \ {0}
  BY DEF ArchInv, Reading
<1>1. CASE ParseArchitecture
  <2> UNCHANGED config
    BY <1>1 DEF ParseArchitecture
  <2>1. CASE ParseLevel
    BY <2>1, LevelStep
  <2>2. CASE ParseConnection
    BY <2>2, ConnectionStep
  <2>3. CASE UnknownLevelType \/ EndLevels \/ RefuseConnection \/ EndConnections
    <3>1. /\ UNCHANGED <<config, archVars>>
          /\ next' \in Nat \ {0}
          /\ stage \notin {Abort, Undefined}
          /\ \/ stage' # "levels" /\ stage # "levels"
             \/ stage' \in {Abort, Undefined}
             \/ stage = "levels" /\ ~MoreOf(config.levels) /\ stage' = "connections"
      BY <2>3 DEF UnknownLevelType, EndLevels, RefuseConnection, EndConnections, Exit, Turn,
                  Abort, Undefined
    <3> QED  BY <3>1, ArchFrame
  <2> QED  BY <1>1, <2>1, <2>2, <2>3 DEF ParseArchitecture, ArchNext
<1>2. CASE ParseWorkloads
  <2>1. UNCHANGED <<config, archVars>> /\ ProblemNext
    BY <1>2 DEF ParseWorkloads
  <2>2. stage' # "levels" /\ stage # "levels" /\ stage \notin {Abort, Undefined}
        /\ next' \in Nat \ {0}
    BY <2>1, ProblemStages DEF Abort, Undefined
  <2> QED  BY <2>1, <2>2, ArchFrame
<1>3. CASE ParseMapping
  <2>1. UNCHANGED <<config, archVars>> /\ MappingNext
    BY <1>3 DEF ParseMapping
  <2>2. stage' # "levels" /\ stage # "levels" /\ stage \notin {Abort, Undefined}
        /\ next' \in Nat \ {0}
    BY <2>1, MappingStages DEF Abort, Undefined
  <2> QED  BY <2>1, <2>2, ArchFrame
<1>4. CASE UNCHANGED vars
  BY <1>4, ArchFrame DEF vars
<1> QED  BY <1>1, <1>2, <1>3, <1>4 DEF Next, Parse, Stop

\* ArchInv holds throughout.
LEMMA ArchInvariant == Spec => []ArchInv
<1>1. Init => ArchInv
  BY ArchInitially
<1>2. ArchInv /\ [Next]_vars => ArchInv'
  BY ArchStep
<1> QED  BY <1>1, <1>2, PTL DEF Spec

\* No sequence of declarations leaves a connection without fan-out and fan-in
\* (interconnection.cpp 47), whatever the levels and however many.
THEOREM ConnectionsHaveFans == Spec => []ConnectionsPrintable
<1>1. ArchInv => ConnectionsPrintable
  BY DEF ArchInv
<1> QED  BY <1>1, ArchInvariant, PTL

\* ParseArchTopology carries nothing over from one level to the next, and the
\* connections that look levels up leave them as they are, for every input.
THEOREM LevelsKept == Spec => []LevelsAsDeclared
<1>1. ArchInv => LevelsAsDeclared
  <2> SUFFICES ASSUME ArchInv, stage \notin {"levels", Abort, Undefined},
                      NEW i \in DOMAIN config.levels,
                      ~\E j \in i + 1 .. Len(config.levels) :
                         config.levels[j].name = config.levels[i].name
               PROVE  AsDeclared(config.levels[i], archTopo_map_)
    BY DEF LevelsAsDeclared, AsDeclared
  <2>1. DOMAIN config.levels = 1 .. Len(config.levels)
    BY LevelsAssumption, ListIs DEF ArchInv, Reading
  <2> QED  BY <2>1 DEF ArchInv, LastDeclared, LevelsRead
<1> QED  BY <1>1, ArchInvariant, PTL

-----------------------------------------------------------------------------
(* The problem.                                                             *)

InProblem == {"ops", "instance", "mapping", "loaded"}

WorkloadsRead == IF stage = "ops" THEN next - 1 ELSE Len(Ops)

WorkloadOf(i) == [ins |-> Ops[i].ins, out |-> Ops[i].outs[1], entry |-> i]

\* The operations that have been read are stored.
WorkloadsStored ==
  stage \in InProblem =>
    \A i \in 1 .. WorkloadsRead : /\ Ops[i].name \in DOMAIN workloads_
                                  /\ workloads_[Ops[i].name] = WorkloadOf(i)

\* The name of the operation whose tensors are read is still new: what its
\* BeginWorkload has found does not change before its EndWorkload.
WorkloadNew ==
  stage = "ops" => /\ tensor \in Nat
                   /\ next <= Len(Ops) + 1
                   /\ tensor # 0 => next <= Len(Ops) /\ Op.name \notin DOMAIN workloads_

Dims == config.problem.dimensions

\* The dimensions of the problem are numbered by their positions.
DimsNumbered ==
  stage \in InProblem =>
    /\ exists(config.problem, "dimensions")
    /\ FactorizedDimensionNameToID = [d \in ToSet(Dims) |-> IdIn(Dims, d)]
    /\ FactorizedDimensionIDToName = [i \in 0 .. Len(Dims) - 1 |-> Dims[i + 1]]

BoundsRead == IF stage = "instance" THEN next - 1 ELSE Len(Dims)

\* The dimensions that have been read have their bounds.
BoundsSet ==
  stage \in {"instance", "mapping", "loaded"} =>
    \A i \in 1 .. BoundsRead :
      /\ IdIn(Dims, Dims[i]) \in DOMAIN factorized_bounds_
      /\ factorized_bounds_[IdIn(Dims, Dims[i])] = BoundOf(Dims[i])

BoundsControl == stage = "instance" => next <= Len(Dims) + 1

\* main makes the common shape the current one before the mapping is read.
ShapeIsCommon == stage \in {"mapping", "loaded"} => current_shape_ = CommonShape

\* What BeginWorkload has found about the dimensions of its operation.
OpChecked ==
  stage = "ops" /\ tensor # 0 =>
    ParseWorkload(Op) /\ ToSet(Op.dimensions) \subseteq ToSet(Dims)

\* The inductive invariant of the sections of the problem.
ProblemInv == /\ Reading
              /\ tensor = 0 \/ stage \notin {"levels", "connections", "dimensions"}
              /\ WorkloadsStored
              /\ WorkloadNew
              /\ OpChecked
              /\ DimsNumbered
              /\ BoundsSet
              /\ BoundsControl
              /\ ShapeIsCommon

\* The id of a name is a position where the name stands.
LEMMA IdIsPosition ==
  ASSUME NEW list, IsList(list), NEW name \in ToSet(list)
  PROVE  /\ IdIn(list, name) \in 0 .. Len(list) - 1
         /\ list[IdIn(list, name) + 1] = name
<1> DEFINE P == Positions(list, name)
<1>1. /\ P \in SUBSET Nat
      /\ Len(list) \in Nat
      /\ \A k \in P : k <= Len(list)
  BY ListIs DEF Positions
<1>2. P # {}
  <2>1. PICK i \in DOMAIN list : list[i] = name
    BY DEF ToSet
  <2>2. i - 1 \in P
    BY <2>1, ListIs DEF Positions
  <2> QED  BY <2>2
<1>3. \E m \in P : \A k \in P : k <= m
  <2> HIDE DEF P
  <2> QED  BY <1>1, <1>2, GreatestNatural
<1>4. IdIn(list, name) \in P
  BY <1>3 DEF IdIn
<1> QED  BY <1>4 DEF Positions

\* The ids of different names differ.
LEMMA IdsDiffer ==
  ASSUME NEW list, IsList(list), NEW a \in ToSet(list), NEW b \in ToSet(list),
         IdIn(list, a) = IdIn(list, b)
  PROVE  a = b
  BY IdIsPosition

\* The lists of the problem.
LEMMA ProblemLists ==
  ASSUME Reading
  PROVE  /\ IsList(Ops) /\ Len(Ops) \in Nat /\ DOMAIN Ops = 1 .. Len(Ops)
         /\ \A i \in DOMAIN Ops : IsList(Ops[i].spaces) /\ Len(Ops[i].spaces) \in Nat
         /\ exists(config.problem, "dimensions")
              => IsList(Dims) /\ Len(Dims) \in Nat /\ DOMAIN Dims = 1 .. Len(Dims)
<1>1. /\ IsList(Ops)
      /\ \A i \in DOMAIN Ops : IsList(Ops[i].spaces)
      /\ exists(config.problem, "dimensions") => IsList(Dims)
  BY ProblemAssumption DEF Reading, Ops, Dims
<1> QED  BY <1>1, ListIs

\* An operation is stored; the ones before it stay as they are.
LEMMA WorkloadStep ==
  ASSUME ProblemInv, EndWorkload, UNCHANGED config
  PROVE  ProblemInv'
<1> DEFINE new == [ins |-> Op.ins, out |-> Op.outs[1], entry |-> next]
<1>1. /\ stage = "ops" /\ stage' = "ops"
      /\ next' = next + 1 /\ next <= Len(Ops)
      /\ tensor > Len(Op.spaces) /\ tensor' = 0
      /\ workloads_' = Put(workloads_, Op.name, new)
      /\ UNCHANGED <<dimVars, current_shape_, factorized_bounds_>>
  BY DEF EndWorkload, InOps, MoreOf, Advance, StoreWorkload
<1>2. /\ Len(Ops) \in Nat /\ next \in DOMAIN Ops /\ next \in Nat \ {0}
      /\ Len(Op.spaces) \in Nat
      /\ Ops' = Ops
  BY <1>1, ProblemLists DEF ProblemInv, Reading, Op, Entry, Ops
<1>3. tensor # 0 /\ Op.name \notin DOMAIN workloads_
  BY <1>1, <1>2 DEF ProblemInv, WorkloadNew
<1>4. /\ DOMAIN workloads_' = DOMAIN workloads_ \cup {Op.name}
      /\ workloads_'[Op.name] = new
      /\ \A n \in DOMAIN workloads_ : n # Op.name => workloads_'[n] = workloads_[n]
  BY <1>1 DEF Put
<1>5. WorkloadsStored'
  <2>1. WorkloadsRead = next - 1 /\ WorkloadsRead' = next
    BY <1>1, <1>2 DEF WorkloadsRead
  <2>2. \A i \in 1 .. next - 1 : /\ Ops[i].name \in DOMAIN workloads_
                                 /\ workloads_[Ops[i].name] = WorkloadOf(i)
    BY <1>1, <2>1 DEF ProblemInv, WorkloadsStored, InProblem
  <2> SUFFICES ASSUME NEW i \in 1 .. next
               PROVE  /\ Ops[i].name \in DOMAIN workloads_'
                      /\ workloads_'[Ops[i].name] = WorkloadOf(i)
    BY <1>2, <2>1 DEF WorkloadsStored, WorkloadOf
  <2>3. CASE i = next
    BY <1>4, <2>3 DEF WorkloadOf, Op, Entry
  <2>4. CASE i # next
    <3>1. i \in 1 .. next - 1
      BY <1>2, <2>4
    <3> HIDE DEF new
    <3> QED  BY <1>3, <1>4, <2>2, <3>1
  <2> QED  BY <2>3, <2>4
<1>6. WorkloadNew'
  BY <1>1, <1>2 DEF WorkloadNew
<1>7. DimsNumbered'
  BY <1>1 DEF ProblemInv, DimsNumbered, InProblem, dimVars, Dims
<1> QED  BY <1>1, <1>2, <1>5, <1>6, <1>7
         DEF ProblemInv, Reading, BoundsSet, BoundsControl, ShapeIsCommon, OpChecked

\* A dimension gets its bound; the ones before it keep theirs.
LEMMA BoundStep ==
  ASSUME ProblemInv, ParseBound, UNCHANGED config, BoundDefined(Dims[next])
  PROVE  ProblemInv'
<1> DEFINE d == Dims[next]
           id(n) == IdIn(Dims, n)
<1>1. /\ stage = "instance" /\ stage' = "instance"
      /\ next' = next + 1 /\ next <= Len(Dims)
      /\ factorized_bounds_' =
           Put(factorized_bounds_, FactorizedDimensionNameToID[d], BoundOf(d))
      /\ UNCHANGED <<dimVars, current_shape_, workloads_, tensor>>
  BY DEF ParseBound, MoreOf, Advance, Entry, Dims
<1>2. /\ IsList(Dims) /\ Len(Dims) \in Nat /\ DOMAIN Dims = 1 .. Len(Dims)
      /\ FactorizedDimensionNameToID = [n \in ToSet(Dims) |-> id(n)]
      /\ next \in Nat \ {0}
      /\ Dims' = Dims
  BY <1>1, ProblemLists DEF ProblemInv, Reading, DimsNumbered, InProblem, Dims
<1>3. \A i \in 1 .. next : i \in DOMAIN Dims /\ Dims[i] \in ToSet(Dims)
  BY <1>1, <1>2 DEF ToSet
<1>4. d \in ToSet(Dims) /\ FactorizedDimensionNameToID[d] = id(d)
  BY <1>2, <1>3
<1>5. /\ DOMAIN factorized_bounds_' = DOMAIN factorized_bounds_ \cup {id(d)}
      /\ factorized_bounds_'[id(d)] = BoundOf(d)
      /\ \A n \in DOMAIN factorized_bounds_ :
           n # id(d) => factorized_bounds_'[n] = factorized_bounds_[n]
  BY <1>1, <1>4 DEF Put
<1>6. \A n : BoundOf(n)' = BoundOf(n)
  BY DEF BoundOf, Instance, IsMacro
<1>7. BoundsSet'
  <2>1. BoundsRead = next - 1 /\ BoundsRead' = next
    BY <1>1, <1>2 DEF BoundsRead
  <2>2. \A i \in 1 .. next - 1 : /\ id(Dims[i]) \in DOMAIN factorized_bounds_
                                 /\ factorized_bounds_[id(Dims[i])] = BoundOf(Dims[i])
    BY <1>1, <2>1 DEF ProblemInv, BoundsSet
  <2> SUFFICES ASSUME NEW i \in 1 .. next
               PROVE  /\ id(Dims[i]) \in DOMAIN factorized_bounds_'
                      /\ factorized_bounds_'[id(Dims[i])] = BoundOf(Dims[i])
    BY <1>2, <1>6, <2>1 DEF BoundsSet
  <2>3. CASE id(Dims[i]) = id(d)
    <3>1. Dims[i] = d
      <4>1. Dims[i] \in ToSet(Dims)
        BY <1>3
      <4> QED  BY <1>2, <1>4, <2>3, <4>1, IdsDiffer
    <3> QED  BY <1>5, <3>1
  <2>4. CASE id(Dims[i]) # id(d)
    <3>1. i \in 1 .. next - 1
      BY <1>2, <2>4
    <3> QED  BY <1>5, <2>2, <2>4, <3>1
  <2> QED  BY <2>3, <2>4
<1>8. BoundsControl'
  BY <1>1, <1>2 DEF BoundsControl
<1>9. WorkloadsStored' /\ WorkloadNew' /\ ShapeIsCommon'
  BY <1>1 DEF ProblemInv, WorkloadsStored, WorkloadNew, ShapeIsCommon, WorkloadsRead,
              WorkloadOf, Ops
<1>10. DimsNumbered'
  BY <1>1 DEF ProblemInv, DimsNumbered, InProblem, dimVars, Dims
<1> QED  BY <1>1, <1>2, <1>7, <1>8, <1>9, <1>10 DEF ProblemInv, Reading, OpChecked

\* The dimensions are numbered, and the operations begin.
LEMMA DimsStep ==
  ASSUME ProblemInv, set_dims, UNCHANGED config
  PROVE  ProblemInv'
<1>1. /\ stage = "dimensions" /\ stage' = "ops" /\ next' = 1
      /\ tensor = 0 /\ tensor' = 0
      /\ exists(config.problem, "dimensions")
      /\ FactorizedDimensionNameToID' = [d \in ToSet(Dims) |-> IdIn(Dims, d)]
      /\ FactorizedDimensionIDToName' = [i \in 0 .. Len(Dims) - 1 |-> Dims[i + 1]]
  BY DEF ProblemInv, set_dims, Turn, exists, Dims
<1>2. WorkloadsStored'
  <2>1. WorkloadsRead' = 0
    BY <1>1 DEF WorkloadsRead
  <2> QED  BY <2>1 DEF WorkloadsStored
<1>3. WorkloadNew'
  <2>1. Len(Ops) \in Nat /\ Ops' = Ops
    BY ProblemLists DEF ProblemInv, Ops
  <2> QED  BY <1>1, <2>1 DEF WorkloadNew
<1>4. DimsNumbered'
  BY <1>1 DEF DimsNumbered, Dims
<1> QED  BY <1>1, <1>2, <1>3, <1>4
         DEF ProblemInv, Reading, BoundsSet, BoundsControl, ShapeIsCommon, OpChecked

\* Within an operation only its tensors are counted.
LEMMA TensorStep ==
  ASSUME ProblemInv, UNCHANGED <<config, stage, next, dimVars, current_shape_, workloads_,
                                 factorized_bounds_>>,
         stage = "ops", tensor' \in Nat,
         tensor' # 0 => tensor # 0
  PROVE  ProblemInv'
<1>1. WorkloadsStored' /\ WorkloadNew'
  BY DEF ProblemInv, WorkloadsStored, WorkloadsRead, WorkloadOf, WorkloadNew, Ops, Op, Entry
<1>2. DimsNumbered'
  BY DEF ProblemInv, DimsNumbered, dimVars, Dims
<1>3. OpChecked'
  <2>1. Op' = Op /\ Dims' = Dims
    BY DEF Op, Entry, Ops, Dims
  <2>2. ParseWorkload(Op)' <=> ParseWorkload(Op)
    BY <2>1 DEF ParseWorkload
  <2> QED  BY <2>1, <2>2 DEF ProblemInv, OpChecked
<1> QED  BY <1>1, <1>2, <1>3 DEF ProblemInv, Reading, BoundsSet, BoundsControl, ShapeIsCommon

\* A section of the problem ends: all of its entries have been read.
LEMMA SectionStep ==
  ASSUME ProblemInv, EndOps \/ EndProblem, UNCHANGED config
  PROVE  ProblemInv'
<1>1. /\ Len(Ops) \in Nat /\ Ops' = Ops /\ Dims' = Dims
      /\ next \in Nat \ {0} /\ next' = 1
      /\ UNCHANGED <<dimVars, workloads_, factorized_bounds_, tensor>>
  BY ProblemLists DEF ProblemInv, Reading, Ops, Dims, EndOps, EndProblem, Turn, problemVars,
                      exists
<1>2. exists(config.problem, "dimensions") /\ Len(Dims) \in Nat
  BY ProblemLists DEF ProblemInv, DimsNumbered, InProblem, EndOps, EndProblem, exists
<1>3. DimsNumbered'
  BY <1>1 DEF ProblemInv, DimsNumbered, InProblem, dimVars, Dims, EndOps, EndProblem, exists
<1>4. CASE EndOps
  <2>1. stage = "ops" /\ stage' = "instance" /\ ~MoreOf(Ops)
    BY <1>4 DEF EndOps, Turn, exists
  <2>2. WorkloadsRead' = WorkloadsRead
    BY <1>1, <2>1 DEF WorkloadsRead, MoreOf, ProblemInv, WorkloadNew
  <2>3. WorkloadsStored'
    BY <1>1, <2>1, <2>2 DEF ProblemInv, WorkloadsStored, WorkloadOf, InProblem
  <2>4. BoundsRead' = 0
    BY <1>1, <2>1 DEF BoundsRead
  <2>5. BoundsSet'
    BY <2>4 DEF BoundsSet
  <2> QED  BY <1>1, <1>2, <1>3, <2>1, <2>3, <2>5
           DEF ProblemInv, Reading, WorkloadNew, BoundsControl, ShapeIsCommon, OpChecked
<1>5. CASE EndProblem
  <2>1. /\ stage = "instance" /\ stage' = "mapping" /\ ~MoreOf(Dims)
        /\ current_shape_' = CommonShape
    BY <1>5 DEF EndProblem, Turn, Dims, SetCurrShape
  <2>2. BoundsRead' = BoundsRead
    BY <1>1, <1>2, <2>1 DEF BoundsRead, MoreOf, ProblemInv, BoundsControl
  <2>3. \A n : BoundOf(n)' = BoundOf(n)
    BY DEF BoundOf, Instance, IsMacro
  <2>4. BoundsSet'
    BY <1>1, <2>1, <2>2, <2>3 DEF ProblemInv, BoundsSet
  <2>5. WorkloadsStored'
    BY <1>1, <2>1 DEF ProblemInv, WorkloadsStored, WorkloadOf, InProblem, WorkloadsRead
  <2> QED  BY <1>1, <1>2, <1>3, <2>1, <2>4, <2>5
           DEF ProblemInv, Reading, WorkloadNew, BoundsControl, ShapeIsCommon, OpChecked
<1> QED  BY <1>4, <1>5

\* The program stops, or is not in the sections of the problem.
LEMMA ProblemFrame ==
  ASSUME ProblemInv, UNCHANGED <<config, problemVars>>, next' \in Nat \ {0},
         \/ UNCHANGED <<stage, next>>
         \/ stage' \in {Abort, Undefined}
         \/ {stage, stage'} \subseteq {"levels", "connections", "dimensions"}
         \/ {stage, stage'} \subseteq {"mapping", "loaded"}
  PROVE  ProblemInv'
<1> UNCHANGED <<dimVars, tensor, current_shape_, workloads_, factorized_bounds_>>
  BY DEF problemVars
<1>1. CASE UNCHANGED <<stage, next>>
  <2>1. \A n : BoundOf(n)' = BoundOf(n)
    BY DEF BoundOf, Instance, IsMacro
  <2>2. WorkloadsStored' /\ WorkloadNew' /\ BoundsSet'
    BY <1>1, <2>1 DEF ProblemInv, WorkloadsStored, WorkloadsRead, WorkloadOf, WorkloadNew,
                      Ops, Op, Entry, BoundsSet, BoundsRead, Dims
  <2>3. DimsNumbered' /\ BoundsControl' /\ ShapeIsCommon'
    BY <1>1 DEF ProblemInv, DimsNumbered, dimVars, Dims, BoundsControl, ShapeIsCommon
  <2>4. OpChecked'
    <3>1. Op' = Op /\ Dims' = Dims
      BY <1>1 DEF Op, Entry, Ops, Dims
    <3>2. ParseWorkload(Op)' <=> ParseWorkload(Op)
      BY <3>1 DEF ParseWorkload
    <3> QED  BY <1>1, <3>1, <3>2 DEF ProblemInv, OpChecked
  <2> QED  BY <1>1, <2>2, <2>3, <2>4 DEF ProblemInv, Reading
<1>2. CASE stage' \in {Abort, Undefined, "levels", "connections", "dimensions"}
           /\ (tensor = 0 \/ stage' \in {Abort, Undefined})
  BY <1>2 DEF ProblemInv, Reading, WorkloadsStored, WorkloadNew, DimsNumbered, BoundsSet,
              BoundsControl, ShapeIsCommon, OpChecked, InProblem, Abort, Undefined
<1>3. CASE {stage, stage'} \subseteq {"mapping", "loaded"}
  <2>1. \A n : BoundOf(n)' = BoundOf(n)
    BY DEF BoundOf, Instance, IsMacro
  <2>2. WorkloadsStored' /\ WorkloadNew' /\ BoundsSet'
    BY <1>3, <2>1 DEF ProblemInv, WorkloadsStored, WorkloadsRead, WorkloadOf, WorkloadNew,
                      InProblem, Ops, BoundsSet, BoundsRead, Dims
  <2>3. DimsNumbered' /\ BoundsControl' /\ ShapeIsCommon'
    BY <1>3 DEF ProblemInv, DimsNumbered, InProblem, dimVars, Dims, BoundsControl,
                ShapeIsCommon
  <2> QED  BY <1>3, <2>2, <2>3 DEF ProblemInv, Reading, OpChecked
<1> QED  BY <1>1, <1>2, <1>3 DEF ProblemInv

\* A step of the parser of the architecture stays in its two sections, or goes
\* on to the problem, or ends the program.
LEMMA ArchStages ==
  ASSUME ArchNext, next \in Nat \ {0}
  PROVE  /\ stage \in {"levels", "connections"}
         /\ stage' \in {"levels", "connections", "dimensions", Abort, Undefined}
         /\ next' \in Nat \ {0}
<1> USE DEF Exit, Advance, Turn
<1>1. CASE ParseLevel \/ UnknownLevelType \/ EndLevels
  BY <1>1 DEF ParseLevel, UnknownLevelType, EndLevels
<1>2. CASE ParseConnection \/ RefuseConnection \/ EndConnections
  BY <1>2 DEF ParseConnection, RefuseConnection, EndConnections
<1> QED  BY <1>1, <1>2 DEF ArchNext

\* A step of ParseWorkloads.
LEMMA ProblemParserStep ==
  ASSUME ProblemInv, ProblemNext, UNCHANGED config
  PROVE  ProblemInv'
<1>0. next \in Nat \ {0} /\ next' \in Nat \ {0}
  BY ProblemStages DEF ProblemInv, Reading
<1>1. CASE set_dims
  BY <1>1, DimsStep
<1>2. CASE RefuseProblem \/ RefuseWorkload \/ RefuseInstance
  <2>1. stage' = Abort /\ UNCHANGED problemVars
    BY <1>2 DEF RefuseProblem, RefuseWorkload, RefuseInstance, Exit, exists
  <2> QED  BY <1>0, <2>1, ProblemFrame
<1>3. CASE BeginWorkload
  <2>1. /\ UNCHANGED <<stage, next, dimVars, workloads_, factorized_bounds_>>
        /\ stage = "ops" /\ tensor' = 1
        /\ next <= Len(Ops) /\ Op.name \notin DOMAIN workloads_
    BY <1>3 DEF BeginWorkload, InOps, MoreOf, NewWorkload
  <2>2. WorkloadsStored' /\ WorkloadNew'
    BY <2>1 DEF ProblemInv, WorkloadsStored, WorkloadsRead, WorkloadOf, WorkloadNew, Ops, Op,
                Entry
  <2>3. DimsNumbered'
    BY <2>1 DEF ProblemInv, DimsNumbered, dimVars, Dims
  <2>4. OpChecked'
    <3>1. Op' = Op /\ Dims' = Dims
      BY <2>1 DEF Op, Entry, Ops, Dims
    <3>2. ParseWorkload(Op) /\ ToSet(Op.dimensions) \subseteq ToSet(Dims)
      BY <1>3, <2>1 DEF BeginWorkload, NewWorkload, ProblemInv, DimsNumbered, InProblem
    <3>3. ParseWorkload(Op)' <=> ParseWorkload(Op)
      BY <3>1 DEF ParseWorkload
    <3> QED  BY <3>1, <3>2, <3>3 DEF OpChecked
  <2> QED  BY <2>1, <2>2, <2>3, <2>4
           DEF ProblemInv, Reading, BoundsSet, BoundsControl, ShapeIsCommon, OpChecked
<1>4. CASE KnownTensor
  <2>1. /\ stage = "ops" /\ next <= Len(Ops) /\ tensor \in Nat
        /\ tensor # 0 /\ Op.name \notin DOMAIN workloads_
        /\ UNCHANGED <<current_shape_, dimVars, shapeVars, workloads_, factorized_bounds_>>
    BY <1>4 DEF KnownTensor, InTensors, InOps, MoreOf, ProblemInv, WorkloadNew
  <2>2. CASE tensor' = tensor + 1 /\ UNCHANGED <<stage, next>>
    BY <2>1, <2>2, TensorStep
  <2>3. CASE stage' = Abort /\ UNCHANGED tensor
    BY <1>0, <2>1, <2>3, ProblemFrame DEF problemVars
  <2> QED  BY <1>4, <2>2, <2>3 DEF KnownTensor, Exit
<1>5. CASE NewTensor
  <2>1. /\ stage = "ops" /\ next <= Len(Ops) /\ tensor \in Nat
        /\ tensor # 0 /\ Op.name \notin DOMAIN workloads_
        /\ tensor' = tensor + 1
        /\ UNCHANGED <<stage, next, current_shape_, dimVars, workloads_, factorized_bounds_>>
    BY <1>5 DEF NewTensor, InTensors, InOps, MoreOf, ProblemInv, WorkloadNew
  <2> QED  BY <2>1, TensorStep
<1>6. CASE EndWorkload
  BY <1>6, WorkloadStep
<1>7. CASE EndOps \/ EndProblem
  BY <1>7, SectionStep
<1>8. CASE ParseBound
  <2>1. CASE BoundDefined(Dims[next])
    BY <1>8, <2>1, BoundStep
  <2>2. CASE ~BoundDefined(Dims[next])
    <3>1. stage' = Abort /\ UNCHANGED problemVars
      BY <1>8, <2>2 DEF ParseBound, Exit, Entry, Dims, problemVars
    <3> QED  BY <1>0, <3>1, ProblemFrame
  <2> QED  BY <2>1, <2>2
<1> QED  BY <1>1, <1>2, <1>3, <1>4, <1>5, <1>6, <1>7, <1>8 DEF ProblemNext

\* Every step keeps ProblemInv.
LEMMA ProblemStep ==
  ASSUME ProblemInv, [Next]_vars
  PROVE  ProblemInv'
<1> next \in Nat \ {0}
  BY DEF ProblemInv, Reading
<1>1. CASE ParseArchitecture
  <2>1. UNCHANGED <<config, problemVars>> /\ ArchNext
    BY <1>1 DEF ParseArchitecture
  <2> QED  BY <2>1, ArchStages, ProblemFrame
<1>2. CASE ParseWorkloads
  BY <1>2, ProblemParserStep DEF ParseWorkloads
<1>3. CASE ParseMapping
  <2>1. UNCHANGED <<config, problemVars>> /\ MappingNext
    BY <1>3 DEF ParseMapping
  <2> QED  BY <2>1, MappingStages, ProblemFrame
<1>4. CASE UNCHANGED vars
  BY <1>4, ProblemFrame DEF vars
<1> QED  BY <1>1, <1>2, <1>3, <1>4 DEF Next, Parse, Stop

\* ProblemInv holds throughout.
LEMMA ProblemInvariant == Spec => []ProblemInv
<1>1. Init => ProblemInv
  BY DEF Init, ProblemInit, ProblemInv, Reading, WorkloadsStored, WorkloadNew, DimsNumbered,
         BoundsSet, BoundsControl, ShapeIsCommon, OpChecked, InProblem
<1>2. ProblemInv /\ [Next]_vars => ProblemInv'
  BY ProblemStep
<1> QED  BY <1>1, <1>2, PTL DEF Spec

\* A problem that is accepted has all its operations with their own inputs and
\* output, however many there are and whatever they are named: add_workload
\* refuses a second operation of a name, so none is overwritten.
THEOREM WorkloadsAllStored == Spec => []WorkloadsComplete
<1>1. ProblemInv => WorkloadsComplete
  BY DEF ProblemInv, WorkloadsComplete, WorkloadsStored, InProblem, WorkloadsRead, WorkloadOf
<1> QED  BY <1>1, ProblemInvariant, PTL

-----------------------------------------------------------------------------
(* The tensors.                                                             *)

\* Every tensor has the number of a projection and of a rank.
TensorIds ==
  /\ IsList(Projections)
  /\ \A n \in DOMAIN DataSpaceNameToID :
       DataSpaceNameToID[n] \in (0 .. Len(Projections) - 1) \cap DOMAIN DataSpaceOrder

\* The known tensors are those that have been read, each with its rank.
TensorsKnown ==
  stage \in InProblem =>
    /\ \A p \in SpacesRead :
         /\ SpaceAt(p).name \in DOMAIN DataSpaceNameToID
         /\ DataSpaceOrder[DataSpaceNameToID[SpaceAt(p).name]] = Rank(SpaceAt(p))
    /\ \A n \in DOMAIN DataSpaceNameToID : \E p \in SpacesRead : SpaceAt(p).name = n

NoTensorsYet ==
  stage \in {"levels", "connections", "dimensions"} => DataSpaceNameToID = <<>>

\* The names of the dimensions in a projection.
NamesOf(projection) ==
  LET terms == FlattenSeq(projection)
  IN  [i \in DOMAIN terms |-> FactorizedDimensionIDToName[terms[i][2]]]

\* The first tensor of a name has given the projection.
FirstKept ==
  stage \in InProblem =>
    \A p \in SpacesRead : IsFirst(p, SpaceAt(p).name) =>
      NamesOf(Projections[DataSpaceNameToID[SpaceAt(p).name] + 1]) = DeclaredDims(SpaceAt(p))

\* The inductive invariant of the tensors.
TensorInv == TensorIds /\ TensorsKnown /\ NoTensorsYet /\ FirstKept

AllSpaces == UNION {{i} \X DOMAIN Ops[i].spaces : i \in DOMAIN Ops}

\* The positions of the tensors.
LEMMA SpacePositions ==
  ASSUME Reading
  PROVE  /\ \A p \in AllSpaces : /\ p = <<p[1], p[2]>>
                                 /\ p[1] \in 1 .. Len(Ops)
                                 /\ p[2] \in 1 .. Len(Ops[p[1]].spaces)
         /\ \A i \in 1 .. Len(Ops) : \A k \in 1 .. Len(Ops[i].spaces) : <<i, k>> \in AllSpaces
<1>1. /\ DOMAIN Ops = 1 .. Len(Ops)
      /\ \A i \in DOMAIN Ops : DOMAIN Ops[i].spaces = 1 .. Len(Ops[i].spaces)
  BY ProblemLists, ListIs
<1> QED  BY <1>1 DEF AllSpaces

\* What NewTensor stores for a tensor, in the names of its dimensions, is what
\* the operation declares: the number that the operation has for a dimension
\* leads to its name, and the name to the number that the problem has for it.
LEMMA CommonNames ==
  ASSUME ProblemInv, stage = "ops", next <= Len(Ops), tensor # 0,
         NEW k \in 1 .. Len(Op.spaces), NEW coefficients
  PROVE  LET proj == Projection(Op, Op.spaces[k])
             common == [e \in DOMAIN proj |-> [t \in DOMAIN proj[e] |->
                          CommonTerm(Op, proj[e][t], coefficients)]]
         IN  NamesOf(common) = DeclaredDims(Op.spaces[k])
<1> DEFINE q == Op.spaces[k].projection
           proj == Projection(Op, Op.spaces[k])
           p == [e \in DOMAIN proj |-> [t \in DOMAIN proj[e] |->
                   CommonTerm(Op, proj[e][t], coefficients)]]
           T == UNION {ToSet(p[e]) : e \in DOMAIN p}
           U == UNION {ToSet(q[e]) : e \in DOMAIN q}
           R == {r \in T \X U : FactorizedDimensionIDToName[r[1][2]] = r[2][1]}
<1>1. /\ IsList(q)
      /\ \A e \in DOMAIN q : IsList(q[e])
      /\ IsList(Op.dimensions)
  <2>1. next \in DOMAIN Ops /\ k \in DOMAIN Op.spaces
    BY ProblemLists, ListIs DEF ProblemInv, Reading, Op, Entry
  <2> QED  BY <2>1, ProblemAssumption DEF ProblemInv, Reading, Ops, Op, Entry
<1>2. /\ DOMAIN q = 1 .. Len(q) /\ Len(q) \in Nat
      /\ \A e \in DOMAIN q : DOMAIN q[e] = 1 .. Len(q[e]) /\ Len(q[e]) \in Nat
  BY <1>1, ListIs
<1>3. /\ DOMAIN proj = DOMAIN q
      /\ \A e \in DOMAIN q : DOMAIN proj[e] = DOMAIN q[e]
      /\ \A e \in DOMAIN q : \A t \in DOMAIN q[e] : proj[e][t] = Term(Op, q[e][t])
  BY DEF Projection
<1>4. /\ DOMAIN p = DOMAIN q
      /\ \A e \in DOMAIN q : DOMAIN p[e] = DOMAIN q[e]
      /\ \A e \in DOMAIN q : \A t \in DOMAIN q[e] :
           p[e][t] = CommonTerm(Op, Term(Op, q[e][t]), coefficients)
  <2> HIDE DEF proj
  <2> QED  BY <1>3
<1>5. ASSUME NEW e \in DOMAIN q, NEW t \in DOMAIN q[e]
      PROVE  FactorizedDimensionIDToName[p[e][t][2]] = q[e][t][1]
  <2> DEFINE d == q[e][t][1]
  <2>1. d \in ToSet(Op.dimensions) /\ d \in ToSet(Dims)
    <3>1. TermDefined(Op, q[e][t])
      <4>1. k \in DOMAIN Op.spaces
        BY ProblemLists, ListIs DEF ProblemInv, Reading, Op, Entry
      <4> QED  BY <4>1 DEF ProblemInv, OpChecked, ParseWorkload
    <3> QED  BY <3>1 DEF TermDefined, ProblemInv, OpChecked
  <2>2. p[e][t][2] = FactorizedDimensionNameToID[Op.dimensions[IdIn(Op.dimensions, d) + 1]]
    BY <1>4 DEF CommonTerm, Term
  <2>3. Op.dimensions[IdIn(Op.dimensions, d) + 1] = d
    BY <1>1, <2>1, IdIsPosition
  <2>4. /\ FactorizedDimensionNameToID = [n \in ToSet(Dims) |-> IdIn(Dims, n)]
        /\ FactorizedDimensionIDToName = [i \in 0 .. Len(Dims) - 1 |-> Dims[i + 1]]
        /\ IsList(Dims)
    BY ProblemLists DEF ProblemInv, DimsNumbered, InProblem
  <2>5. IdIn(Dims, d) \in 0 .. Len(Dims) - 1 /\ Dims[IdIn(Dims, d) + 1] = d
    BY <2>1, <2>4, IdIsPosition
  <2> HIDE DEF d, p
  <2>6. p[e][t][2] = IdIn(Dims, d)
    BY <2>1, <2>2, <2>3, <2>4
  <2> QED  BY <2>4, <2>5, <2>6 DEF d
<1> HIDE DEF p, q, proj
<1>6. /\ q \in Seq(Seq(U)) /\ p \in Seq(Seq(T)) /\ Len(p) = Len(q)
  <2>1. \A e \in DOMAIN q : q[e] \in Seq(U)
    <3>1. ASSUME NEW e \in DOMAIN q
          PROVE  q[e] \in Seq(U)
      <4>1. ToSet(q[e]) \subseteq U /\ q[e] \in Seq(ToSet(q[e]))
        BY <1>1 DEF IsList
      <4> HIDE DEF U
      <4> QED  BY <4>1
    <3> QED  BY <3>1
  <2>2. \A e \in DOMAIN q : p[e] \in Seq(T)
    <3>1. ASSUME NEW e \in DOMAIN q
          PROVE  p[e] \in Seq(T)
      <4>1. p[e] = [t \in 1 .. Len(q[e]) |-> p[e][t]] /\ Len(q[e]) \in Nat
        BY <1>2, <1>3 DEF p
      <4>2. \A t \in 1 .. Len(q[e]) : p[e][t] \in T
        BY <1>2, <1>4 DEF ToSet
      <4> HIDE DEF T
      <4> QED  BY <4>1, <4>2
    <3> QED  BY <3>1
  <2>3. p = [e \in 1 .. Len(q) |-> p[e]]
    BY <1>2, <1>3 DEF p
  <2>4. q \in Seq(ToSet(q))
    BY <1>1 DEF IsList
  <2> HIDE DEF T, U
  <2>5. ToSet(q) \subseteq Seq(U)
    BY <2>1 DEF ToSet
  <2>6. q \in Seq(Seq(U))
    BY <2>4, <2>5
  <2>7. p \in Seq(Seq(T)) /\ Len(p) = Len(q)
    BY <1>2, <2>2, <2>3
  <2> QED  BY <2>6, <2>7
<1>7. \A e \in 1 .. Len(p) : AllRelated(p[e], q[e], R)
  <2> SUFFICES ASSUME NEW e \in 1 .. Len(p)
               PROVE  AllRelated(p[e], q[e], R)
    OBVIOUS
  <2>1. /\ e \in DOMAIN q /\ DOMAIN p[e] = 1 .. Len(q[e]) /\ Len(q[e]) \in Nat
        /\ p[e] \in Seq(T)
    <3> HIDE DEF T, U, R
    <3>1. e \in DOMAIN q
      BY <1>2, <1>6
    <3>2. p[e] \in Seq(T)
      BY <1>6
    <3> QED  BY <1>2, <1>4, <3>1, <3>2
  <2>2. Len(p[e]) = Len(q[e])
    BY <2>1
  <2>3. \A t \in 1 .. Len(q[e]) : p[e][t] \in T /\ q[e][t] \in U
    BY <1>2, <1>4, <2>1, SMTT(30) DEF ToSet
  <2>4. \A t \in 1 .. Len(q[e]) : FactorizedDimensionIDToName[p[e][t][2]] = q[e][t][1]
    BY <1>2, <1>5, <2>1
  <2> HIDE DEF T, U
  <2>5. \A t \in 1 .. Len(q[e]) : <<p[e][t], q[e][t]>> \in R
    BY <2>3, <2>4
  <2> QED  BY <2>2, <2>5 DEF AllRelated
<1>8. AllRelated(FlattenSeq(p), FlattenSeq(q), R)
  <2> HIDE DEF T, U, R
  <2> QED  BY <1>6, <1>7, FlattenRelated
<1>9. FlattenSeq(p) \in Seq(T) /\ FlattenSeq(q) \in Seq(U)
  <2> HIDE DEF T, U
  <2> QED  BY <1>6, FlattenType
<1>10. NamesOf(p) = [i \in DOMAIN FlattenSeq(q) |-> FlattenSeq(q)[i][1]]
  <2> DEFINE a == FlattenSeq(p)
             b == FlattenSeq(q)
  <2>1. DOMAIN a = 1 .. Len(a) /\ DOMAIN b = 1 .. Len(b) /\ Len(a) = Len(b)
    <3> HIDE DEF T, U, R
    <3> QED  BY <1>8, <1>9 DEF AllRelated
  <2>2. \A i \in 1 .. Len(a) : FactorizedDimensionIDToName[a[i][2]] = b[i][1]
    <3>1. \A i \in 1 .. Len(a) : <<a[i], b[i]>> \in R
      <4> HIDE DEF R
      <4> QED  BY <1>8 DEF AllRelated
    <3> HIDE DEF T, U, a, b
    <3> QED  BY <3>1
  <2>3. NamesOf(p) = [i \in DOMAIN a |-> FactorizedDimensionIDToName[a[i][2]]]
    BY DEF NamesOf
  <2> HIDE DEF a, b
  <2>4. NamesOf(p) = [i \in DOMAIN b |-> b[i][1]]
    BY <2>1, <2>2, <2>3
  <2> QED  BY <2>4 DEF b
<1>11. NamesOf(p) = DeclaredDims(Op.spaces[k])
  BY <1>10 DEF DeclaredDims, q
<1> QED  BY <1>11 DEF p, proj

\* Where no tensor is read the invariant of the tensors stays.
LEMMA TensorFrame ==
  ASSUME ProblemInv, TensorInv, UNCHANGED <<config, DataSpaceNameToID, DataSpaceOrder, Projections>>,
         stage' \in InProblem => stage \in InProblem \cup {"dimensions"},
         stage' \in InProblem /\ stage \in InProblem =>
           SpacesRead' = SpacesRead /\ UNCHANGED dimVars,
         stage' \in InProblem /\ stage = "dimensions" => SpacesRead' = {},
         stage' \in {"levels", "connections", "dimensions"} =>
           stage \in {"levels", "connections", "dimensions"}
  PROVE  TensorInv'
<1> USE DEF TensorInv
<1>1. TensorIds' /\ NoTensorsYet'
  BY DEF TensorIds, NoTensorsYet
<1>2. Ops' = Ops /\ \A p : SpaceAt(p)' = SpaceAt(p)
  BY DEF Ops, SpaceAt
<1>3. CASE stage' \notin InProblem
  BY <1>1, <1>3 DEF TensorsKnown, FirstKept
<1>4. CASE stage' \in InProblem /\ stage \in InProblem
  <2>1. \A p, n : IsFirst(p, n)' <=> IsFirst(p, n)
    BY <1>2, <1>4 DEF IsFirst
  <2>2. \A q : NamesOf(q)' = NamesOf(q)
    BY <1>4 DEF NamesOf, dimVars
  <2> QED  BY <1>1, <1>2, <1>4, <2>1, <2>2 DEF TensorsKnown, FirstKept
<1>5. CASE stage' \in InProblem /\ stage = "dimensions"
  <2>1. DataSpaceNameToID = <<>>
    BY <1>5 DEF NoTensorsYet
  <2> QED  BY <1>1, <1>5, <2>1 DEF TensorsKnown, FirstKept
<1> QED  BY <1>3, <1>4, <1>5

\* One tensor more has been read.
LEMMA OneSpaceMore ==
  ASSUME ProblemInv, InTensors, UNCHANGED <<config, stage, next>>, tensor' = tensor + 1
  PROVE  /\ SpacesRead' = SpacesRead \cup {<<next, tensor>>}
         /\ \A p \in SpacesRead : Before(p, <<next, tensor>>) /\ ~Before(<<next, tensor>>, p)
         /\ SpaceAt(<<next, tensor>>) = Space
         /\ \A p : SpaceAt(p)' = SpaceAt(p)
<1>1. /\ stage = "ops" /\ next \in 1 .. Len(Ops) /\ tensor \in 1 .. Len(Ops[next].spaces)
      /\ Ops' = Ops /\ Len(Ops) \in Nat /\ next \in Nat /\ Len(Ops[next].spaces) \in Nat
  BY ProblemLists DEF ProblemInv, Reading, InTensors, InOps, MoreOf, Op, Entry, Ops
<1>2. /\ SpacesRead = {p \in AllSpaces : Before(p, <<next, tensor>>)}
      /\ SpacesRead' = {p \in AllSpaces : Before(p, <<next, tensor + 1>>)}
  BY <1>1 DEF SpacesRead, AllSpaces
<1>3. <<next, tensor>> \in AllSpaces
  BY <1>1, SpacePositions DEF ProblemInv
<1>4. \A p \in AllSpaces : p = <<p[1], p[2]>> /\ p[1] \in Nat /\ p[2] \in Nat
  <2>1. \A p \in AllSpaces : /\ p = <<p[1], p[2]>>
                             /\ p[1] \in 1 .. Len(Ops)
                             /\ p[2] \in 1 .. Len(Ops[p[1]].spaces)
    BY SpacePositions DEF ProblemInv
  <2> QED  BY <1>1, <2>1
<1> HIDE DEF AllSpaces
<1>5. ASSUME NEW p \in AllSpaces
      PROVE  Before(p, <<next, tensor + 1>>) <=> Before(p, <<next, tensor>>) \/ p = <<next, tensor>>
  <2>1. p = <<p[1], p[2]>> /\ p[1] \in Nat /\ p[2] \in Nat
    BY <1>4
  <2>2. p = <<next, tensor>> <=> p[1] = next /\ p[2] = tensor
    BY <2>1
  <2> QED  BY <1>1, <2>1, <2>2 DEF Before
<1>6. \A p \in SpacesRead : Before(p, <<next, tensor>>) /\ ~Before(<<next, tensor>>, p)
  BY <1>1, <1>2, <1>4 DEF Before
<1> QED  BY <1>1, <1>2, <1>3, <1>5, <1>6 DEF SpaceAt, Space, Op, Entry

\* A known tensor: it is not the first of its name.
LEMMA KnownStep ==
  ASSUME ProblemInv, TensorInv, KnownTensor, UNCHANGED <<config, stage, next>>,
         tensor' = tensor + 1
  PROVE  TensorInv'
<1>0. PICK new : new = <<next, tensor>>
  OBVIOUS
<1>1. /\ stage = "ops" /\ stage \in InProblem
      /\ InTensors
      /\ Space.name \in DOMAIN DataSpaceNameToID
      /\ UNCHANGED <<dimVars, shapeVars>>
  BY DEF KnownTensor, InTensors, InOps, InProblem
<1>2. SameRank(Space)
  BY DEF KnownTensor, ProblemInv, WorkloadNew, InTensors, InOps
<1>3. /\ SpacesRead' = SpacesRead \cup {new}
      /\ \A p \in SpacesRead : Before(p, new)
      /\ SpaceAt(new) = Space
      /\ \A p : SpaceAt(p)' = SpaceAt(p)
  BY <1>0, <1>1, OneSpaceMore
<1>4. UNCHANGED <<DataSpaceNameToID, DataSpaceOrder, Projections>>
  BY <1>1 DEF shapeVars
<1>5. TensorIds' /\ NoTensorsYet'
  BY <1>1, <1>4 DEF TensorInv, TensorIds, NoTensorsYet
<1>6. TensorsKnown'
  BY <1>1, <1>2, <1>3, <1>4 DEF TensorInv, TensorsKnown, SameRank
<1>7. FirstKept'
  <2>1. PICK r \in SpacesRead : SpaceAt(r).name = Space.name
    BY <1>1 DEF TensorInv, TensorsKnown
  <2>2. ~IsFirst(new, SpaceAt(new).name)'
    BY <1>3, <2>1 DEF IsFirst
  <2>3. \A p, n : IsFirst(p, n)' => IsFirst(p, n)
    BY <1>3 DEF IsFirst
  <2>4. \A q : NamesOf(q)' = NamesOf(q)
    BY <1>1 DEF NamesOf, dimVars
  <2>5. \A p \in SpacesRead : IsFirst(p, SpaceAt(p).name)' => IsFirst(p, SpaceAt(p).name)
    BY <1>3, <2>3
  <2> QED  BY <1>1, <1>3, <1>4, <2>2, <2>4, <2>5 DEF TensorInv, FirstKept
<1> QED  BY <1>5, <1>6, <1>7 DEF TensorInv

\* A new tensor: it is the first of its name, and takes the next number.
LEMMA NewStep ==
  ASSUME ProblemInv, TensorInv, NewTensor, UNCHANGED config
  PROVE  TensorInv'
<1>0. PICK new : new = <<next, tensor>>
  OBVIOUS
<1>1. PICK id, projection :
        /\ id = Len(Projections)
        /\ Projections' = Append(Projections, projection)
        /\ DataSpaceOrder' = Put(DataSpaceOrder, id, Rank(Space))
        /\ DataSpaceNameToID' = Put(DataSpaceNameToID, Space.name, id)
        /\ NamesOf(projection) = DeclaredDims(Space)
  <2>1. /\ stage = "ops" /\ next <= Len(Ops) /\ tensor # 0
        /\ tensor \in 1 .. Len(Op.spaces)
    BY DEF NewTensor, InTensors, InOps, MoreOf
  <2> DEFINE proj == Projection(Op, Op.spaces[tensor])
             coefficients == CoefficientsLookedUp(Op, proj)
             common == [e \in DOMAIN proj |-> [t \in DOMAIN proj[e] |->
                          CommonTerm(Op, proj[e][t], coefficients)]]
  <2>2. NamesOf(common) = DeclaredDims(Op.spaces[tensor])
    BY <2>1, CommonNames, Zenon
  <2>3. /\ Projections' = Append(Projections, common)
        /\ DataSpaceOrder' = Put(DataSpaceOrder, Len(Projections), Rank(Space))
        /\ DataSpaceNameToID' = Put(DataSpaceNameToID, Space.name, Len(Projections))
    BY Zenon DEF NewTensor, Space
  <2> HIDE DEF common
  <2> QED  BY <2>2, <2>3 DEF Space
<1>2. /\ stage = "ops" /\ stage \in InProblem
      /\ InTensors
      /\ Space.name \notin DOMAIN DataSpaceNameToID
      /\ tensor' = tensor + 1
      /\ UNCHANGED <<stage, next, dimVars>>
  BY DEF NewTensor, InTensors, InOps, InProblem
<1>3. /\ SpacesRead' = SpacesRead \cup {new}
      /\ \A p \in SpacesRead : Before(p, new) /\ ~Before(new, p)
      /\ SpaceAt(new) = Space
      /\ \A p : SpaceAt(p)' = SpaceAt(p)
  BY <1>0, <1>2, OneSpaceMore
<1>4. /\ IsList(Projections) /\ id \in Nat
      /\ \A n \in DOMAIN DataSpaceNameToID :
           DataSpaceNameToID[n] \in (0 .. id - 1) \cap DOMAIN DataSpaceOrder
  BY <1>1, ListIs DEF TensorInv, TensorIds
<1>5. /\ IsList(Projections')
      /\ Len(Projections') = id + 1
      /\ Projections'[id + 1] = projection
      /\ \A i \in 1 .. id : Projections'[i] = Projections[i]
  <2>1. IsList(Projections')
    BY <1>1, <1>4, AppendList
  <2>2. Projections \in Seq(ToSet(Projections) \cup {projection})
    <3>1. Projections \in Seq(ToSet(Projections))
      BY <1>4 DEF IsList
    <3> QED  BY <3>1
  <2> QED  BY <1>1, <2>1, <2>2
<1>6. /\ DOMAIN DataSpaceNameToID' = DOMAIN DataSpaceNameToID \cup {Space.name}
      /\ DataSpaceNameToID'[Space.name] = id
      /\ \A n \in DOMAIN DataSpaceNameToID : DataSpaceNameToID'[n] = DataSpaceNameToID[n]
  BY <1>1, <1>2 DEF Put
<1>7. /\ DOMAIN DataSpaceOrder' = DOMAIN DataSpaceOrder \cup {id}
      /\ DataSpaceOrder'[id] = Rank(Space)
      /\ \A n \in DOMAIN DataSpaceNameToID :
           DataSpaceOrder'[DataSpaceNameToID[n]] = DataSpaceOrder[DataSpaceNameToID[n]]
  BY <1>1, <1>4 DEF Put
<1>8. TensorIds' /\ NoTensorsYet'
  BY <1>2, <1>4, <1>5, <1>6, <1>7 DEF TensorIds, NoTensorsYet
<1>9. TensorsKnown'
  <2>1. ASSUME NEW p \in SpacesRead'
        PROVE  /\ SpaceAt(p).name \in DOMAIN DataSpaceNameToID'
               /\ DataSpaceOrder'[DataSpaceNameToID'[SpaceAt(p).name]] = Rank(SpaceAt(p))
    <3>1. CASE p = new
      BY <1>3, <1>6, <1>7, <3>1
    <3>2. CASE p # new
      <4>1. p \in SpacesRead
        BY <1>3, <3>2
      <4> QED  BY <1>2, <1>6, <1>7, <4>1 DEF TensorInv, TensorsKnown
    <3> QED  BY <3>1, <3>2
  <2>2. \A n \in DOMAIN DataSpaceNameToID' : \E p \in SpacesRead' : SpaceAt(p).name = n
    BY <1>2, <1>3, <1>6 DEF TensorInv, TensorsKnown
  <2>3. \A s : Rank(s)' = Rank(s)
    BY DEF Rank
  <2> QED  BY <1>3, <2>1, <2>2, <2>3 DEF TensorsKnown
<1>10. FirstKept'
  <2>1. \A p, n : IsFirst(p, n)' => IsFirst(p, n)
    BY <1>3 DEF IsFirst
  <2>2. \A q : NamesOf(q)' = NamesOf(q)
    BY <1>2 DEF NamesOf, dimVars
  <2>3. \A s : DeclaredDims(s)' = DeclaredDims(s)
    BY DEF DeclaredDims
  <2> SUFFICES ASSUME NEW p \in SpacesRead', IsFirst(p, SpaceAt(p).name)
               PROVE  NamesOf(Projections'[DataSpaceNameToID'[SpaceAt(p).name] + 1])
                        = DeclaredDims(SpaceAt(p))
    BY <1>3, <2>1, <2>2, <2>3 DEF FirstKept
  <2>4. CASE p = new
    BY <1>1, <1>3, <1>5, <1>6, <2>4
  <2>5. CASE p # new
    <3>1. p \in SpacesRead
      BY <1>3, <2>5
    <3>2. /\ SpaceAt(p).name \in DOMAIN DataSpaceNameToID
          /\ NamesOf(Projections[DataSpaceNameToID[SpaceAt(p).name] + 1])
               = DeclaredDims(SpaceAt(p))
      BY <1>2, <3>1 DEF TensorInv, TensorsKnown, FirstKept
    <3>3. Projections'[DataSpaceNameToID[SpaceAt(p).name] + 1]
            = Projections[DataSpaceNameToID[SpaceAt(p).name] + 1]
      <4>1. DataSpaceNameToID[SpaceAt(p).name] + 1 \in 1 .. id
        BY <1>4, <3>2
      <4> QED  BY <1>5, <4>1
    <3> QED  BY <1>6, <3>2, <3>3
  <2> QED  BY <2>4, <2>5
<1> QED  BY <1>8, <1>9, <1>10 DEF TensorInv

\* The tensors that were read do not depend on where between two of them the
\* program is.
LEMMA SameSpaces ==
  ASSUME ProblemInv, UNCHANGED config, stage \in InProblem, stage' \in InProblem,
         \/ UNCHANGED <<stage, next>> /\ tensor = 0 /\ tensor' = 1
         \/ UNCHANGED <<stage, next, tensor>>
         \/ /\ UNCHANGED stage /\ stage = "ops" /\ next <= Len(Ops)
            /\ next' = next + 1 /\ tensor > Len(Op.spaces) /\ tensor' = 0
         \/ stage = "ops" /\ ~MoreOf(Ops) /\ stage' = "instance"
         \/ stage # "ops" /\ stage' # "ops"
  PROVE  SpacesRead' = SpacesRead
<1>1. Ops' = Ops /\ AllSpaces' = AllSpaces
  BY DEF Ops, AllSpaces
<1>2. /\ SpacesRead = {p \in AllSpaces : stage = "ops" => Before(p, <<next, tensor>>)}
      /\ SpacesRead' = {p \in AllSpaces : stage' = "ops" => Before(p, <<next', tensor'>>)}
  BY <1>1 DEF SpacesRead, AllSpaces
<1>3. ASSUME NEW p \in AllSpaces
      PROVE  (stage = "ops" => Before(p, <<next, tensor>>))
               <=> (stage' = "ops" => Before(p, <<next', tensor'>>))
  <2>1. /\ p[1] \in 1 .. Len(Ops) /\ p[2] \in 1 .. Len(Ops[p[1]].spaces)
        /\ Len(Ops) \in Nat /\ Len(Ops[p[1]].spaces) \in Nat
        /\ next \in Nat
    BY SpacePositions, ProblemLists DEF ProblemInv, Reading
  <2>2. stage = "ops" => tensor \in Nat
    BY DEF ProblemInv, WorkloadNew
  <2>3. stage = "ops" /\ p[1] = next => Len(Op.spaces) = Len(Ops[p[1]].spaces)
    BY DEF Op, Entry
  <2> HIDE DEF AllSpaces
  <2> QED  BY <2>1, <2>2, <2>3 DEF Before, MoreOf
<1> HIDE DEF AllSpaces
<1> QED  BY <1>2, <1>3

\* Every step of the loader keeps the invariant of the tensors.
LEMMA TensorInvStep ==
  ASSUME ProblemInv, TensorInv, [Next]_vars
  PROVE  TensorInv'
<1> next \in Nat \ {0}
  BY DEF ProblemInv, Reading
<1> DEFINE spaceVars == <<DataSpaceNameToID, DataSpaceOrder, Projections>>
<1>1. CASE ParseArchitecture
  <2>1. UNCHANGED <<config, spaceVars>> /\ ArchNext
    BY <1>1 DEF ParseArchitecture, problemVars, shapeVars
  <2> QED  BY <2>1, ArchStages, TensorFrame DEF InProblem, Abort, Undefined
<1>2. CASE ParseMapping
  <2>1. UNCHANGED <<config, spaceVars, dimVars>> /\ MappingNext
    BY <1>2 DEF ParseMapping, problemVars, shapeVars
  <2>2. stage = "mapping" /\ stage' \in {"mapping", "loaded", Abort}
    BY <2>1, MappingStages
  <2>3. stage' \in InProblem => SpacesRead' = SpacesRead
    BY <2>1, <2>2, SameSpaces DEF InProblem, Abort
  <2> QED  BY <2>1, <2>2, <2>3, TensorFrame DEF InProblem, Abort
<1>3. CASE UNCHANGED vars
  <2>1. UNCHANGED <<config, spaceVars, dimVars, stage, next, tensor>>
    BY <1>3 DEF vars, problemVars, shapeVars
  <2>2. stage' \in InProblem => SpacesRead' = SpacesRead
    BY <2>1, SameSpaces
  <2> QED  BY <2>1, <2>2, TensorFrame DEF InProblem
<1>4. CASE ParseWorkloads
  <2>0. UNCHANGED config /\ ProblemNext
    BY <1>4 DEF ParseWorkloads
  <2>1. CASE NewTensor
    BY <2>0, <2>1, NewStep
  <2>2. CASE KnownTensor
    <3>1. stage = "ops" /\ UNCHANGED spaceVars
      BY <2>2 DEF KnownTensor, InTensors, InOps, shapeVars
    <3>2. CASE UNCHANGED <<stage, next>> /\ tensor' = tensor + 1
      BY <2>0, <2>2, <3>2, KnownStep
    <3>3. CASE stage' = Abort
      BY <2>0, <3>1, <3>3, TensorFrame DEF InProblem, Abort
    <3> QED  BY <2>2, <3>2, <3>3 DEF KnownTensor, Exit
  <2>3. CASE stage' = Abort /\ ~NewTensor
    <3>1. UNCHANGED spaceVars
      BY <2>0, <2>3 DEF ProblemNext, set_dims, RefuseProblem, BeginWorkload, RefuseWorkload,
                        KnownTensor, EndWorkload, EndOps, RefuseInstance, ParseBound, EndProblem,
                        problemVars, shapeVars, exists
    <3> QED  BY <2>0, <2>3, <3>1, TensorFrame DEF InProblem, Abort
  <2>4. CASE set_dims
    <3>1. /\ UNCHANGED spaceVars /\ stage = "dimensions" /\ stage' = "ops"
          /\ next' = 1 /\ tensor' = 0
      BY <2>4 DEF set_dims, Turn, shapeVars, ProblemInv
    <3>2. SpacesRead' = {}
      <4>1. AllSpaces' = AllSpaces /\ SpacesRead' = {p \in AllSpaces : Before(p, <<1, 0>>)}
        BY <2>0, <3>1 DEF SpacesRead, AllSpaces, Ops
      <4>2. \A p \in AllSpaces : p[1] \in Nat \ {0} /\ p[2] \in Nat
        BY SpacePositions, ProblemLists DEF ProblemInv
      <4> HIDE DEF AllSpaces
      <4> QED  BY <4>1, <4>2 DEF Before
    <3> QED  BY <2>0, <3>1, <3>2, TensorFrame DEF InProblem
  <2>5. CASE BeginWorkload
    <3>1. /\ UNCHANGED <<spaceVars, dimVars, stage, next>> /\ stage = "ops"
          /\ tensor = 0 /\ tensor' = 1
      BY <2>5 DEF BeginWorkload, InOps, shapeVars
    <3>2. SpacesRead' = SpacesRead
      BY <2>0, <3>1, SameSpaces DEF InProblem
    <3> QED  BY <2>0, <3>1, <3>2, TensorFrame DEF InProblem
  <2>6. CASE EndWorkload
    <3>1. /\ UNCHANGED <<spaceVars, dimVars, stage>> /\ stage = "ops" /\ next <= Len(Ops)
          /\ next' = next + 1 /\ tensor > Len(Op.spaces) /\ tensor' = 0
      BY <2>6 DEF EndWorkload, InOps, MoreOf, Advance
    <3>2. SpacesRead' = SpacesRead
      BY <2>0, <3>1, SameSpaces DEF InProblem
    <3> QED  BY <2>0, <3>1, <3>2, TensorFrame DEF InProblem
  <2>7. CASE EndOps
    <3>1. /\ UNCHANGED <<spaceVars, dimVars>> /\ stage = "ops" /\ ~MoreOf(Ops)
          /\ stage' = "instance"
      BY <2>7 DEF EndOps, Turn, problemVars, shapeVars, exists
    <3>2. SpacesRead' = SpacesRead
      BY <2>0, <3>1, SameSpaces DEF InProblem
    <3> QED  BY <2>0, <3>1, <3>2, TensorFrame DEF InProblem
  <2>8. CASE (ParseBound \/ EndProblem) /\ stage' # Abort
    <3>1. /\ UNCHANGED <<spaceVars, dimVars>> /\ stage = "instance"
          /\ stage' \in {"instance", "mapping"}
      BY <2>8 DEF ParseBound, EndProblem, Turn, Exit, Advance, shapeVars
    <3>2. SpacesRead' = SpacesRead
      BY <2>0, <3>1, SameSpaces DEF InProblem
    <3> QED  BY <2>0, <3>1, <3>2, TensorFrame DEF InProblem
  <2>9. CASE RefuseProblem \/ RefuseWorkload \/ RefuseInstance
    BY <2>3, <2>9, <2>1 DEF RefuseProblem, RefuseWorkload, RefuseInstance, Exit, exists
  <2> QED  BY <2>0, <2>1, <2>2, <2>3, <2>4, <2>5, <2>6, <2>7, <2>8, <2>9 DEF ProblemNext
<1> QED  BY <1>1, <1>2, <1>3, <1>4 DEF Next, Parse, Stop

\* A tensor means to the analyses what the first operation that names it says,
\* whatever the operations and the problem number its dimensions: add_workload
\* translates every projection by name, and never replaces one.
THEOREM TensorsKeepProjection == Spec => []TensorKeepsFirstProjection
<1>1. Init => TensorInv
  <2>1. IsList(<<>>)
    BY DEF IsList
  <2> QED  BY <2>1 DEF Init, ProblemInit, TensorInv, TensorIds, TensorsKnown, NoTensorsYet,
                       FirstKept, InProblem
<1>2. ProblemInv /\ TensorInv /\ [Next]_vars => TensorInv'
  BY TensorInvStep
<1>3. TensorInv => TensorKeepsFirstProjection
  <2> SUFFICES ASSUME TensorInv, stage \in InProblem,
                      NEW p \in SpacesRead, NEW first \in SpacesRead,
                      IsFirst(first, SpaceAt(p).name)
               PROVE  /\ getDimName(SpaceAt(p).name) = DeclaredDims(SpaceAt(first))
                      /\ Rank(SpaceAt(p)) = Rank(SpaceAt(first))
    BY DEF TensorKeepsFirstProjection, InProblem
  <2>1. SpaceAt(first).name = SpaceAt(p).name
    BY DEF IsFirst
  <2>2. NamesOf(Projections[DataSpaceNameToID[SpaceAt(p).name] + 1]) = DeclaredDims(SpaceAt(first))
    BY <2>1 DEF TensorInv, FirstKept
  <2>3. getDimName(SpaceAt(p).name) = NamesOf(Projections[DataSpaceNameToID[SpaceAt(p).name] + 1])
    BY DEF getDimName, NamesOf
  <2> QED  BY <2>1, <2>2, <2>3 DEF TensorInv, TensorsKnown
<1> QED  BY <1>1, <1>2, <1>3, ProblemInvariant, PTL DEF Spec

-----------------------------------------------------------------------------
(* The symbol table.                                                        *)

\* Every variable has a number of its own, and a history.
SymbolInv ==
  /\ idx \in Nat
  /\ \A n \in DOMAIN name2idx_ : name2idx_[n] \in 1 .. idx
  /\ \A m, n \in DOMAIN name2idx_ : name2idx_[m] = name2idx_[n] => m = n
  /\ DOMAIN declaredIn = 1 .. idx

\* There is a number left for an anonymous variable: idx variables cannot have
\* taken idx + 1 of them.
LEMMA NumberLeft ==
  ASSUME SymbolInv, NEW letter
  PROVE  \E i \in 0 .. idx : <<letter, i>> \notin DOMAIN name2idx_
<1> SUFFICES ASSUME \A i \in 0 .. idx : <<letter, i>> \in DOMAIN name2idx_
             PROVE  FALSE
  OBVIOUS
<1> DEFINE f == [i \in 0 .. idx |-> name2idx_[<<letter, i>>]]
<1>1. f \in [0 .. idx -> 1 .. idx] /\ idx \in Nat
  BY DEF SymbolInv
<1>2. \A i, j \in 0 .. idx : f[i] = f[j] => i = j
  BY DEF SymbolInv
<1>3. /\ IsFiniteSet(0 .. idx) /\ Cardinality(0 .. idx) = idx + 1
      /\ IsFiniteSet(1 .. idx) /\ Cardinality(1 .. idx) = idx
  BY <1>1, FS_Interval
<1> HIDE DEF f
<1>4. \E i, j \in 0 .. idx : i # j /\ f[i] = f[j]
  <2>1. Cardinality(1 .. idx) < Cardinality(0 .. idx)
    BY <1>1, <1>3
  <2> QED  BY <1>1, <1>3, <2>1, FS_PigeonHole
<1> QED  BY <1>2, <1>4

\* An anonymous variable is stored under a name that is new.
LEMMA AnonymousIsNew ==
  ASSUME SymbolInv, NEW name, Anonymous(name)
  PROVE  StoredName(name) \notin DOMAIN name2idx_
<1>1. CASE name \notin DOMAIN name2idx_
  BY <1>1 DEF StoredName
<1>2. CASE name \in DOMAIN name2idx_
  <2> DEFINE S == {i \in 0 .. idx : <<name[1], i>> \notin DOMAIN name2idx_}
  <2>1. S \in SUBSET Nat /\ S # {}
    <3>1. \E i \in 0 .. idx : <<name[1], i>> \notin DOMAIN name2idx_
      BY NumberLeft
    <3>2. idx \in Nat
      BY DEF SymbolInv
    <3> QED  BY <3>1, <3>2
  <2>2. Min(S) \in S
    <3> HIDE DEF S
    <3> QED  BY <2>1, MinIsLeast
  <2>3. StoredName(name) = <<name[1], Min(S)>>
    BY <1>2 DEF StoredName
  <2> QED  BY <2>2, <2>3
<1> QED  BY <1>1, <1>2

\* What a word leaves in the table: the table grows by one variable at most,
\* of the kind of node that is read; an anonymous word always brings a new one
\* in, and another word stands for the variable of its name.
LEMMA InsertIs ==
  ASSUME SymbolInv, NEW word, InsertWord(word)
  PROVE  /\ SymbolInv'
         /\ idx' \in {idx, idx + 1}
         /\ \A n \in DOMAIN name2idx_ : /\ n \in DOMAIN name2idx_'
                                        /\ name2idx_'[n] = name2idx_[n]
         /\ \A i \in 1 .. idx : declaredIn'[i] = declaredIn[i]
         /\ \A i \in idx + 1 .. idx' : declaredIn'[i] = Kind(Cfg)
         /\ InsertedWord(word) \in Int /\ -InsertedWord(word) \in 1 .. idx'
         /\ IsAnonymous(word) => -InsertedWord(word) = idx + 1
         /\ ~IsAnonymous(word) => /\ <<word[2], word[3]>> \in DOMAIN name2idx_'
                                  /\ -InsertedWord(word) = name2idx_'[<<word[2], word[3]>>]
<1> DEFINE name == <<word[2], word[3]>>
           stored == StoredName(name)
<1>1. /\ insert(name)
      /\ declaredIn' = [i \in 1 .. idx' |-> IF i \in DOMAIN declaredIn
                                            THEN declaredIn[i] ELSE Kind(Cfg)]
      /\ InsertedWord(word) = -name2idx_'[stored]
  BY DEF InsertWord, Declared, InsertedWord, Inserted
<1>2. ~Anonymous(name) => stored = name
  BY DEF StoredName
<1>3. Anonymous(name) => stored \notin DOMAIN name2idx_
  BY AnonymousIsNew
<1> HIDE DEF name, stored
<1>4. CASE stored \in DOMAIN name2idx_
  <2>1. UNCHANGED symbolVars
    BY <1>1, <1>4 DEF insert, stored
  <2>2. name2idx_' = name2idx_ /\ idx' = idx
    BY <2>1 DEF symbolVars
  <2>3. /\ SymbolInv'
        /\ \A i \in 1 .. idx : declaredIn'[i] = declaredIn[i]
    BY <1>1, <2>2 DEF SymbolInv
  <2>4. name2idx_[stored] \in 1 .. idx /\ idx \in Nat
    BY <1>4 DEF SymbolInv
  <2> QED  BY <1>1, <1>2, <1>3, <1>4, <2>2, <2>3, <2>4 DEF IsAnonymous, name
<1>5. CASE stored \notin DOMAIN name2idx_
  <2>1. idx' = idx + 1 /\ name2idx_' = Put(name2idx_, stored, idx')
    BY <1>1, <1>5 DEF insert, stored
  <2>2. /\ DOMAIN name2idx_' = DOMAIN name2idx_ \cup {stored}
        /\ name2idx_'[stored] = idx + 1
        /\ \A n \in DOMAIN name2idx_ : name2idx_'[n] = name2idx_[n]
        /\ idx \in Nat
    BY <1>5, <2>1 DEF Put, SymbolInv
  <2>3. /\ DOMAIN declaredIn' = 1 .. idx + 1
        /\ \A i \in 1 .. idx : declaredIn'[i] = declaredIn[i]
        /\ \A i \in idx + 1 .. idx' : declaredIn'[i] = Kind(Cfg)
    BY <1>1, <2>1, <2>2 DEF SymbolInv
  <2>4. SymbolInv'
    BY <2>1, <2>2, <2>3 DEF SymbolInv
  <2>5. InsertedWord(word) \in Int /\ -InsertedWord(word) = idx + 1 /\ idx + 1 \in 1 .. idx'
    BY <1>1, <2>1, <2>2
  <2>6. ~IsAnonymous(word) => /\ <<word[2], word[3]>> \in DOMAIN name2idx_'
                              /\ name2idx_'[<<word[2], word[3]>>] = idx + 1
    BY <1>2, <2>2 DEF IsAnonymous, name
  <2> QED  BY <2>1, <2>2, <2>3, <2>4, <2>5, <2>6
<1> QED  BY <1>4, <1>5

-----------------------------------------------------------------------------
(* The state of the parser.                                                 *)

Activation == [cfg : DOMAIN config.mapping, node : Nat, kid : Nat \ {0}]

CallsInv == calls \in Seq(Activation) /\ Len(calls) # 0

\* The sections before the mapping.
Earlier == {"levels", "connections", "dimensions", "ops", "instance"}

\* A node with loops is read factor by factor.
FactorsInv ==
  /\ step \in {"node", "end", "residual", "children"}
  /\ stage \in Earlier => step = "node"
  /\ step \in {"end", "residual"} =>
       /\ exists(Cfg, "factors") /\ Kind(Cfg) \in {"Tile", "Op"}
       /\ LevelLegal(Cfg) /\ exists(Cfg, "target")
       /\ factor \in 1 .. Len(Cfg.factors) + 1
       /\ step = "residual" => factor <= Len(Cfg.factors)
       /\ symbol_num \in 0 .. idx
  /\ IsFiniteSet(DOMAIN loop_bounds)

\* The ids of the loops are those of the problem's dimensions.
NumberedIn(loops, ids, dims) ==
  /\ IsList(loops)
  /\ DOMAIN ids = DOMAIN loops
  /\ \A i \in DOMAIN loops : /\ loops[i].dim \in ToSet(dims)
                             /\ ids[i] = IdIn(dims, loops[i].dim)

\* The fields of a node that add_child leaves alone, and those it assigns to.
NodeFields == {"kind", "target", "loops", "kids", "parent"}

NodesInv ==
  /\ IsList(nodes) /\ IsList(dimension) /\ IsList(origin)
  /\ Len(dimension) = Len(nodes) /\ Len(origin) = Len(nodes)
  /\ \A n \in DOMAIN nodes : /\ NodeFields \subseteq DOMAIN nodes[n]
                             /\ origin[n] \in DOMAIN config.mapping
                             /\ NumberedIn(nodes[n].loops, dimension[n], Dims)

StructInv == SymbolInv /\ CallsInv /\ FactorsInv /\ NodesInv

\* What a factor gives to a loop.
LoopValue(l) ==
  IF l.dim \in DOMAIN loop_bounds
  THEN l.end = loop_bounds[l.dim][1] /\ l.res = loop_bounds[l.dim][2]
  ELSE l.end = 0 /\ l.res = 0

\* A node as its constructor leaves it.
Fresh(node, ids) ==
  /\ node.kind = Kind(Cfg)
  /\ node.target = lookupValue(Cfg, "target", "")
  /\ exists(Cfg, "target") => node.target \in DOMAIN archTopoName2Idx_map_
  /\ node.kids = <<>> /\ node.parent = nullptr
  /\ NodeFields \subseteq DOMAIN node
  /\ NumberedIn(node.loops, ids, Dims)
  /\ \/ node.loops = <<>> /\ node.kind \notin {"Tile", "Op"}
     \/ /\ step = "end" /\ ~MoreFactors
        /\ \A i \in DOMAIN node.loops : LoopValue(node.loops[i])
        /\ node.kind = "Op" => symbol_num = idx

\* A function on 1 .. n is a list of length n.
LEMMA FunctionIsList ==
  ASSUME NEW n \in Nat, NEW s, s = [i \in 1 .. n |-> s[i]]
  PROVE  IsList(s) /\ Len(s) = n /\ DOMAIN s = 1 .. n
<1>1. \A i \in 1 .. n : s[i] \in ToSet(s)
  BY DEF ToSet
<1> QED  BY <1>1 DEF IsList

\* What ParseFactors matches.
FactorsFit(factors) ==
  /\ IsList(factors)
  /\ \A f \in DOMAIN factors :
       /\ DOMAIN factors[f] = 1 .. Len(factors[f])
       /\ Len(factors[f]) \in {2, 3}
       /\ \A p \in DOMAIN factors[f] \ {1} :
            LET word == factors[f][p]
            IN  /\ word = <<word[1], word[2], word[3]>>
                /\ IsNumber(word) => word[3] \in Nat

\* The lists of the mapping.
LEMMA MappingLists ==
  ASSUME Reading
  PROVE  /\ IsList(config.mapping) /\ 1 \in DOMAIN config.mapping
         /\ \A n \in DOMAIN config.mapping :
              LET cfg == config.mapping[n] IN
                /\ Subtree(cfg) \in Seq(DOMAIN config.mapping)
                /\ exists(cfg, "permutation") => IsList(cfg.permutation)
                /\ exists(cfg, "factors") => FactorsFit(cfg.factors)
<1>1. config \in Configs
  BY DEF Reading
<1>2. IsList(config.mapping) /\ config.mapping # <<>>
  BY <1>1, MappingAssumption
<1>3. 1 \in DOMAIN config.mapping
  <2>1. DOMAIN config.mapping = 1 .. Len(config.mapping) /\ Len(config.mapping) \in Nat
    BY <1>2, ListIs
  <2>2. Len(config.mapping) # 0
    BY <1>2 DEF IsList
  <2> QED  BY <2>1, <2>2
<1>4. ASSUME NEW n \in DOMAIN config.mapping
      PROVE  LET cfg == config.mapping[n] IN
               /\ Subtree(cfg) \in Seq(DOMAIN config.mapping)
               /\ exists(cfg, "permutation") => IsList(cfg.permutation)
               /\ exists(cfg, "factors") => FactorsFit(cfg.factors)
  BY <1>1, MappingAssumption DEF lookupValue, FactorsFit
<1> QED  BY <1>2, <1>3, <1>4

\* The activation on top, and the node it reads.
LEMMA TopCall ==
  ASSUME CallsInv
  PROVE  /\ Len(calls) \in Nat \ {0} /\ DOMAIN calls = 1 .. Len(calls)
         /\ Current = calls[Len(calls)] /\ Current \in Activation
         /\ Current.cfg \in DOMAIN config.mapping
         /\ Cfg = config.mapping[Current.cfg]
<1>1. calls \in Seq(Activation) /\ Len(calls) # 0
  BY DEF CallsInv
<1>2. /\ Len(calls) \in Nat \ {0} /\ DOMAIN calls = 1 .. Len(calls)
      /\ calls[Len(calls)] \in Activation
  BY <1>1
<1>3. Current = calls[Len(calls)]
  BY DEF Current, Last
<1>4. Current.cfg \in DOMAIN config.mapping
  BY <1>2, <1>3 DEF Activation
<1> QED  BY <1>1, <1>2, <1>3, <1>4 DEF Cfg

\* The factors of the node that is read.
LEMMA CfgFactors ==
  ASSUME Reading, CallsInv, exists(Cfg, "factors")
  PROVE  /\ FactorsFit(Cfg.factors)
         /\ Len(Cfg.factors) \in Nat /\ DOMAIN Cfg.factors = 1 .. Len(Cfg.factors)
<1>1. FactorsFit(Cfg.factors)
  BY TopCall, MappingLists
<1> QED  BY <1>1, ListIs DEF FactorsFit

\* The loops and their numbers are those of the dimensions of a list.
NestOver(loops, numbers, factors, ids, iters) ==
  /\ IsList(loops)
  /\ DOMAIN numbers = DOMAIN loops
  /\ \A i \in DOMAIN loops : \E d \in ToSet(iters) :
       loops[i] = Descriptor(factors, d) /\ numbers[i] = ids[d]

\* A loop nest has a loop for each element of the permutation.
LEMMA NestIs ==
  ASSUME NEW iters, IsList(iters), NEW factors, NEW ids
  PROVE  NestOver(LoopNest(factors, iters), Reverse([i \in DOMAIN iters |-> ids[iters[i]]]),
                  factors, ids, iters)
<1> DEFINE n == Len(iters)
           reversed(s) == [i \in 1 .. n |-> s[(n - i) + 1]]
           d(i) == Descriptor(factors, iters[i])
           a == [i \in DOMAIN iters |-> d(i)]
           b == [i \in DOMAIN iters |-> ids[iters[i]]]
<1>1. n \in Nat /\ DOMAIN iters = 1 .. n /\ \A i \in 1 .. n : iters[i] \in ToSet(iters)
  BY ListIs
<1>2. Len(a) = n /\ Len(b) = n
  <2> HIDE DEF d
  <2> QED  BY <1>1
<1>3. /\ LoopNest(factors, iters) = reversed(a)
      /\ Reverse(b) = reversed(b)
  <2>1. \A s : Reverse(s) = [i \in 1 .. Len(s) |-> s[(Len(s) - i) + 1]]
    BY DEF Reverse
  <2>2. LoopNest(factors, iters) = Reverse(a)
    BY DEF LoopNest
  <2> HIDE DEF a, b
  <2> QED  BY <1>2, <2>1, <2>2
<1>4. \A i \in 1 .. n : /\ (n - i) + 1 \in 1 .. n
                        /\ reversed(a)[i] = d((n - i) + 1)
                        /\ reversed(b)[i] = ids[iters[(n - i) + 1]]
  <2> HIDE DEF d
  <2> QED  BY <1>1
<1>5. reversed(a) = [i \in 1 .. n |-> reversed(a)[i]]
  OBVIOUS
<1>6. IsList(reversed(a))
  <2> HIDE DEF reversed
  <2> QED  BY <1>1, <1>5, FunctionIsList
<1>7. DOMAIN reversed(a) = 1 .. n /\ DOMAIN reversed(b) = 1 .. n
  OBVIOUS
<1>8. ASSUME NEW i \in 1 .. n
      PROVE  \E e \in ToSet(iters) : reversed(a)[i] = Descriptor(factors, e) /\ reversed(b)[i] = ids[e]
  <2>1. iters[(n - i) + 1] \in ToSet(iters)
    BY <1>1, <1>4
  <2>2. reversed(a)[i] = Descriptor(factors, iters[(n - i) + 1])
    BY <1>4
  <2>3. reversed(b)[i] = ids[iters[(n - i) + 1]]
    BY <1>4
  <2> HIDE DEF reversed, a, b, n
  <2> QED  BY <2>1, <2>2, <2>3
<1>9. LoopNest(factors, iters) = reversed(a) /\ Reverse([i \in DOMAIN iters |-> ids[iters[i]]]) = reversed(b)
  BY <1>3
<1> HIDE DEF reversed, a, b
<1> QED  BY <1>6, <1>7, <1>8, <1>9 DEF NestOver

\* What a loop is made of.
LEMMA DescriptorIs ==
  ASSUME NEW d
  PROVE  LET l == Descriptor(loop_bounds, d) IN l.dim = d /\ LoopValue(l)
<1>1. CASE d \in DOMAIN loop_bounds
  BY <1>1 DEF Descriptor, LoopValue
<1>2. CASE d \notin DOMAIN loop_bounds
  BY <1>2 DEF Descriptor, LoopValue
<1> QED  BY <1>1, <1>2

\* The permutation of a node is a list.
LEMMA IterationsAreLists ==
  ASSUME Reading, StructInv, NEW iters \in Iterations(Cfg)
  PROVE  IsList(iters)
<1>1. CASE exists(Cfg, "permutation")
  <2>1. iters = Cfg.permutation
    BY <1>1 DEF Iterations
  <2>2. CallsInv
    BY DEF StructInv
  <2> QED  BY <1>1, <2>1, <2>2, TopCall, MappingLists
<1>2. CASE ~exists(Cfg, "permutation")
  <2>1. iters \in SetToSeqs(DOMAIN loop_bounds)
    BY <1>2 DEF Iterations
  <2>2. iters \in [1 .. Cardinality(DOMAIN loop_bounds) -> DOMAIN loop_bounds]
    BY <2>1 DEF SetToSeqs
  <2>3. Cardinality(DOMAIN loop_bounds) \in Nat
    BY FS_CardinalityType DEF StructInv, FactorsInv
  <2>4. iters = [i \in 1 .. Cardinality(DOMAIN loop_bounds) |-> iters[i]]
    BY <2>2
  <2> QED  BY <2>3, <2>4, FunctionIsList
<1> QED  BY <1>1, <1>2

\* A constructor that comes to its end leaves a node as its entry describes it.
LEMMA NewNode ==
  ASSUME ProblemInv, StructInv, stage = "mapping", LooplessNode \/ (FinishNode /\ stage' = "mapping")
  PROVE  /\ \E node, ids : Constructed(node, ids) /\ Fresh(node, ids)
         /\ UNCHANGED <<stage, next, factor, end, loop_bounds, symbol_num, declaredIn, symbolVars>>
<1> DEFINE target == lookupValue(Cfg, "target", "")
<1>1. CASE LooplessNode
  <2>1. /\ NodeLegal(Cfg) /\ Kind(Cfg) \in {"Scope", "Trans"}
        /\ UNCHANGED <<stage, next, factor, end, loop_bounds, symbol_num, declaredIn, symbolVars>>
    BY <1>1 DEF LooplessNode
  <2>2. LevelLegal(Cfg)
    BY <2>1 DEF NodeLegal
  <2>3. exists(Cfg, "target") => target = Cfg.target /\ target \in DOMAIN archTopoName2Idx_map_
    BY <2>2 DEF LevelLegal, lookupValue
  <2>4. ASSUME NEW node, node.kind = Kind(Cfg), node.target = target, node.kids = <<>>,
               node.parent = nullptr, NodeFields \subseteq DOMAIN node,
               node.loops = <<>>
        PROVE  Fresh(node, <<>>)
    <3>1. IsList(<<>>) /\ DOMAIN <<>> = {}
      BY DEF IsList
    <3>2. NumberedIn(node.loops, <<>>, Dims)
      BY <2>4, <3>1 DEF NumberedIn
    <3> HIDE DEF target
    <3> QED  BY <2>1, <2>3, <2>4, <3>2 DEF Fresh, target
  <2>5. CASE Kind(Cfg) = "Scope"
    <3>1. PICK type : Constructed(ScopeNode(type, target, <<>>), <<>>)
      BY <1>1, <2>5 DEF LooplessNode
    <3> DEFINE node == ScopeNode(type, target, <<>>)
    <3>2. /\ node.kind = "Scope" /\ node.target = target /\ node.kids = <<>>
          /\ node.parent = nullptr /\ NodeFields \subseteq DOMAIN node
          /\ node.loops = <<>>
      <4> HIDE DEF target
      <4> QED  BY DEF ScopeNode, NodeFields
    <3> HIDE DEF node, target
    <3>3. Fresh(node, <<>>)
      BY <2>4, <2>5, <3>2
    <3> QED  BY <2>1, <3>1, <3>3 DEF node
  <2>6. CASE Kind(Cfg) = "Trans"
    <3>1. exists(Cfg, "target") /\ target = Cfg.target
      BY <2>2, <2>6 DEF LevelLegal, lookupValue
    <3>2. PICK mode : Constructed(TransNode(target, mode), <<>>)
      BY <1>1, <2>6, <3>1 DEF LooplessNode
    <3> DEFINE node == TransNode(target, mode)
    <3>3. /\ node.kind = "Trans" /\ node.target = target /\ node.kids = <<>>
          /\ node.parent = nullptr /\ NodeFields \subseteq DOMAIN node
          /\ node.loops = <<>>
      <4> HIDE DEF target
      <4> QED  BY DEF TransNode, NodeFields
    <3> HIDE DEF node, target
    <3>4. Fresh(node, <<>>)
      BY <2>4, <2>6, <3>3
    <3> QED  BY <2>1, <3>2, <3>4 DEF node
  <2> QED  BY <2>1, <2>5, <2>6
<1>2. CASE FinishNode /\ stage' = "mapping"
  <2>1. PICK iters \in Iterations(Cfg) :
          /\ LoopsLegal(Cfg, iters)
          /\ Constructed(WithLoops(Cfg, iters),
                         Reverse([i \in DOMAIN iters |-> CurrentDims[iters[i]]]))
          /\ UNCHANGED <<stage, next>>
    BY <1>2 DEF FinishNode, Exit, Abort
  <2>2. /\ step = "end" /\ ~MoreFactors
        /\ UNCHANGED <<factor, end, loop_bounds, symbol_num, declaredIn, symbolVars>>
    BY <1>2 DEF FinishNode, InMapping
  <2>3. /\ LevelLegal(Cfg) /\ exists(Cfg, "target") /\ Kind(Cfg) \in {"Tile", "Op"}
    BY <2>2 DEF StructInv, FactorsInv
  <2>4. target = Cfg.target /\ target \in DOMAIN archTopoName2Idx_map_
    BY <2>3 DEF LevelLegal, lookupValue
  <2> DEFINE node == WithLoops(Cfg, iters)
             ids == Reverse([i \in DOMAIN iters |-> CurrentDims[iters[i]]])
  <2>5. /\ node.kind = Kind(Cfg) /\ node.target = target /\ node.kids = <<>>
        /\ node.parent = nullptr /\ NodeFields \subseteq DOMAIN node
        /\ node.loops = LoopNest(loop_bounds, iters)
    <3> HIDE DEF target
    <3>1. CASE Kind(Cfg) = "Op"
      BY <2>4, <3>1 DEF WithLoops, OpNode, NodeFields
    <3>2. CASE Kind(Cfg) = "Tile"
      BY <2>4, <3>2 DEF WithLoops, TileNode, NodeFields
    <3> QED  BY <2>3, <3>1, <3>2
  <2>6. IsList(iters)
    BY IterationsAreLists DEF ProblemInv
  <2>7. CurrentDims = [d \in ToSet(Dims) |-> IdIn(Dims, d)]
    BY DEF ProblemInv, ShapeIsCommon, DimsNumbered, InProblem, CurrentDims, CommonShape
  <2>8. ToSet(iters) \subseteq ToSet(Dims) /\ (Kind(Cfg) = "Op" => symbol_num = idx)
    <3>1. DOMAIN CurrentDims = ToSet(Dims)
      BY <2>7
    <3> QED  BY <2>1, <3>1 DEF LoopsLegal
  <2>9. /\ IsList(node.loops) /\ DOMAIN ids = DOMAIN node.loops
        /\ \A i \in DOMAIN node.loops : \E d \in ToSet(iters) :
             node.loops[i] = Descriptor(loop_bounds, d) /\ ids[i] = CurrentDims[d]
    <3>1. NestOver(LoopNest(loop_bounds, iters), ids, loop_bounds, CurrentDims, iters)
      BY <2>6, NestIs
    <3> HIDE DEF node, ids
    <3> QED  BY <2>5, <3>1 DEF NestOver
  <2> HIDE DEF node, ids, target
  <2>10. \A i \in DOMAIN node.loops :
           /\ node.loops[i].dim \in ToSet(Dims)
           /\ ids[i] = IdIn(Dims, node.loops[i].dim)
           /\ LoopValue(node.loops[i])
    <3> SUFFICES ASSUME NEW i \in DOMAIN node.loops
                 PROVE  /\ node.loops[i].dim \in ToSet(Dims)
                        /\ ids[i] = IdIn(Dims, node.loops[i].dim)
                        /\ LoopValue(node.loops[i])
      OBVIOUS
    <3>1. PICK d \in ToSet(iters) :
            node.loops[i] = Descriptor(loop_bounds, d) /\ ids[i] = CurrentDims[d]
      BY <2>9
    <3>2. node.loops[i].dim = d /\ LoopValue(node.loops[i])
      BY <3>1, DescriptorIs
    <3> QED  BY <2>7, <2>8, <3>1, <3>2
  <2>11. NumberedIn(node.loops, ids, Dims)
    BY <2>9, <2>10 DEF NumberedIn
  <2>12. Fresh(node, ids)
    BY <2>2, <2>3, <2>4, <2>5, <2>8, <2>10, <2>11 DEF Fresh, target
  <2> QED  BY <2>1, <2>2, <2>12 DEF node, ids
<1> QED  BY <1>1, <1>2

-----------------------------------------------------------------------------
(* The steps, as the parser of the mapping takes part in them.              *)

\* A node is constructed.
Build ==
  /\ \E node, ids : Constructed(node, ids) /\ Fresh(node, ids)
  /\ step \in {"node", "end"}
  /\ UNCHANGED <<stage, next, factor, end, loop_bounds, symbol_num, declaredIn, symbolVars>>

\* A finished node is hung under the node of the activation below.
Up ==
  /\ step = "children" /\ ~MoreChildren /\ Len(calls) > 1
  /\ LET under == Len(calls) - 1 IN
       /\ nodes' = add_child(calls[under].node, Current.node)
       /\ calls' \in Seq(Activation) /\ Len(calls') = under
       /\ \A i \in 1 .. under - 1 : calls'[i] = calls[i]
       /\ calls'[under] = Call(calls[under].cfg, calls[under].node, calls[under].kid + 1)
  /\ UNCHANGED <<stage, next, step, dimension, factor, end, loop_bounds, symbol_num,
                 origin, declaredIn, symbolVars>>

\* The parser stands still.
Rest ==
  /\ UNCHANGED mappingVars
  /\ stage' \in Earlier => stage \in Earlier
  /\ stage \in Earlier \/ UNCHANGED archVars
  /\ stage' = "mapping" => stage \in Earlier \cup {"mapping"}
  /\ stage' = "loaded" => \/ stage = "loaded"
                          \/ stage = "mapping" /\ step = "children" /\ ~MoreChildren
                             /\ Len(calls) = 1

\* The parser goes on.
Work ==
  /\ stage = "mapping" /\ stage' = "mapping"
  /\ UNCHANGED archVars
  /\ BeginNode \/ Build \/ ParseEnd \/ ParseResidual \/ ParseChild \/ Up

\* The list of activations without the topmost one.
LEMMA CallsUnder ==
  ASSUME CallsInv
  PROVE  LET under == Front(calls) IN
           /\ under \in Seq(Activation)
           /\ Len(under) = Len(calls) - 1
           /\ \A i \in 1 .. Len(calls) - 1 : under[i] = calls[i]
<1>1. calls \in Seq(Activation) /\ Len(calls) # 0
  BY DEF CallsInv
<1>2. Front(calls) = SubSeq(calls, 1, Len(calls) - 1)
  BY DEF Front
<1>3. /\ Len(calls) - 1 \in Nat
      /\ \A i \in 1 .. Len(calls) - 1 : calls[i] \in Activation
  BY <1>1
<1>4. /\ Front(calls) \in Seq(Activation)
      /\ Len(Front(calls)) = IF 1 <= Len(calls) - 1 THEN Len(calls) - 1 - 1 + 1 ELSE 0
      /\ \A i \in 1 .. Len(calls) - 1 - 1 + 1 : Front(calls)[i] = calls[1 + i - 1]
  BY <1>2, <1>3, SubSeqProperties
<1>5. Len(calls) - 1 - 1 + 1 = Len(calls) - 1 /\ \A i \in 1 .. Len(calls) - 1 : 1 + i - 1 = i
  BY <1>3
<1>6. Len(Front(calls)) = Len(calls) - 1
  <2>1. \A n \in Nat : (IF 1 <= n THEN n - 1 + 1 ELSE 0) = n
    OBVIOUS
  <2> QED  BY <1>3, <1>4, <2>1
<1>7. \A i \in 1 .. Len(calls) - 1 : Front(calls)[i] = calls[i]
  BY <1>4, <1>5
<1> QED  BY <1>4, <1>6, <1>7

\* Return is Up, or the end of the program's reading.
LEMMA ReturnIs ==
  ASSUME StructInv, Return, UNCHANGED <<config, archVars>>
  PROVE  Rest \/ (stage' = "mapping" /\ Up)
<1> DEFINE under == Front(calls)
<1>1. /\ stage = "mapping" /\ step = "children" /\ ~MoreChildren
      /\ UNCHANGED <<step, dimension, factor, end, loop_bounds, symbol_num,
                     origin, declaredIn, symbolVars>>
  BY DEF Return, InMapping
<1>2. /\ under \in Seq(Activation)
      /\ Len(under) = Len(calls) - 1
      /\ \A i \in 1 .. Len(calls) - 1 : under[i] = calls[i]
      /\ Len(calls) \in Nat \ {0}
  BY CallsUnder, TopCall DEF StructInv
<1>3. CASE under = <<>>
  <2>1. Turn("loaded") /\ UNCHANGED <<nodes, calls>>
    BY <1>3 DEF Return
  <2>2. Len(calls) = 1
    BY <1>2, <1>3
  <2>3. UNCHANGED mappingVars /\ stage' = "loaded"
    BY <1>1, <2>1 DEF mappingVars, parserVars, symbolVars, Turn
  <2>4. UNCHANGED archVars
    OBVIOUS
  <2> QED  BY <1>1, <2>2, <2>3, <2>4 DEF Rest, Earlier
<1>4. CASE under # <<>>
  <2>1. /\ nodes' = add_child(Last(under).node, Current.node)
        /\ calls' = [under EXCEPT ![Len(under)] = Call(@.cfg, @.node, @.kid + 1)]
        /\ UNCHANGED <<stage, next>>
    BY <1>4 DEF Return
  <2>2. Len(under) \in Nat \ {0} /\ Len(under) = Len(calls) - 1 /\ Len(calls) > 1
    <3> HIDE DEF under
    <3> QED  BY <1>2, <1>4
  <2>3. Last(under) = calls[Len(calls) - 1] /\ under[Len(under)] = calls[Len(calls) - 1]
    BY <1>2, <2>2 DEF Last
  <2> DEFINE a == under[Len(under)]
             b == Call(a.cfg, a.node, a.kid + 1)
  <2>4. b \in Activation
    <3>1. a \in Activation
      <4> HIDE DEF under
      <4> QED  BY <1>2, <2>2
    <3> HIDE DEF a
    <3> QED  BY <3>1 DEF Activation, Call
  <2>5. calls' = [under EXCEPT ![Len(under)] = b]
    BY <2>1
  <2>6. /\ calls' \in Seq(Activation) /\ Len(calls') = Len(calls) - 1
        /\ \A i \in 1 .. Len(calls) - 2 : calls'[i] = calls[i]
        /\ calls'[Len(calls) - 1] = b
    <3> HIDE DEF under, b
    <3> QED  BY <1>2, <2>2, <2>4, <2>5
  <2> HIDE DEF under
  <2> QED  BY <1>1, <2>1, <2>2, <2>3, <2>6 DEF Up
<1> QED  BY <1>3, <1>4

\* Every step is one of these.
LEMMA StepIs ==
  ASSUME ProblemInv, StructInv, [Next]_vars
  PROVE  config' = config /\ (Rest \/ Work)
<1>1. next \in Nat \ {0}
  BY DEF ProblemInv, Reading
<1>2. CASE UNCHANGED vars \/ Stop
  <2>1. UNCHANGED vars
    BY <1>2 DEF Stop
  <2>2. UNCHANGED mappingVars /\ UNCHANGED archVars /\ UNCHANGED <<config, stage>>
    BY <2>1 DEF vars
  <2> QED  BY <2>2 DEF Rest
<1>3. CASE ParseArchitecture
  <2>1. ArchNext /\ config' = config /\ UNCHANGED mappingVars
    BY <1>3 DEF ParseArchitecture
  <2>2. /\ stage \in {"levels", "connections"}
        /\ stage' \in {"levels", "connections", "dimensions", Abort, Undefined}
    BY <1>1, <2>1, ArchStages
  <2> QED  BY <2>1, <2>2 DEF Rest, Earlier, Abort, Undefined
<1>4. CASE ParseWorkloads
  <2>1. ProblemNext /\ config' = config /\ UNCHANGED mappingVars
    BY <1>4 DEF ParseWorkloads
  <2>2. /\ stage \in {"dimensions", "ops", "instance"}
        /\ stage' \in {"ops", "instance", "mapping", Abort}
    BY <1>1, <2>1, ProblemStages
  <2> QED  BY <2>1, <2>2 DEF Rest, Earlier, Abort
<1>5. CASE ParseMapping
  <2>1. MappingNext /\ config' = config /\ UNCHANGED archVars
    BY <1>5 DEF ParseMapping
  <2>2. stage = "mapping" /\ stage' \in {"mapping", "loaded", Abort}
    BY <1>1, <2>1, MappingStages
  <2>3. CASE RefuseNode \/ RefuseResidual
    <3>1. stage' = Abort /\ UNCHANGED mappingVars
      BY <2>3 DEF RefuseNode, RefuseResidual, Exit
    <3> QED  BY <2>1, <2>2, <3>1 DEF Rest, Earlier, Abort
  <2>4. CASE BeginNode \/ ParseEnd \/ ParseResidual \/ ParseChild
    <3>1. stage' = stage
      BY <2>4 DEF BeginNode, ParseEnd, ParseResidual, ParseChild, Bound
    <3> QED  BY <2>1, <2>2, <2>4, <3>1 DEF Work
  <2>5. CASE LooplessNode
    <3>1. Build /\ stage' = stage
      BY <2>2, <2>5, NewNode DEF Build, LooplessNode, InMapping
    <3> QED  BY <2>1, <2>2, <3>1 DEF Work
  <2>6. CASE FinishNode
    <3>1. CASE stage' = "mapping"
      <4>1. Build
        BY <2>2, <2>6, <3>1, NewNode DEF Build, FinishNode, InMapping
      <4> QED  BY <2>1, <2>2, <3>1, <4>1 DEF Work
    <3>2. CASE stage' # "mapping"
      <4>1. PICK iters \in Iterations(Cfg) :
              Exit(Abort) /\ UNCHANGED <<nodes, dimension, calls, step, origin>>
        BY <2>2, <2>6, <3>2 DEF FinishNode
      <4>2. UNCHANGED mappingVars /\ stage' = Abort
        BY <2>6, <4>1 DEF FinishNode, mappingVars, parserVars, Exit
      <4> QED  BY <2>1, <2>2, <4>2 DEF Rest, Earlier, Abort
    <3> QED  BY <3>1, <3>2
  <2>7. CASE Return
    BY <2>1, <2>2, <2>7, ReturnIs DEF Work
  <2> QED  BY <2>1, <2>3, <2>4, <2>5, <2>6, <2>7 DEF MappingNext
<1> QED  BY <1>2, <1>3, <1>4, <1>5 DEF Next, Parse

\* What add_child does to a node.
LEMMA FieldsKept ==
  ASSUME NEW node, NodeFields \subseteq DOMAIN node, NEW n
  PROVE  LET a == push_child(node, n)
             b == set_parent(node, n)
         IN  /\ NodeFields \subseteq DOMAIN a /\ NodeFields \subseteq DOMAIN b
             /\ \A f \in {"kind", "target", "loops"} : a[f] = node[f] /\ b[f] = node[f]
             /\ a.kids = Append(node.kids, n) /\ a.parent = node.parent
             /\ b.kids = node.kids /\ b.parent = n
BY DEF push_child, set_parent, NodeFields

\* add_child leaves what the nodes are, and the links of the other nodes.
LEMMA LinkIs ==
  ASSUME IsList(nodes), \A n \in DOMAIN nodes : NodeFields \subseteq DOMAIN nodes[n],
         NEW p, NEW c, nodes' = add_child(p, c)
  PROVE  /\ IsList(nodes') /\ DOMAIN nodes' = DOMAIN nodes /\ Len(nodes') = Len(nodes)
         /\ \A n \in DOMAIN nodes :
              /\ NodeFields \subseteq DOMAIN nodes'[n]
              /\ \A f \in {"kind", "target", "loops"} : nodes'[n][f] = nodes[n][f]
              /\ n \notin {p, c} => nodes'[n] = nodes[n]
              /\ n = p /\ n # c => /\ nodes'[n].kids = Append(nodes[n].kids, c)
                                   /\ nodes'[n].parent = nodes[n].parent
              /\ n = c /\ n # p => nodes'[n].kids = nodes[n].kids /\ nodes'[n].parent = p
<1>1. Len(nodes) \in Nat /\ DOMAIN nodes = 1 .. Len(nodes)
  BY ListIs
<1> DEFINE pushed == [nodes EXCEPT ![p] = push_child(nodes[p], c)]
<1>2. nodes' = [pushed EXCEPT ![c] = set_parent(pushed[c], p)]
  BY DEF add_child
<1>3. /\ DOMAIN pushed = DOMAIN nodes
      /\ \A n \in DOMAIN nodes : pushed[n] = IF n = p THEN push_child(nodes[p], c) ELSE nodes[n]
  OBVIOUS
<1> HIDE DEF pushed
<1>4. /\ DOMAIN nodes' = DOMAIN nodes
      /\ nodes' = [n \in 1 .. Len(nodes) |-> nodes'[n]]
      /\ \A n \in DOMAIN nodes : nodes'[n] = IF n = c THEN set_parent(pushed[c], p) ELSE pushed[n]
  <2>1. nodes' = [n \in DOMAIN pushed |-> IF n = c THEN set_parent(pushed[c], p) ELSE pushed[n]]
    BY <1>2
  <2> QED  BY <1>1, <1>3, <2>1
<1>5. IsList(nodes') /\ Len(nodes') = Len(nodes)
  BY <1>1, <1>4, FunctionIsList
<1>6. ASSUME NEW n \in DOMAIN nodes
      PROVE  /\ NodeFields \subseteq DOMAIN nodes'[n]
             /\ \A f \in {"kind", "target", "loops"} : nodes'[n][f] = nodes[n][f]
             /\ n \notin {p, c} => nodes'[n] = nodes[n]
             /\ n = p /\ n # c => /\ nodes'[n].kids = Append(nodes[n].kids, c)
                                  /\ nodes'[n].parent = nodes[n].parent
             /\ n = c /\ n # p => nodes'[n].kids = nodes[n].kids /\ nodes'[n].parent = p
  <2>1. NodeFields \subseteq DOMAIN nodes[n]
    OBVIOUS
  <2>2. CASE n # p /\ n # c
    BY <1>3, <1>4, <2>1, <2>2
  <2>3. CASE n = p /\ n # c
    <3>1. nodes'[n] = push_child(nodes[n], c)
      BY <1>3, <1>4, <2>3
    <3> QED  BY <2>1, <2>3, <3>1, FieldsKept
  <2>4. CASE n # p /\ n = c
    <3>1. nodes'[n] = set_parent(nodes[n], p)
      BY <1>3, <1>4, <2>4
    <3> QED  BY <2>1, <2>4, <3>1, FieldsKept
  <2>5. CASE n = p /\ n = c
    <3>1. nodes'[n] = set_parent(push_child(nodes[n], c), p)
      BY <1>3, <1>4, <2>5
    <3> DEFINE a == push_child(nodes[n], c)
    <3>2. NodeFields \subseteq DOMAIN a /\ \A f \in {"kind", "target", "loops"} : a[f] = nodes[n][f]
      BY <2>1, FieldsKept
    <3> HIDE DEF a
    <3>3. LET b == set_parent(a, p) IN
            NodeFields \subseteq DOMAIN b /\ \A f \in {"kind", "target", "loops"} : b[f] = a[f]
      BY <3>2, FieldsKept
    <3> QED  BY <2>5, <3>1, <3>2, <3>3 DEF a
  <2> QED  BY <2>2, <2>3, <2>4, <2>5
<1> QED  BY <1>4, <1>5, <1>6

\* A step keeps the activations as they should be.
LEMMA CallsStep ==
  ASSUME Reading, CallsInv, FactorsInv, NodesInv, config' = config, Rest \/ Work
  PROVE  CallsInv'
<1>1. Activation' = Activation
  BY DEF Activation
<1>2. calls \in Seq(Activation) /\ Len(calls) \in Nat \ {0} /\ Current \in Activation
  BY TopCall DEF CallsInv
<1>3. SUFFICES calls' \in Seq(Activation) /\ Len(calls') # 0
  BY <1>1 DEF CallsInv
<1> DEFINE new(a) == [calls EXCEPT ![Len(calls)] = a]
<1>4. CASE UNCHANGED calls
  BY <1>2, <1>4
<1>5. CASE Build
  <2> DEFINE a == Call(Current.cfg, Len(nodes) + 1, 1)
  <2>1. a \in Activation
    <3>1. Len(nodes) + 1 \in Nat
      BY ListIs DEF NodesInv
    <3>2. Current.cfg \in DOMAIN config.mapping
      BY TopCall
    <3> QED  BY <3>1, <3>2 DEF Activation, Call
  <2>2. calls' = new(a)
    BY <1>5 DEF Build, Constructed
  <2> HIDE DEF a
  <2> QED  BY <1>2, <2>1, <2>2
<1>6. CASE ParseChild
  <2> DEFINE a == Call(Subtree(Cfg)[Current.kid], nullptr, 1)
  <2>1. calls' = Append(calls, a) /\ MoreChildren
    BY <1>6 DEF ParseChild
  <2>2. Subtree(Cfg)[Current.kid] \in DOMAIN config.mapping
    <3>1. Subtree(Cfg) \in Seq(DOMAIN config.mapping)
      BY TopCall, MappingLists
    <3>2. Current.kid \in Nat \ {0}
      BY <1>2 DEF Activation
    <3> QED  BY <2>1, <3>1, <3>2 DEF MoreChildren
  <2>3. a \in Activation
    BY <2>2 DEF Activation, Call, nullptr
  <2> HIDE DEF a
  <2> QED  BY <1>2, <2>1, <2>3
<1>7. CASE Up
  <2>1. calls' \in Seq(Activation) /\ Len(calls') = Len(calls) - 1 /\ Len(calls) > 1
    BY <1>7 DEF Up
  <2> QED  BY <1>2, <2>1, SMTT(30)
<1>8. BeginNode \/ ParseEnd \/ ParseResidual \/ Rest => UNCHANGED calls
  BY DEF BeginNode, ParseEnd, ParseResidual, Rest, mappingVars, parserVars
<1> QED  BY <1>4, <1>5, <1>6, <1>7, <1>8 DEF Work

\* A step keeps what is known of the nodes.
LEMMA NodesStep ==
  ASSUME Reading, CallsInv, NodesInv, config' = config, Rest \/ Work
  PROVE  NodesInv'
<1>1. Dims' = Dims
  BY DEF Dims
<1>2. CASE UNCHANGED <<nodes, dimension, origin>>
  BY <1>1, <1>2 DEF NodesInv
<1>3. CASE Build
  <2>1. PICK node, ids : Constructed(node, ids) /\ Fresh(node, ids)
    BY <1>3 DEF Build
  <2> DEFINE n == Len(nodes)
  <2>2. /\ nodes' = Append(nodes, node)
        /\ dimension' = Append(dimension, ids)
        /\ origin' = Append(origin, Current.cfg)
    BY <2>1 DEF Constructed
  <2>3. /\ IsList(nodes) /\ IsList(dimension) /\ IsList(origin)
        /\ Len(dimension) = n /\ Len(origin) = n
        /\ n \in Nat /\ DOMAIN nodes = 1 .. n
    BY ListIs DEF NodesInv
  <2>4. /\ IsList(nodes') /\ IsList(dimension') /\ IsList(origin')
    BY <2>2, <2>3, AppendList
  <2>5. /\ Len(nodes') = n + 1 /\ Len(dimension') = n + 1 /\ Len(origin') = n + 1
        /\ nodes'[n + 1] = node /\ dimension'[n + 1] = ids /\ origin'[n + 1] = Current.cfg
        /\ \A i \in 1 .. n : /\ nodes'[i] = nodes[i] /\ dimension'[i] = dimension[i]
                             /\ origin'[i] = origin[i]
    BY <2>2, <2>3 DEF IsList
  <2>6. DOMAIN nodes' = 1 .. n + 1
    BY <2>4, <2>5, ListIs
  <2>7. /\ NodeFields \subseteq DOMAIN node /\ NumberedIn(node.loops, ids, Dims)
        /\ Current.cfg \in DOMAIN config.mapping
    BY <2>1, TopCall DEF Fresh
  <2>8. ASSUME NEW i \in 1 .. n + 1
        PROVE  /\ NodeFields \subseteq DOMAIN nodes'[i]
               /\ origin'[i] \in DOMAIN config.mapping
               /\ NumberedIn(nodes'[i].loops, dimension'[i], Dims)
    <3>1. CASE i = n + 1
      BY <2>5, <2>7, <3>1
    <3>2. CASE i \in 1 .. n
      BY <2>3, <2>5, <3>2 DEF NodesInv
    <3> QED  BY <2>3, <3>1, <3>2
  <2> HIDE DEF n
  <2> QED  BY <1>1, <2>4, <2>5, <2>6, <2>8 DEF NodesInv
<1>4. CASE Up
  <2>1. PICK p, c : nodes' = add_child(p, c)
    BY <1>4 DEF Up
  <2>2. UNCHANGED <<dimension, origin>>
    BY <1>4 DEF Up
  <2>3. IsList(nodes) /\ \A n \in DOMAIN nodes : NodeFields \subseteq DOMAIN nodes[n]
    BY DEF NodesInv
  <2>4. /\ IsList(nodes') /\ DOMAIN nodes' = DOMAIN nodes /\ Len(nodes') = Len(nodes)
        /\ \A n \in DOMAIN nodes : /\ NodeFields \subseteq DOMAIN nodes'[n]
                                   /\ nodes'[n].loops = nodes[n].loops
    BY <2>1, <2>3, LinkIs
  <2> QED  BY <1>1, <2>2, <2>4 DEF NodesInv
<1>5. BeginNode \/ ParseEnd \/ ParseResidual \/ ParseChild \/ Rest
        => UNCHANGED <<nodes, dimension, origin>>
  BY DEF BeginNode, ParseEnd, ParseResidual, ParseChild, Rest, mappingVars, parserVars
<1> QED  BY <1>2, <1>3, <1>4, <1>5 DEF Work

\* A step keeps the symbol table in order.
LEMMA SymbolStep ==
  ASSUME SymbolInv, Rest \/ Work
  PROVE  SymbolInv' /\ idx' \in {idx, idx + 1}
<1>1. CASE UNCHANGED <<symbolVars, declaredIn>>
  BY <1>1 DEF SymbolInv, symbolVars
<1>2. CASE \E word : InsertWord(word)
  BY <1>2, InsertIs
<1>3. CASE BeginNode \/ Build \/ ParseChild \/ Up \/ Rest
  BY <1>1, <1>3 DEF BeginNode, Build, ParseChild, Up, Rest, mappingVars, parserVars
<1>4. CASE ParseEnd
  BY <1>1, <1>2, <1>4 DEF ParseEnd, ReadEnd
<1>5. CASE ParseResidual
  BY <1>1, <1>2, <1>5 DEF ParseResidual
<1> QED  BY <1>3, <1>4, <1>5 DEF Work

\* A step keeps what is known of the factors.
LEMMA FactorsStep ==
  ASSUME Reading, StructInv, config' = config, Rest \/ Work
  PROVE  FactorsInv'
<1>1. SymbolInv' /\ idx' \in {idx, idx + 1} /\ idx \in Nat
  BY SymbolStep DEF StructInv, SymbolInv
<1>2. exists(Cfg, "factors") => Len(Cfg.factors) \in Nat
  BY TopCall, MappingLists, ListIs DEF StructInv, FactorsFit
<1>3. /\ FactorsInv
  BY DEF StructInv
<1>4. UNCHANGED calls => Cfg' = Cfg
  BY DEF Cfg, Current, Last
<1>5. CASE Rest
  <2>1. /\ UNCHANGED <<calls, step, factor, symbol_num, idx, loop_bounds>>
        /\ stage' \in Earlier => stage \in Earlier
        /\ stage \in Earlier \/ UNCHANGED archTopoName2Idx_map_
    BY <1>5 DEF Rest, mappingVars, parserVars, symbolVars, archVars
  <2>2. CASE stage \in Earlier
    BY <1>3, <2>1, <2>2 DEF FactorsInv
  <2>3. CASE stage \notin Earlier
    <3>1. LevelLegal(Cfg)' = LevelLegal(Cfg)
      BY <1>4, <2>1, <2>3 DEF LevelLegal
    <3> QED  BY <1>3, <1>4, <2>1, <2>3, <3>1 DEF FactorsInv
  <2> QED  BY <2>2, <2>3
<1>6. CASE Work /\ UNCHANGED calls
  <2>1. /\ stage' \notin Earlier /\ Cfg' = Cfg
        /\ LevelLegal(Cfg)' = LevelLegal(Cfg)
    BY <1>4, <1>6 DEF Work, archVars, LevelLegal, Earlier
  <2>2. CASE BeginNode
    <3>1. /\ NodeLegal(Cfg) /\ HasLoops(Cfg)
          /\ step' = "end" /\ factor' = 1 /\ loop_bounds' = <<>> /\ symbol_num' = idx /\ idx' = idx
      BY <2>2 DEF BeginNode, symbolVars
    <3>2. /\ LevelLegal(Cfg) /\ Kind(Cfg) \in {"Tile", "Op"}
          /\ exists(Cfg, "factors") /\ exists(Cfg, "target")
      BY <3>1 DEF NodeLegal, LevelLegal, HasLoops
    <3>3. IsFiniteSet(DOMAIN loop_bounds')
      <4>1. DOMAIN loop_bounds' = {}
        BY <3>1
      <4> QED  BY <4>1, FS_EmptySet
    <3>4. 1 \in 1 .. Len(Cfg.factors) + 1 /\ idx \in 0 .. idx
      BY <1>1, <1>2, <3>2
    <3> QED  BY <2>1, <3>1, <3>2, <3>3, <3>4 DEF FactorsInv
  <2>3. CASE ParseEnd
    <3>1. /\ step = "end" /\ MoreFactors /\ step' = "residual"
          /\ UNCHANGED <<factor, loop_bounds, symbol_num>>
      BY <2>3 DEF ParseEnd, InMapping
    <3>2. symbol_num \in 0 .. idx'
      BY <1>1, <1>3, <3>1 DEF FactorsInv
    <3> QED  BY <1>3, <2>1, <3>1, <3>2 DEF FactorsInv, MoreFactors
  <2>4. CASE ParseResidual
    <3>1. PICK residual : Bound(residual)
      BY <2>4 DEF ParseResidual
    <3>2. /\ step = "residual" /\ step' = "end" /\ factor' = factor + 1
          /\ loop_bounds' = Put(loop_bounds, Match[1], <<end, residual>>)
          /\ UNCHANGED symbol_num
      BY <2>4, <3>1 DEF ParseResidual, Bound, InMapping
    <3>3. symbol_num \in 0 .. idx'
      BY <1>1, <1>3, <3>2 DEF FactorsInv
    <3>4. IsFiniteSet(DOMAIN loop_bounds')
      <4>1. DOMAIN loop_bounds' = DOMAIN loop_bounds \cup {Match[1]}
        BY <3>2 DEF Put
      <4> QED  BY <1>3, <4>1, FS_AddElement DEF FactorsInv
    <3>5. factor' \in 1 .. Len(Cfg.factors) + 1
      BY <1>2, <1>3, <3>2 DEF FactorsInv
    <3> QED  BY <1>3, <2>1, <3>2, <3>3, <3>4, <3>5 DEF FactorsInv
  <2>5. CASE Build \/ ParseChild \/ Up
    <3>1. step' \in {"node", "children"} /\ UNCHANGED loop_bounds
      BY <2>5 DEF Build, Constructed, ParseChild, Up
    <3> QED  BY <1>3, <2>1, <3>1 DEF FactorsInv
  <2> QED  BY <1>6, <2>2, <2>3, <2>4, <2>5 DEF Work
<1>7. CASE Work /\ ~UNCHANGED calls
  <2>1. Build \/ ParseChild \/ Up
    BY <1>7 DEF Work, BeginNode, ParseEnd, ParseResidual
  <2>2. step' \in {"node", "children"} /\ UNCHANGED loop_bounds /\ stage' \notin Earlier
    BY <1>7, <2>1 DEF Build, Constructed, ParseChild, Up, Work, Earlier
  <2> QED  BY <1>3, <2>2 DEF FactorsInv
<1> QED  BY <1>5, <1>6, <1>7

\* The structure of the parser's state is invariant.
LEMMA StructStep ==
  ASSUME ProblemInv, StructInv, [Next]_vars
  PROVE  StructInv'
<1>1. config' = config /\ (Rest \/ Work)
  BY StepIs
<1>2. Reading
  BY DEF ProblemInv
<1> QED  BY <1>1, <1>2, SymbolStep, CallsStep, FactorsStep, NodesStep DEF StructInv

\* StructInv holds before anything is read.
LEMMA StructInitially ==
  ASSUME Init
  PROVE  StructInv
<1>1. Reading /\ MappingInit /\ stage = "levels"
  BY DEF Init, Reading
<1>2. SymbolInv
  BY <1>1 DEF MappingInit, SymbolsInit, SymbolInv
<1>3. CallsInv
  <2>1. 1 \in DOMAIN config.mapping
    BY <1>1, MappingLists
  <2>2. Call(1, nullptr, 1) \in Activation
    BY <2>1 DEF Call, Activation, nullptr
  <2>3. calls = <<Call(1, nullptr, 1)>>
    BY <1>1 DEF MappingInit
  <2> QED  BY <2>2, <2>3 DEF CallsInv
<1>4. FactorsInv
  <2>1. IsFiniteSet(DOMAIN loop_bounds)
    <3>1. DOMAIN loop_bounds = {}
      BY <1>1 DEF MappingInit
    <3> QED  BY <3>1, FS_EmptySet
  <2> QED  BY <1>1, <2>1 DEF MappingInit, FactorsInv
<1>5. NodesInv
  <2>1. IsList(<<>>) /\ Len(<<>>) = 0 /\ DOMAIN <<>> = {}
    BY DEF IsList
  <2>2. nodes = <<>> /\ dimension = <<>> /\ origin = <<>>
    BY <1>1 DEF MappingInit
  <2> QED  BY <2>1, <2>2 DEF NodesInv
<1> QED  BY <1>2, <1>3, <1>4, <1>5 DEF StructInv

\* StructInv holds throughout, with ProblemInv.
LEMMA StructInvariant == Spec => [](ProblemInv /\ StructInv)
<1>1. Init => StructInv
  BY StructInitially
<1>2. ProblemInv /\ StructInv /\ [Next]_vars => StructInv'
  BY StructStep
<1> QED  BY <1>1, <1>2, ProblemInvariant, PTL DEF Spec

\* Every loop of every node has the bound of its own dimension, whatever the
\* operations number their dimensions like: the numbers are those of
\* common_shape_, under which the bounds are stored.
THEOREM LoopsBounded == Spec => []LoopsHaveBounds
<1>1. ProblemInv /\ StructInv => LoopsHaveBounds
  <2> SUFFICES ASSUME ProblemInv, StructInv, stage = "loaded", NEW n \in DOMAIN nodes,
                      NEW i \in DOMAIN nodes[n].loops
               PROVE  /\ dimension[n][i] \in DOMAIN factorized_bounds_
                      /\ factorized_bounds_[dimension[n][i]] = BoundOf(nodes[n].loops[i].dim)
    BY DEF LoopsHaveBounds
  <2> DEFINE d == nodes[n].loops[i].dim
  <2>1. d \in ToSet(Dims) /\ dimension[n][i] = IdIn(Dims, d)
    BY DEF StructInv, NodesInv, NumberedIn
  <2>2. DOMAIN Dims = 1 .. Len(Dims)
    BY ProblemLists DEF ProblemInv, DimsNumbered, InProblem
  <2>3. PICK k \in 1 .. Len(Dims) : Dims[k] = d
    BY <2>1, <2>2 DEF ToSet
  <2>4. BoundsRead = Len(Dims)
    BY DEF BoundsRead
  <2> HIDE DEF d
  <2>5. IdIn(Dims, d) \in DOMAIN factorized_bounds_ /\ factorized_bounds_[IdIn(Dims, d)] = BoundOf(d)
    BY <2>3, <2>4 DEF ProblemInv, BoundsSet
  <2> QED  BY <2>1, <2>5 DEF d
<1> QED  BY <1>1, StructInvariant, PTL

-----------------------------------------------------------------------------
(* The tree.                                                                *)

\* How many activations have constructed their node: all of them, or all but
\* the topmost one.
Opened == IF step = "children" THEN Len(calls) ELSE Len(calls) - 1

OpenNodes == {calls[j].node : j \in 1 .. Opened}

\* The node of activation a is made from its entry and has the children that
\* were parsed so far; nobody is its parent yet.
OpenAt(a, made, from, entries) ==
  /\ a.node \in DOMAIN made
  /\ from[a.node] = a.cfg
  /\ Len(made[a.node].kids) = a.kid - 1
  /\ a.kid - 1 <= Len(Subtree(entries[a.cfg]))
  /\ made[a.node].parent = nullptr

\* The children of node n come after it, in the order of its entry's list, and
\* know it as their parent.
KidsAt(n, made, from, entries) ==
  /\ made[n].kids \in Seq(DOMAIN made)
  /\ Len(made[n].kids) <= Len(Subtree(entries[from[n]]))
  /\ \A i \in 1 .. Len(made[n].kids) :
       /\ n < made[n].kids[i]
       /\ made[made[n].kids[i]].parent = n
       /\ from[made[n].kids[i]] = Subtree(entries[from[n]])[i]
       /\ \A j \in 1 .. i - 1 : made[n].kids[j] < made[n].kids[i]

\* Node n has all its children, and is one itself.
ClosedAt(n, made, from, entries) ==
  /\ Len(made[n].kids) = Len(Subtree(entries[from[n]]))
  /\ made[n].parent \in 1 .. n - 1
  /\ n \in ToSet(made[made[n].parent].kids)

\* Node n is of the kind and at the level of its entry.
DescribedAt(n, made, from, entries, levels) ==
  LET cfg == entries[from[n]] IN
    /\ made[n].kind = Kind(cfg)
    /\ made[n].target = lookupValue(cfg, "target", "")
    /\ exists(cfg, "target") => made[n].target \in levels

\* An activation is about the child that the one below it has come to.
CallsNested ==
  /\ calls[1].cfg = 1
  /\ \A j \in 1 .. Len(calls) - 1 :
       LET list == Subtree(config.mapping[calls[j].cfg]) IN
         calls[j].kid <= Len(list) /\ calls[j + 1].cfg = list[calls[j].kid]

\* The nodes of the activations were made one after the other, each after the
\* children that the one below it has already.
OpenInOrder ==
  /\ Opened = 0 => nodes = <<>>
  /\ Opened # 0 => calls[1].node = 1
  /\ \A j \in 1 .. Opened : \A i \in 1 .. j - 1 : calls[i].node < calls[j].node
  /\ \A j \in 1 .. Opened - 1 : \A k \in ToSet(nodes[calls[j].node].kids) :
       k < calls[j + 1].node

TreeInv ==
  /\ CallsNested
  /\ OpenInOrder
  /\ \A j \in 1 .. Opened : OpenAt(calls[j], nodes, origin, config.mapping)
  /\ \A n \in DOMAIN nodes :
       /\ KidsAt(n, nodes, origin, config.mapping)
       /\ n \notin OpenNodes => ClosedAt(n, nodes, origin, config.mapping)
       /\ DescribedAt(n, nodes, origin, config.mapping, DOMAIN archTopoName2Idx_map_)

\* The mapping is loaded when the root has all its children.
LoadedInv == stage = "loaded" => step = "children" /\ Len(calls) = 1 /\ ~MoreChildren

\* A level has a number only if it was declared.
LevelsNamed ==
  \A l \in DOMAIN archTopoName2Idx_map_ :
    \E i \in DOMAIN config.levels : config.levels[i].name = l

\* made2 has one node more, without links, than made.
Grown(made, made2, from, from2, node, cfg) ==
  /\ DOMAIN made = 1 .. Len(made) /\ Len(made) \in Nat
  /\ DOMAIN made2 = 1 .. Len(made) + 1
  /\ \A n \in DOMAIN made : made2[n] = made[n] /\ from2[n] = from[n]
  /\ made2[Len(made) + 1] = node /\ from2[Len(made) + 1] = cfg
  /\ node.kids = <<>> /\ node.parent = nullptr

\* made2 has one link more than made: c is the last child of p.
Linked(made, made2, p, c) ==
  /\ DOMAIN made2 = DOMAIN made /\ DOMAIN made \subseteq Nat
  /\ p \in DOMAIN made /\ c \in DOMAIN made /\ p < c
  /\ \A n \in DOMAIN made :
       /\ made2[n].kind = made[n].kind /\ made2[n].target = made[n].target
       /\ made2[n].kids = IF n = p THEN Append(made[n].kids, c) ELSE made[n].kids
       /\ made2[n].parent = IF n = c THEN p ELSE made[n].parent

\* What holds of the nodes that are there does not change for a new one.
LEMMA GrownKeeps ==
  ASSUME NEW made, NEW made2, NEW from, NEW from2, NEW node, NEW cfg, NEW entries, NEW levels,
         Grown(made, made2, from, from2, node, cfg), NEW n \in DOMAIN made,
         KidsAt(n, made, from, entries)
  PROVE  /\ KidsAt(n, made2, from2, entries)
         /\ ClosedAt(n, made, from, entries) => ClosedAt(n, made2, from2, entries)
         /\ DescribedAt(n, made, from, entries, levels)
              => DescribedAt(n, made2, from2, entries, levels)
<1>1. /\ made2[n] = made[n] /\ from2[n] = from[n] /\ n \in Nat
      /\ DOMAIN made \subseteq DOMAIN made2
      /\ \A k \in DOMAIN made : made2[k] = made[k] /\ from2[k] = from[k]
  BY DEF Grown
<1> DEFINE kids == made[n].kids
<1>2. /\ kids \in Seq(DOMAIN made)
      /\ Len(kids) <= Len(Subtree(entries[from[n]]))
      /\ \A i \in 1 .. Len(kids) :
           /\ n < kids[i]
           /\ made[kids[i]].parent = n
           /\ from[kids[i]] = Subtree(entries[from[n]])[i]
           /\ \A j \in 1 .. i - 1 : kids[j] < kids[i]
  BY DEF KidsAt
<1> HIDE DEF kids
<1>3. kids \in Seq(DOMAIN made2) /\ \A i \in 1 .. Len(kids) : kids[i] \in DOMAIN made
  BY <1>1, <1>2
<1>4. KidsAt(n, made2, from2, entries)
  <2>1. made2[n].kids = kids
    BY <1>1 DEF kids
  <2> QED  BY <1>1, <1>2, <1>3, <2>1 DEF KidsAt
<1>5. ASSUME ClosedAt(n, made, from, entries)
      PROVE  ClosedAt(n, made2, from2, entries)
  <2>1. made[n].parent \in DOMAIN made
    BY <1>5 DEF ClosedAt, Grown
  <2> QED  BY <1>1, <1>5, <2>1 DEF ClosedAt
<1>6. ASSUME DescribedAt(n, made, from, entries, levels)
      PROVE  DescribedAt(n, made2, from2, entries, levels)
  BY <1>1, <1>6 DEF DescribedAt
<1> QED  BY <1>4, <1>5, <1>6

\* A node that is open stays so when another one is added.
LEMMA GrownOpen ==
  ASSUME NEW made, NEW made2, NEW from, NEW from2, NEW node, NEW cfg, NEW entries,
         Grown(made, made2, from, from2, node, cfg), NEW a, OpenAt(a, made, from, entries)
  PROVE  OpenAt(a, made2, from2, entries)
<1>1. a.node \in DOMAIN made
  BY DEF OpenAt
<1>2. made2[a.node] = made[a.node] /\ from2[a.node] = from[a.node] /\ a.node \in DOMAIN made2
  BY <1>1 DEF Grown
<1> QED  BY <1>2 DEF OpenAt

\* The new node has no children yet.
LEMMA GrownNew ==
  ASSUME NEW made, NEW made2, NEW from, NEW from2, NEW node, NEW cfg, NEW entries, NEW S,
         Grown(made, made2, from, from2, node, cfg), Subtree(entries[cfg]) \in Seq(S)
  PROVE  /\ KidsAt(Len(made) + 1, made2, from2, entries)
         /\ OpenAt(Call(cfg, Len(made) + 1, 1), made2, from2, entries)
<1> DEFINE n == Len(made) + 1
<1>1. n \in DOMAIN made2 /\ made2[n] = node /\ from2[n] = cfg
  BY DEF Grown
<1>2. Len(Subtree(entries[cfg])) \in Nat
  OBVIOUS
<1>3. node.kids = <<>> /\ Len(node.kids) = 0 /\ node.parent = nullptr
  BY DEF Grown
<1> HIDE DEF n
<1>4. KidsAt(n, made2, from2, entries)
  <2>1. node.kids \in Seq(DOMAIN made2)
    BY <1>3
  <2> QED  BY <1>1, <1>2, <1>3, <2>1 DEF KidsAt
<1>5. OpenAt(Call(cfg, n, 1), made2, from2, entries)
  BY <1>1, <1>2, <1>3 DEF OpenAt, Call
<1> QED  BY <1>4, <1>5 DEF n

\* A new link keeps what holds of the nodes it is not about.
LEMMA LinkedKeeps ==
  ASSUME NEW made, NEW made2, NEW from, NEW entries, NEW levels, NEW p, NEW c,
         Linked(made, made2, p, c), made[c].parent = nullptr,
         NEW n \in DOMAIN made, n \in Nat \ {0}, KidsAt(n, made, from, entries)
  PROVE  /\ n # p => KidsAt(n, made2, from, entries)
         /\ n # c /\ n # p /\ ClosedAt(n, made, from, entries) /\ DOMAIN made = 1 .. Len(made)
            /\ (\A m \in DOMAIN made : KidsAt(m, made, from, entries))
              => ClosedAt(n, made2, from, entries)
         /\ DescribedAt(n, made, from, entries, levels)
              => DescribedAt(n, made2, from, entries, levels)
<1>1. ASSUME n # p
      PROVE  KidsAt(n, made2, from, entries)
  <2> DEFINE kids == made[n].kids
  <2>1. made2[n].kids = kids /\ DOMAIN made2 = DOMAIN made
    BY <1>1 DEF Linked
  <2>2. kids \in Seq(DOMAIN made)
    BY DEF KidsAt
  <2>3. ASSUME NEW i \in 1 .. Len(kids)
        PROVE  made2[kids[i]].parent = n
    <3>1. kids[i] \in DOMAIN made
      <4> HIDE DEF kids
      <4> QED  BY <2>2
    <3>2. made[kids[i]].parent = n
      BY DEF KidsAt
    <3>3. kids[i] # c
      BY <3>2 DEF nullptr
    <3> HIDE DEF kids
    <3> QED  BY <3>1, <3>2, <3>3 DEF Linked
  <2> QED  BY <2>1, <2>3 DEF KidsAt
<1>2. ASSUME n # c, n # p, ClosedAt(n, made, from, entries), DOMAIN made = 1 .. Len(made),
             \A m \in DOMAIN made : KidsAt(m, made, from, entries)
      PROVE  ClosedAt(n, made2, from, entries)
  <2> DEFINE m == made[n].parent
  <2>1. m \in 1 .. n - 1 /\ n \in ToSet(made[m].kids)
    BY <1>2 DEF ClosedAt
  <2>2. m \in DOMAIN made
    <3> HIDE DEF m
    <3> QED  BY <1>2, <2>1
  <2>3. made2[n].kids = made[n].kids /\ made2[n].parent = m
    BY <1>2 DEF Linked
  <2>4. n \in ToSet(made2[m].kids)
    <3> HIDE DEF m
    <3>1. CASE m # p
      BY <2>1, <2>2, <3>1 DEF Linked
    <3>2. CASE m = p
      <4>1. made2[m].kids = Append(made[m].kids, c)
        BY <2>2, <3>2 DEF Linked
      <4>2. made[m].kids \in Seq(DOMAIN made)
        BY <1>2, <2>2 DEF KidsAt
      <4>3. PICK i \in DOMAIN made[m].kids : made[m].kids[i] = n
        BY <2>1 DEF ToSet
      <4>4. i \in DOMAIN Append(made[m].kids, c) /\ Append(made[m].kids, c)[i] = n
        <5> DEFINE q == made[m].kids
        <5>1. q \in Seq(DOMAIN made) /\ i \in DOMAIN q /\ q[i] = n /\ c \in DOMAIN made
          BY <4>2, <4>3 DEF Linked
        <5> HIDE DEF q
        <5>2. i \in DOMAIN Append(q, c) /\ Append(q, c)[i] = n
          BY <5>1
        <5> QED  BY <5>2 DEF q
      <4> QED  BY <4>1, <4>4 DEF ToSet
    <3> QED  BY <3>1, <3>2
  <2> QED  BY <1>2, <2>1, <2>3, <2>4 DEF ClosedAt
<1>3. ASSUME DescribedAt(n, made, from, entries, levels)
      PROVE  DescribedAt(n, made2, from, entries, levels)
  BY <1>3 DEF DescribedAt, Linked
<1> QED  BY <1>1, <1>2, <1>3

\* c is what the list of p's entry has next, and comes after the children that
\* p has.
NextKid(made, from, entries, p, c) ==
  LET list == Subtree(entries[from[p]])
      kids == made[p].kids
  IN  /\ p \in Nat \ {0} /\ made[c].parent = nullptr
      /\ \A k \in ToSet(kids) : k < c
      /\ Len(list) \in Nat
      /\ Len(kids) < Len(list)
      /\ from[c] = list[Len(kids) + 1]

\* The new link itself.
LEMMA LinkedNew ==
  ASSUME NEW made, NEW made2, NEW from, NEW entries, NEW p, NEW c,
         Linked(made, made2, p, c), KidsAt(p, made, from, entries),
         NextKid(made, from, entries, p, c)
  PROVE  /\ KidsAt(p, made2, from, entries)
         /\ Len(made2[p].kids) = Len(made[p].kids) + 1
         /\ ToSet(made2[p].kids) = ToSet(made[p].kids) \cup {c}
<1> DEFINE kids == made[p].kids
           list == Subtree(entries[from[p]])
           q == Append(kids, c)
<1>1. /\ made2[p].kids = q /\ DOMAIN made2 = DOMAIN made
      /\ c \in DOMAIN made /\ p < c /\ DOMAIN made \subseteq Nat
  BY DEF Linked
<1>2. /\ kids \in Seq(DOMAIN made)
      /\ \A i \in 1 .. Len(kids) :
           /\ p < kids[i]
           /\ made[kids[i]].parent = p
           /\ from[kids[i]] = list[i]
           /\ \A j \in 1 .. i - 1 : kids[j] < kids[i]
  BY DEF KidsAt
<1>3. /\ Len(kids) < Len(list) /\ Len(list) \in Nat /\ from[c] = list[Len(kids) + 1]
      /\ \A k \in ToSet(kids) : k < c
      /\ p \in Nat \ {0} /\ made[c].parent = nullptr
  BY DEF NextKid
<1> HIDE DEF kids, list
<1>4. /\ q \in Seq(DOMAIN made) /\ Len(q) = Len(kids) + 1 /\ q[Len(kids) + 1] = c
      /\ \A i \in 1 .. Len(kids) : q[i] = kids[i] /\ kids[i] \in DOMAIN made
      /\ Len(kids) \in Nat
      /\ DOMAIN q = 1 .. Len(kids) + 1 /\ DOMAIN kids = 1 .. Len(kids)
  BY <1>1, <1>2
<1>5. \A i \in 1 .. Len(kids) : kids[i] < c
  BY <1>3, <1>4 DEF ToSet
<1> HIDE DEF q
<1>6. \A i \in 1 .. Len(q) : made2[q[i]].parent = p
  <2> SUFFICES ASSUME NEW i \in 1 .. Len(q)  PROVE  made2[q[i]].parent = p
    OBVIOUS
  <2>1. CASE i = Len(kids) + 1
    BY <1>1, <1>4, <2>1 DEF Linked
  <2>2. CASE i \in 1 .. Len(kids)
    <3>1. q[i] \in DOMAIN made /\ made[q[i]].parent = p /\ q[i] # c
      BY <1>1, <1>2, <1>3, <1>4, <2>2 DEF nullptr
    <3> QED  BY <3>1 DEF Linked
  <2> QED  BY <1>4, <2>1, <2>2
<1>7. \A i \in 1 .. Len(q) :
        /\ p < q[i]
        /\ from[q[i]] = list[i]
        /\ \A j \in 1 .. i - 1 : q[j] < q[i]
  <2> SUFFICES ASSUME NEW i \in 1 .. Len(q)
               PROVE  /\ p < q[i]
                      /\ from[q[i]] = list[i]
                      /\ \A j \in 1 .. i - 1 : q[j] < q[i]
    OBVIOUS
  <2>1. CASE i = Len(kids) + 1
    <3>1. q[i] = c /\ \A j \in 1 .. i - 1 : j \in 1 .. Len(kids) /\ q[j] = kids[j]
      BY <1>4, <2>1
    <3> QED  BY <1>1, <1>3, <1>5, <2>1, <3>1
  <2>2. CASE i \in 1 .. Len(kids)
    <3>1. q[i] = kids[i] /\ \A j \in 1 .. i - 1 : j \in 1 .. Len(kids) /\ q[j] = kids[j]
      BY <1>4, <2>2
    <3> QED  BY <1>2, <2>2, <3>1
  <2> QED  BY <1>4, <2>1, <2>2
<1>8. KidsAt(p, made2, from, entries)
  BY <1>1, <1>3, <1>4, <1>6, <1>7 DEF KidsAt, list
<1>9. ToSet(q) = ToSet(kids) \cup {c}
  BY <1>4 DEF ToSet
<1> QED  BY <1>1, <1>4, <1>8, <1>9 DEF kids

\* Steps that neither construct nor link nodes.
LEMMA TreeFrame ==
  ASSUME TreeInv, CallsInv, config' = config, UNCHANGED <<nodes, origin, calls>>,
         step' = step \/ {step, step'} \subseteq {"node", "end", "residual"},
         nodes = <<>> \/ UNCHANGED archTopoName2Idx_map_
  PROVE  TreeInv'
<1>1. Opened' = Opened
  BY DEF Opened
<1>2. OpenNodes' = OpenNodes
  BY <1>1 DEF OpenNodes
<1>3. CallsNested' /\ OpenInOrder'
  BY <1>1 DEF TreeInv, CallsNested, OpenInOrder
<1>4. \A j \in 1 .. Opened' : OpenAt(calls'[j], nodes', origin', config'.mapping)
  BY <1>1 DEF TreeInv
<1>5. ASSUME NEW n \in DOMAIN nodes'
      PROVE  /\ KidsAt(n, nodes', origin', config'.mapping)
             /\ n \notin OpenNodes' => ClosedAt(n, nodes', origin', config'.mapping)
             /\ DescribedAt(n, nodes', origin', config'.mapping, DOMAIN archTopoName2Idx_map_')
  <2>1. nodes # <<>>
    BY <1>5
  <2> QED  BY <1>2, <2>1 DEF TreeInv
<1> QED  BY <1>3, <1>4, <1>5 DEF TreeInv

\* No node is there before the mapping is read.
NoNodesYet == stage \in Earlier => nodes = <<>>

\* A child is parsed.
LEMMA TreeChild ==
  ASSUME TreeInv, Reading, CallsInv, ParseChild, UNCHANGED <<config, archVars>>
  PROVE  TreeInv'
<1> DEFINE a == Call(Subtree(Cfg)[Current.kid], nullptr, 1)
           d == Len(calls)
<1>1. /\ step = "children" /\ step' = "node" /\ MoreChildren
      /\ calls' = Append(calls, a)
      /\ UNCHANGED <<nodes, origin, archTopoName2Idx_map_>>
  BY DEF ParseChild, InMapping, archVars
<1>2. calls \in Seq(Activation) /\ d \in Nat \ {0} /\ Current = calls[d]
  BY TopCall DEF CallsInv
<1>3. a.cfg = Subtree(Cfg)[Current.kid]
  BY DEF Call
<1>4. Current.kid <= Len(Subtree(Cfg)) /\ Cfg = config.mapping[calls[d].cfg]
  BY <1>1, <1>2 DEF MoreChildren, Cfg
<1> HIDE DEF a
<1>5. Len(calls') = d + 1 /\ calls'[d + 1] = a /\ \A j \in 1 .. d : calls'[j] = calls[j]
  BY <1>1, <1>2
<1>6. Opened = d /\ Opened' = d
  BY <1>1, <1>2, <1>5 DEF Opened
<1> HIDE DEF d
<1>7. OpenNodes' = OpenNodes
  BY <1>5, <1>6 DEF OpenNodes
<1>8. CallsNested'
  <2>1. ASSUME NEW j \in 1 .. d
        PROVE  LET list == Subtree(config.mapping[calls'[j].cfg]) IN
                 calls'[j].kid <= Len(list) /\ calls'[j + 1].cfg = list[calls'[j].kid]
    <3>1. CASE j = d
      BY <1>2, <1>3, <1>4, <1>5, <3>1
    <3>2. CASE j \in 1 .. d - 1
      <4>1. calls'[j] = calls[j] /\ calls'[j + 1] = calls[j + 1]
        BY <1>2, <1>5, <3>2
      <4> QED  BY <3>2, <4>1 DEF TreeInv, CallsNested, d
    <3> QED  BY <1>2, <3>1, <3>2
  <2>2. calls'[1].cfg = 1
    BY <1>2, <1>5 DEF TreeInv, CallsNested
  <2>3. Len(calls') - 1 = d
    BY <1>2, <1>5
  <2> QED  BY <2>1, <2>2, <2>3 DEF CallsNested
<1>9. OpenInOrder'
  <2>1. \A j \in 1 .. d : calls'[j].node = calls[j].node
    BY <1>5
  <2>2. \A j \in 1 .. d : \A i \in 1 .. j - 1 : i \in 1 .. d
    BY <1>2
  <2>3. \A j \in 1 .. d - 1 : j \in 1 .. d /\ j + 1 \in 1 .. d /\ calls'[j + 1] = calls[j + 1]
    BY <1>2, <1>5
  <2>4. d # 0 /\ 1 \in 1 .. d
    BY <1>2
  <2> QED  BY <1>1, <1>6, <2>1, <2>2, <2>3, <2>4 DEF TreeInv, OpenInOrder
<1>10. \A j \in 1 .. Opened' : OpenAt(calls'[j], nodes', origin', config'.mapping)
  BY <1>1, <1>5, <1>6 DEF TreeInv
<1> QED  BY <1>1, <1>7, <1>8, <1>9, <1>10 DEF TreeInv

\* A node is constructed.
LEMMA TreeBuild ==
  ASSUME TreeInv, Reading, StructInv, Build, UNCHANGED <<config, archVars>>
  PROVE  TreeInv'
<1>1. PICK node, ids : Constructed(node, ids) /\ Fresh(node, ids)
  BY DEF Build
<1> DEFINE d == Len(calls)
           n == Len(nodes)
           a == Call(Current.cfg, n + 1, 1)
           map == config.mapping
           levels == DOMAIN archTopoName2Idx_map_
<1>2. /\ nodes' = Append(nodes, node)
      /\ origin' = Append(origin, Current.cfg)
      /\ calls' = [calls EXCEPT ![d] = a]
      /\ step' = "children" /\ step \in {"node", "end"}
      /\ config'.mapping = map /\ DOMAIN archTopoName2Idx_map_' = levels
  BY <1>1 DEF Constructed, Build, archVars
<1>3. /\ calls \in Seq(Activation) /\ d \in Nat \ {0} /\ Current = calls[d]
      /\ Current.cfg \in DOMAIN map
  BY TopCall DEF StructInv, CallsInv
<1>4. /\ IsList(nodes) /\ IsList(origin) /\ Len(origin) = n /\ n \in Nat /\ DOMAIN nodes = 1 .. n
  BY ListIs DEF StructInv, NodesInv
<1>5. a \in Activation /\ a.cfg = Current.cfg /\ a.node = n + 1
  BY <1>3, <1>4 DEF Activation, Call
<1>6. /\ Len(calls') = d /\ calls'[d] = a
      /\ \A j \in 1 .. d - 1 : calls'[j] = calls[j]
  <2> HIDE DEF a, n
  <2> QED  BY <1>2, <1>3, <1>5
<1>7. Opened = d - 1 /\ Opened' = d
  BY <1>2, <1>6 DEF Opened
<1>8. Grown(nodes, nodes', origin, origin', node, Current.cfg)
  <2>1. /\ nodes'[n + 1] = node /\ origin'[n + 1] = Current.cfg
        /\ \A i \in 1 .. n : nodes'[i] = nodes[i] /\ origin'[i] = origin[i]
        /\ Len(nodes') = n + 1
    BY <1>2, <1>4 DEF IsList
  <2>2. DOMAIN nodes' = 1 .. n + 1
    BY <1>2, <1>4, <2>1, AppendList, ListIs
  <2>3. node.kids = <<>> /\ node.parent = nullptr
    BY <1>1 DEF Fresh
  <2> HIDE DEF n
  <2> QED  BY <1>4, <2>1, <2>2, <2>3 DEF Grown, n
<1>9. \A j \in 1 .. d - 1 : OpenAt(calls[j], nodes, origin, map)
  BY <1>7 DEF TreeInv
<1>10. \A m \in 1 .. n : KidsAt(m, nodes, origin, map)
  BY <1>4 DEF TreeInv
<1>11. KidsAt(n + 1, nodes', origin', map) /\ OpenAt(a, nodes', origin', map)
  <2>1. Subtree(map[Current.cfg]) \in Seq(DOMAIN map)
    BY <1>3, MappingLists
  <2> QED  BY <1>8, <2>1, GrownNew
<1>12. \A j \in 1 .. Opened' : OpenAt(calls'[j], nodes', origin', map)
  <2> SUFFICES ASSUME NEW j \in 1 .. d  PROVE  OpenAt(calls'[j], nodes', origin', map)
    BY <1>7
  <2>1. CASE j = d
    BY <1>6, <1>11, <2>1
  <2>2. CASE j \in 1 .. d - 1
    <3> HIDE DEF d, map
    <3> QED  BY <1>6, <1>8, <1>9, <2>2, GrownOpen
  <2> QED  BY <1>3, <2>1, <2>2
<1>13. CallsNested'
  <2>1. \A j \in 1 .. d : calls'[j].cfg = calls[j].cfg
    BY <1>3, <1>5, <1>6
  <2>2. \A j \in 1 .. d - 1 : /\ calls'[j] = calls[j] /\ j \in 1 .. d /\ j + 1 \in 1 .. d
    BY <1>3, <1>6
  <2>3. 1 \in 1 .. d
    BY <1>3
  <2>4. /\ calls[1].cfg = 1
        /\ \A j \in 1 .. d - 1 :
             /\ calls[j].kid <= Len(Subtree(map[calls[j].cfg]))
             /\ calls[j + 1].cfg = Subtree(map[calls[j].cfg])[calls[j].kid]
    BY DEF TreeInv, CallsNested
  <2> HIDE DEF d, map
  <2>5. /\ calls'[1].cfg = 1
        /\ \A j \in 1 .. d - 1 :
             /\ calls'[j].kid <= Len(Subtree(map[calls'[j].cfg]))
             /\ calls'[j + 1].cfg = Subtree(map[calls'[j].cfg])[calls'[j].kid]
    BY <2>1, <2>2, <2>3, <2>4
  <2> QED  BY <1>2, <1>6, <2>5 DEF CallsNested
<1> HIDE DEF a
<1>14. \A j \in 1 .. d - 1 : calls[j].node \in 1 .. n
  BY <1>4, <1>9 DEF OpenAt
<1>15. OpenInOrder'
  <2>1. calls'[1].node = 1
    <3>1. CASE d = 1
      <4>1. nodes = <<>>
        BY <1>7, <3>1 DEF TreeInv, OpenInOrder
      <4> QED  BY <1>5, <1>6, <3>1, <4>1
    <3>2. CASE d # 1
      <4>1. Opened # 0 /\ 1 \in 1 .. d - 1
        BY <1>3, <1>7, <3>2
      <4>2. calls[1].node = 1
        BY <4>1 DEF TreeInv, OpenInOrder
      <4> QED  BY <1>6, <4>1, <4>2
    <3> QED  BY <3>1, <3>2
  <2>2. ASSUME NEW j \in 1 .. d, NEW i \in 1 .. j - 1
        PROVE  calls'[i].node < calls'[j].node
    <3>1. i \in 1 .. d - 1 /\ calls'[i] = calls[i]
      BY <1>3, <1>6
    <3>2. CASE j = d
      BY <1>4, <1>5, <1>6, <1>14, <3>1, <3>2
    <3>3. CASE j \in 1 .. d - 1
      <4>1. calls'[j] = calls[j]
        BY <1>6, <3>3
      <4>2. calls[i].node < calls[j].node
        BY <1>7, <3>3 DEF TreeInv, OpenInOrder
      <4> QED  BY <3>1, <4>1, <4>2
    <3> QED  BY <1>3, <3>2, <3>3
  <2>3. ASSUME NEW j \in 1 .. d - 1, NEW k \in ToSet(nodes'[calls'[j].node].kids)
        PROVE  k < calls'[j + 1].node
    <3> DEFINE m == calls[j].node
    <3>1. m \in 1 .. n /\ calls'[j] = calls[j] /\ nodes'[m] = nodes[m]
      BY <1>4, <1>6, <1>8, <1>14 DEF Grown
    <3>2. k \in ToSet(nodes[m].kids)
      BY <2>3, <3>1
    <3>3. CASE j = d - 1
      <4>1. nodes[m].kids \in Seq(1 .. n)
        BY <1>4, <1>10, <3>1 DEF KidsAt
      <4>2. k \in 1 .. n
        <5> DEFINE q == nodes[m].kids
        <5> HIDE DEF q
        <5>1. q \in Seq(1 .. n) /\ k \in ToSet(q)
          BY <3>2, <4>1 DEF q
        <5> QED  BY <5>1 DEF ToSet
      <4> QED  BY <1>3, <1>4, <1>5, <1>6, <3>3, <4>2
    <3>4. CASE j \in 1 .. d - 2
      <4>1. calls'[j + 1] = calls[j + 1] /\ j \in 1 .. Opened - 1
        BY <1>3, <1>6, <1>7, <3>4
      <4>2. k < calls[j + 1].node
        BY <3>2, <4>1 DEF TreeInv, OpenInOrder
      <4> QED  BY <4>1, <4>2
    <3> QED  BY <1>3, <3>3, <3>4
  <2>4. Opened' # 0 /\ Opened' - 1 = d - 1
    BY <1>3, <1>7
  <2> QED  BY <1>7, <2>1, <2>2, <2>3, <2>4 DEF OpenInOrder
<1>16. OpenNodes' = OpenNodes \cup {n + 1}
  <2>1. /\ OpenNodes = {calls[j].node : j \in 1 .. d - 1}
        /\ OpenNodes' = {calls'[j].node : j \in 1 .. d}
    BY <1>7 DEF OpenNodes
  <2>2. \A j \in 1 .. d - 1 : calls'[j].node = calls[j].node
    BY <1>6
  <2>3. calls'[d].node = n + 1 /\ 1 .. d = (1 .. d - 1) \cup {d}
    BY <1>3, <1>5, <1>6
  <2> HIDE DEF d, n
  <2> QED  BY <2>1, <2>2, <2>3
<1>17. ASSUME NEW m \in DOMAIN nodes'
       PROVE  /\ KidsAt(m, nodes', origin', map)
              /\ m \notin OpenNodes' => ClosedAt(m, nodes', origin', map)
              /\ DescribedAt(m, nodes', origin', map, levels)
  <2>1. m \in 1 .. n + 1
    BY <1>8 DEF Grown
  <2>2. CASE m = n + 1
    <3>1. nodes'[m] = node /\ origin'[m] = Current.cfg
      BY <1>8, <2>2 DEF Grown
    <3>2. DescribedAt(m, nodes', origin', map, levels)
      BY <1>1, <3>1 DEF DescribedAt, Fresh, Cfg
    <3> QED  BY <1>11, <1>16, <2>2, <3>2
  <2>3. CASE m \in 1 .. n
    <3>1. /\ m \in DOMAIN nodes /\ KidsAt(m, nodes, origin, map)
          /\ m \notin OpenNodes => ClosedAt(m, nodes, origin, map)
          /\ DescribedAt(m, nodes, origin, map, levels)
      BY <1>4, <2>3 DEF TreeInv
    <3> HIDE DEF map, levels, n
    <3> QED  BY <1>8, <1>16, <3>1, GrownKeeps
  <2> QED  BY <1>4, <2>1, <2>2, <2>3
<1> QED  BY <1>2, <1>12, <1>13, <1>15, <1>17 DEF TreeInv

\* A finished node gets its parent.
LEMMA TreeUp ==
  ASSUME TreeInv, Reading, StructInv, Up, UNCHANGED <<config, archVars>>
  PROVE  TreeInv'
<1> DEFINE d == Len(calls)
           p == calls[d - 1].node
           c == calls[d].node
           map == config.mapping
           levels == DOMAIN archTopoName2Idx_map_
           list == Subtree(map[origin[p]])
<1>1. /\ calls \in Seq(Activation) /\ d \in Nat \ {0, 1} /\ Current = calls[d]
      /\ d - 1 \in 1 .. d /\ d \in 1 .. d /\ Cfg = map[calls[d].cfg]
  BY TopCall DEF StructInv, CallsInv, Up
<1>2. /\ nodes' = add_child(p, c)
      /\ Len(calls') = d - 1
      /\ \A i \in 1 .. d - 2 : calls'[i] = calls[i]
      /\ calls'[d - 1] = Call(calls[d - 1].cfg, p, calls[d - 1].kid + 1)
      /\ step = "children" /\ step' = "children" /\ ~MoreChildren
      /\ origin' = origin /\ config'.mapping = map /\ DOMAIN archTopoName2Idx_map_' = levels
  <2>1. Len(calls) - 1 - 1 = Len(calls) - 2
    BY <1>1
  <2> QED  BY <1>1, <2>1 DEF Up, archVars
<1>3. Opened = d /\ Opened' = d - 1
  BY <1>2 DEF Opened
<1>4. \A j \in 1 .. d : OpenAt(calls[j], nodes, origin, map)
  BY <1>3 DEF TreeInv
<1>5. /\ p \in DOMAIN nodes /\ c \in DOMAIN nodes
      /\ origin[p] = calls[d - 1].cfg /\ origin[c] = calls[d].cfg
      /\ Len(nodes[p].kids) = calls[d - 1].kid - 1
      /\ Len(nodes[c].kids) = calls[d].kid - 1
      /\ calls[d].kid - 1 <= Len(Subtree(map[calls[d].cfg]))
      /\ nodes[p].parent = nullptr /\ nodes[c].parent = nullptr
  BY <1>1, <1>4 DEF OpenAt
<1>6. IsList(nodes) /\ DOMAIN nodes = 1 .. Len(nodes) /\ Len(nodes) \in Nat
      /\ \A n \in DOMAIN nodes : NodeFields \subseteq DOMAIN nodes[n]
  BY ListIs DEF StructInv, NodesInv
<1>7. p < c
  <2>1. d - 1 \in 1 .. d - 1
    BY <1>1
  <2> QED  BY <1>1, <1>3, <2>1 DEF TreeInv, OpenInOrder
<1>8. \A n \in DOMAIN nodes : KidsAt(n, nodes, origin, map)
  BY DEF TreeInv
<1>9. Linked(nodes, nodes', p, c)
  <2> HIDE DEF p, c
  <2>1. p # c
    BY <1>5, <1>6, <1>7
  <2>2. /\ DOMAIN nodes' = DOMAIN nodes
        /\ \A n \in DOMAIN nodes :
             /\ \A f \in {"kind", "target", "loops"} : nodes'[n][f] = nodes[n][f]
             /\ n \notin {p, c} => nodes'[n] = nodes[n]
             /\ n = p /\ n # c => /\ nodes'[n].kids = Append(nodes[n].kids, c)
                                  /\ nodes'[n].parent = nodes[n].parent
             /\ n = c /\ n # p => nodes'[n].kids = nodes[n].kids /\ nodes'[n].parent = p
    BY <1>2, <1>6, LinkIs
  <2>3. ASSUME NEW n \in DOMAIN nodes
        PROVE  /\ nodes'[n].kind = nodes[n].kind /\ nodes'[n].target = nodes[n].target
               /\ nodes'[n].kids = IF n = p THEN Append(nodes[n].kids, c) ELSE nodes[n].kids
               /\ nodes'[n].parent = IF n = c THEN p ELSE nodes[n].parent
    <3>1. nodes'[n].kind = nodes[n].kind /\ nodes'[n].target = nodes[n].target
      BY <2>2
    <3>2. CASE n = p
      BY <2>1, <2>2, <3>1, <3>2
    <3>3. CASE n = c
      BY <2>1, <2>2, <3>1, <3>3
    <3>4. CASE n \notin {p, c}
      BY <2>2, <3>1, <3>4
    <3> QED  BY <3>2, <3>3, <3>4
  <2>4. DOMAIN nodes \subseteq Nat
    BY <1>6
  <2> QED  BY <1>5, <1>7, <2>2, <2>3, <2>4 DEF Linked
<1>10. \A j \in 1 .. d - 1 : calls'[j].node = calls[j].node /\ calls'[j].cfg = calls[j].cfg
  <2>1. calls'[d - 1].node = calls[d - 1].node /\ calls'[d - 1].cfg = calls[d - 1].cfg
    BY <1>2 DEF Call
  <2>2. \A j \in 1 .. d - 1 : j = d - 1 \/ j \in 1 .. d - 2
    BY <1>1
  <2>3. \A j \in 1 .. d - 2 : calls'[j] = calls[j]
    BY <1>2
  <2> HIDE DEF d
  <2> QED  BY <2>1, <2>2, <2>3
<1>11. /\ calls[d - 1].kid <= Len(list)
       /\ origin[c] = list[calls[d - 1].kid]
       /\ list \in Seq(DOMAIN map)
       /\ calls[d - 1].kid \in Nat \ {0} /\ calls[d].kid \in Nat \ {0}
  <2>1. /\ calls[d - 1].kid <= Len(Subtree(map[calls[d - 1].cfg]))
        /\ calls[d - 1 + 1].cfg = Subtree(map[calls[d - 1].cfg])[calls[d - 1].kid]
    <3>1. d - 1 \in 1 .. Len(calls) - 1
      BY <1>1
    <3> QED  BY <3>1 DEF TreeInv, CallsNested
  <2>2. calls[d - 1] \in Activation /\ calls[d] \in Activation
    <3> HIDE DEF d
    <3> QED  BY <1>1 DEF d
  <2>3. /\ calls[d - 1].cfg \in DOMAIN map
        /\ calls[d - 1].kid \in Nat \ {0} /\ calls[d].kid \in Nat \ {0}
    BY <2>2 DEF Activation
  <2>4. Subtree(map[calls[d - 1].cfg]) \in Seq(DOMAIN map)
    BY <2>3, MappingLists
  <2>5. d - 1 + 1 = d
    BY <1>1
  <2> QED  BY <1>5, <2>1, <2>3, <2>4, <2>5
<1>12. /\ KidsAt(p, nodes', origin, map)
       /\ Len(nodes'[p].kids) = Len(nodes[p].kids) + 1
       /\ ToSet(nodes'[p].kids) = ToSet(nodes[p].kids) \cup {c}
  <2>1. \A k \in ToSet(nodes[p].kids) : k < c
    <3>1. d - 1 \in 1 .. Opened - 1 /\ d - 1 + 1 = d
      BY <1>1, <1>3
    <3> QED  BY <3>1 DEF TreeInv, OpenInOrder
  <2>2. p \in Nat \ {0} /\ KidsAt(p, nodes, origin, map)
    BY <1>5, <1>6, <1>8
  <2>3. /\ Len(nodes[p].kids) < Len(list)
        /\ origin[c] = list[Len(nodes[p].kids) + 1]
    <3>1. \A k \in Nat \ {0} : k - 1 + 1 = k
      OBVIOUS
    <3>2. Len(list) \in Nat
      BY <1>11
    <3> HIDE DEF list, p, c, d
    <3> QED  BY <1>5, <1>11, <3>1, <3>2
  <2>4. Subtree(map[origin[p]]) \in Seq(DOMAIN map)
    BY <1>11
  <2>5. nodes[c].parent = nullptr
    BY <1>5
  <2>6. /\ Len(nodes[p].kids) < Len(Subtree(map[origin[p]]))
        /\ origin[c] = Subtree(map[origin[p]])[Len(nodes[p].kids) + 1]
    BY <2>3
  <2>7. Len(Subtree(map[origin[p]])) \in Nat
    BY <2>4
  <2> HIDE DEF p, c, d, map, list
  <2>8. NextKid(nodes, origin, map, p, c)
    BY <2>1, <2>2, <2>5, <2>6, <2>7 DEF NextKid
  <2> QED  BY <1>9, <2>2, <2>8, LinkedNew
<1>13. Len(nodes[c].kids) = Len(Subtree(map[origin[c]]))
  <2>1. ~(calls[d].kid <= Len(Subtree(map[calls[d].cfg])))
    BY <1>1, <1>2 DEF MoreChildren
  <2>2. Subtree(map[calls[d].cfg]) \in Seq(DOMAIN map)
    BY <1>1, TopCall, MappingLists DEF StructInv
  <2>3. Len(Subtree(map[calls[d].cfg])) \in Nat
    BY <2>2
  <2> QED  BY <1>5, <1>11, <2>1, <2>3
<1>14. CallsNested'
  <2>1. \A j \in 1 .. d - 2 : calls'[j] = calls[j] /\ calls'[j + 1].cfg = calls[j + 1].cfg
                              /\ j \in 1 .. d - 1
    BY <1>1, <1>2, <1>10
  <2>2. 1 \in 1 .. d - 1 /\ Len(calls') - 1 = d - 2
    BY <1>1, <1>2
  <2> QED  BY <1>2, <1>10, <2>1, <2>2 DEF TreeInv, CallsNested
<1>15. \A i, j \in 1 .. d : i < j => calls[i].node < calls[j].node
  <2>1. \A i, j \in 1 .. d : i < j => i \in 1 .. j - 1
    BY <1>1
  <2> QED  BY <1>3, <2>1 DEF TreeInv, OpenInOrder
<1>16. \A j \in 1 .. d - 2 : calls[j].node \in DOMAIN nodes /\ calls[j].node # p /\ calls[j].node # c
  <2> SUFFICES ASSUME NEW j \in 1 .. d - 2
               PROVE  calls[j].node \in DOMAIN nodes /\ calls[j].node # p /\ calls[j].node # c
    OBVIOUS
  <2>1. j \in 1 .. d /\ j < d - 1 /\ j < d
    BY <1>1
  <2>2. calls[j].node \in DOMAIN nodes
    BY <1>4, <2>1 DEF OpenAt
  <2>3. d - 1 \in 1 .. d /\ d \in 1 .. d
    BY <1>1
  <2>4. calls[j].node < p /\ calls[j].node < c
    BY <1>15, <2>1, <2>3
  <2>5. calls[j].node \in Nat /\ p \in Nat /\ c \in Nat
    BY <1>5, <1>6, <2>2
  <2> HIDE DEF p, c, d
  <2> QED  BY <2>2, <2>4, <2>5
<1>17. \A n \in DOMAIN nodes : n # p => nodes'[n].kids = nodes[n].kids
  BY <1>9 DEF Linked
<1>18. OpenInOrder'
  <2>1. calls'[1].node = 1
    <3>1. 1 \in 1 .. d - 1 /\ Opened # 0
      BY <1>1, <1>3
    <3> QED  BY <1>10, <3>1 DEF TreeInv, OpenInOrder
  <2>2. ASSUME NEW j \in 1 .. d - 1, NEW i \in 1 .. j - 1
        PROVE  calls'[i].node < calls'[j].node
    <3>1. i \in 1 .. d - 1 /\ j \in 1 .. d /\ i \in 1 .. d /\ i < j
      BY <1>1
    <3> QED  BY <1>10, <1>15, <3>1
  <2>3. ASSUME NEW j \in 1 .. d - 2, NEW k \in ToSet(nodes'[calls'[j].node].kids)
        PROVE  k < calls'[j + 1].node
    <3>1. j \in 1 .. d - 1 /\ j + 1 \in 1 .. d - 1 /\ j \in 1 .. Opened - 1
      BY <1>1, <1>3
    <3>2. calls'[j].node = calls[j].node /\ calls'[j + 1].node = calls[j + 1].node
      BY <1>10, <3>1
    <3>3. nodes'[calls[j].node].kids = nodes[calls[j].node].kids
      BY <1>16, <1>17
    <3> QED  BY <2>3, <3>1, <3>2, <3>3 DEF TreeInv, OpenInOrder
  <2>4. Opened' # 0 /\ Opened' - 1 = d - 2
    BY <1>1, <1>3
  <2> QED  BY <1>3, <2>1, <2>2, <2>3, <2>4 DEF OpenInOrder
<1>19. ASSUME NEW j \in 1 .. d - 1
       PROVE  OpenAt(calls'[j], nodes', origin, map)
  <2>1. CASE j = d - 1
    <3> DEFINE a == calls'[d - 1]
    <3>1. a.node = p /\ a.cfg = calls[d - 1].cfg /\ a.kid = calls[d - 1].kid + 1
      BY <1>2 DEF Call
    <3>2. nodes'[p].parent = nullptr /\ p \in DOMAIN nodes'
      <4> HIDE DEF p, c
      <4> QED  BY <1>5, <1>6, <1>7, <1>9 DEF Linked
    <3>3. Len(nodes'[p].kids) = a.kid - 1 /\ a.kid - 1 <= Len(Subtree(map[a.cfg]))
      <4>1. list = Subtree(map[a.cfg])
        BY <1>5, <3>1
      <4> HIDE DEF list, a, p, d
      <4> QED  BY <1>5, <1>11, <1>12, <3>1, <4>1
    <3> HIDE DEF a, p, map
    <3> QED  BY <1>5, <2>1, <3>1, <3>2, <3>3 DEF OpenAt, a
  <2>2. CASE j \in 1 .. d - 2
    <3>1. calls'[j] = calls[j] /\ j \in 1 .. d
      BY <1>1, <1>2, <2>2
    <3> DEFINE n == calls[j].node
    <3>2. n \in DOMAIN nodes' /\ nodes'[n].kids = nodes[n].kids /\ nodes'[n].parent = nodes[n].parent
      <4> n \in DOMAIN nodes /\ n # p /\ n # c
        BY <1>16, <2>2
      <4> HIDE DEF n, p, c
      <4> QED  BY <1>9 DEF Linked
    <3>3. OpenAt(calls[j], nodes, origin, map)
      BY <1>4, <3>1
    <3> QED  BY <3>1, <3>2, <3>3 DEF OpenAt
  <2> QED  BY <1>1, <2>1, <2>2
<1>20. OpenNodes = OpenNodes' \cup {c} /\ p \in OpenNodes'
  <2>1. /\ OpenNodes = {calls[j].node : j \in 1 .. d}
        /\ OpenNodes' = {calls'[j].node : j \in 1 .. d - 1}
    BY <1>3 DEF OpenNodes
  <2>2. 1 .. d = (1 .. d - 1) \cup {d} /\ d - 1 \in 1 .. d - 1
    BY <1>1
  <2>3. \A j \in 1 .. d - 1 : calls'[j].node = calls[j].node
    BY <1>10
  <2> HIDE DEF d
  <2> QED  BY <2>1, <2>2, <2>3 DEF p, c
<1> HIDE DEF p, c, d, map, levels, list
<1>21. ASSUME NEW n \in DOMAIN nodes'
       PROVE  /\ KidsAt(n, nodes', origin, map)
              /\ n \notin OpenNodes' => ClosedAt(n, nodes', origin, map)
              /\ DescribedAt(n, nodes', origin, map, levels)
  <2>1. /\ n \in DOMAIN nodes /\ n \in Nat \ {0}
        /\ KidsAt(n, nodes, origin, map)
        /\ DescribedAt(n, nodes, origin, map, levels)
        /\ n \notin OpenNodes => ClosedAt(n, nodes, origin, map)
    BY <1>6, <1>9 DEF Linked, TreeInv, map, levels
  <2>2. /\ n # p => KidsAt(n, nodes', origin, map)
        /\ DescribedAt(n, nodes', origin, map, levels)
    BY <1>5, <1>9, <2>1, LinkedKeeps
  <2>3. ASSUME n \notin OpenNodes'
        PROVE  ClosedAt(n, nodes', origin, map)
    <3>1. n # p
      BY <1>20, <2>3
    <3>2. CASE n = c
      <4>1. nodes'[n].parent = p /\ nodes'[n].kids = nodes[n].kids
        BY <1>9, <2>1, <3>1, <3>2 DEF Linked
      <4>2. p \in 1 .. n - 1
        BY <1>5, <1>6, <1>7, <3>2
      <4>3. n \in ToSet(nodes'[p].kids)
        BY <1>12, <3>2
      <4> QED  BY <1>13, <3>2, <4>1, <4>2, <4>3 DEF ClosedAt
    <3>3. CASE n # c
      <4>1. ClosedAt(n, nodes, origin, map)
        BY <1>20, <2>1, <2>3, <3>3
      <4> QED  BY <1>5, <1>6, <1>8, <1>9, <2>1, <3>1, <3>3, <4>1, LinkedKeeps
    <3> QED  BY <3>2, <3>3
  <2> QED  BY <1>12, <2>2, <2>3
<1> QED  BY <1>2, <1>3, <1>14, <1>18, <1>19, <1>21 DEF TreeInv, map, levels

\* A step keeps the tree.
LEMMA TreeStep ==
  ASSUME ProblemInv, StructInv, TreeInv, LoadedInv, NoNodesYet, [Next]_vars
  PROVE  TreeInv' /\ LoadedInv' /\ NoNodesYet'
<1>1. config' = config /\ (Rest \/ Work) /\ Reading /\ CallsInv
  BY StepIs DEF ProblemInv, StructInv
<1>2. CASE Rest
  <2>1. /\ UNCHANGED <<nodes, origin, calls, step>>
        /\ stage' \in Earlier => stage \in Earlier
        /\ stage \in Earlier \/ UNCHANGED archTopoName2Idx_map_
        /\ stage' = "loaded" => \/ stage = "loaded"
                                \/ stage = "mapping" /\ step = "children" /\ ~MoreChildren
                                   /\ Len(calls) = 1
    BY <1>2 DEF Rest, mappingVars, parserVars, archVars
  <2>2. nodes = <<>> \/ UNCHANGED archTopoName2Idx_map_
    BY <2>1 DEF NoNodesYet
  <2>3. TreeInv'
    BY <1>1, <2>1, <2>2, TreeFrame
  <2>4. MoreChildren' = MoreChildren
    BY <1>1, <2>1 DEF MoreChildren, Current, Last, Cfg
  <2> QED  BY <2>1, <2>3, <2>4 DEF LoadedInv, NoNodesYet
<1>3. CASE Work
  <2>1. stage' = "mapping" /\ UNCHANGED archVars
    BY <1>3 DEF Work
  <2>2. CASE BeginNode \/ ParseEnd \/ ParseResidual
    <3>1. /\ UNCHANGED <<nodes, origin, calls>>
          /\ {step, step'} \subseteq {"node", "end", "residual"}
      BY <2>2 DEF BeginNode, ParseEnd, ParseResidual, InMapping, Bound
    <3>2. UNCHANGED archTopoName2Idx_map_
      BY <2>1 DEF archVars
    <3> QED  BY <1>1, <2>1, <3>1, <3>2, TreeFrame DEF LoadedInv, NoNodesYet, Earlier
  <2>3. TreeInv'
    BY <1>1, <1>3, <2>1, <2>2, TreeBuild, TreeChild, TreeUp DEF Work
  <2> QED  BY <2>1, <2>3 DEF LoadedInv, NoNodesYet, Earlier
<1> QED  BY <1>1, <1>2, <1>3

\* The invariants of the tree hold before anything is read.
LEMMA TreeInitially ==
  ASSUME Init
  PROVE  TreeInv /\ LoadedInv /\ NoNodesYet
<1>1. MappingInit /\ stage = "levels"
  BY DEF Init
<1>2. /\ Len(calls) = 1 /\ calls[1].cfg = 1 /\ step = "node" /\ nodes = <<>>
  BY <1>1 DEF MappingInit, Call
<1>3. Opened = 0
  BY <1>2 DEF Opened
<1> QED  BY <1>1, <1>2, <1>3 DEF TreeInv, LoadedInv, NoNodesYet, CallsNested, OpenInOrder

\* Only the declaration of a level gives it a number.
LEMMA NamedStep ==
  ASSUME Reading, LevelsNamed, [Next]_vars
  PROVE  LevelsNamed'
<1>1. CASE ParseLevel /\ UNCHANGED config
  <2> DEFINE l == config.levels[next]
  <2>1. archTopoName2Idx_map_' = Put(archTopoName2Idx_map_, l.name, level_num_)
    BY <1>1 DEF ParseLevel, Entry
  <2>2. DOMAIN archTopoName2Idx_map_' = DOMAIN archTopoName2Idx_map_ \cup {l.name}
    <3> HIDE DEF l
    <3> QED  BY <2>1 DEF Put
  <2>3. next \in DOMAIN config.levels
    <3>1. Len(config.levels) \in Nat /\ DOMAIN config.levels = 1 .. Len(config.levels)
      BY LevelsAssumption, ListIs DEF Reading
    <3> QED  BY <1>1, <3>1 DEF Reading, ParseLevel, MoreOf
  <2> QED  BY <1>1, <2>2, <2>3 DEF LevelsNamed
<1>2. CASE UNCHANGED <<config, archTopoName2Idx_map_>>
  BY <1>2 DEF LevelsNamed
<1>3. CASE ParseArchitecture
  <2>1. ArchNext /\ UNCHANGED config
    BY <1>3 DEF ParseArchitecture
  <2>2. ParseLevel \/ UNCHANGED archTopoName2Idx_map_
    BY <2>1 DEF ArchNext, UnknownLevelType, EndLevels, ParseConnection, RefuseConnection,
                EndConnections, archVars
  <2> QED  BY <1>1, <1>2, <2>1, <2>2
<1>4. CASE ParseWorkloads \/ ParseMapping \/ Stop \/ UNCHANGED vars
  BY <1>2, <1>4 DEF ParseWorkloads, ParseMapping, Stop, vars, archVars
<1> QED  BY <1>3, <1>4 DEF Next, Parse

\* The inductive invariant of the parser of the mapping.
MappingInv == StructInv /\ TreeInv /\ LoadedInv /\ NoNodesYet /\ LevelsNamed

\* MappingInv holds throughout, with ProblemInv.
LEMMA MappingInvariant == Spec => [](ProblemInv /\ MappingInv)
<1>1. Init => MappingInv
  BY StructInitially, TreeInitially DEF MappingInv, Init, ArchInit, LevelsNamed
<1>2. ProblemInv /\ MappingInv /\ [Next]_vars => MappingInv'
  BY StructStep, TreeStep, NamedStep DEF MappingInv, ProblemInv
<1> QED  BY <1>1, <1>2, ProblemInvariant, PTL DEF Spec

\* The mapping that RecursiveParse returns is the tree of the input, however
\* deep and wide it is: no node is lost, hung twice or hung elsewhere.
THEOREM ParsesTheTree == Spec => []ParsedIsTree
<1>1. ProblemInv /\ MappingInv => ParsedIsTree
  <2> SUFFICES ASSUME ProblemInv, MappingInv, stage = "loaded"
               PROVE  ParsedIsTree
    BY DEF ParsedIsTree
  <2>1. /\ step = "children" /\ Len(calls) = 1 /\ ~MoreChildren /\ Reading
        /\ Opened = 1 /\ Current = calls[1] /\ Cfg = config.mapping[calls[1].cfg]
        /\ Current \in Activation
    BY TopCall DEF MappingInv, LoadedInv, Opened, ProblemInv, StructInv
  <2>2. /\ calls[1].cfg = 1 /\ calls[1].node = 1
        /\ OpenAt(calls[1], nodes, origin, config.mapping)
    BY <2>1 DEF MappingInv, TreeInv, CallsNested, OpenInOrder
  <2>3. OpenNodes = {1}
    BY <2>1, <2>2 DEF OpenNodes
  <2>4. /\ 1 \in DOMAIN nodes /\ origin[1] = 1 /\ nodes[1].parent = nullptr
        /\ Len(nodes[1].kids) = calls[1].kid - 1
        /\ calls[1].kid - 1 <= Len(Subtree(Cfg))
        /\ ~(calls[1].kid <= Len(Subtree(Cfg)))
    BY <2>1, <2>2 DEF OpenAt, MoreChildren
  <2>5. Cfg = Input(1)
    BY <2>1, <2>2, <2>4 DEF Input
  <2>6. \A n \in DOMAIN nodes : /\ origin[n] \in DOMAIN config.mapping
                                /\ Subtree(Input(n)) \in Seq(DOMAIN config.mapping)
    BY <2>1, MappingLists DEF MappingInv, StructInv, NodesInv, Input
  <2>7. Len(nodes[1].kids) = Len(Subtree(Input(1)))
    <3>1. Len(Subtree(Cfg)) \in Nat
      BY <2>4, <2>5, <2>6
    <3>2. calls[1].kid \in Nat
      BY <2>1 DEF Activation
    <3> QED  BY <2>4, <2>5, <3>1, <3>2
  <2>8. nodes # <<>> /\ origin[1] = 1
    BY <2>4
  <2>9. ASSUME NEW n \in DOMAIN nodes
        PROVE  LET kids == nodes[n].kids
                   parent == nodes[n].parent
               IN  /\ nodes[n].kind = Kind(Input(n))
                   /\ nodes[n].target = lookupValue(Input(n), "target", "")
                   /\ nodes[n].target # "" => \E i \in DOMAIN config.levels :
                                                config.levels[i].name = nodes[n].target
                   /\ [i \in DOMAIN kids |-> origin[kids[i]]] = Subtree(Input(n))
                   /\ \A i \in DOMAIN kids : /\ nodes[kids[i]].parent = n
                                             /\ \A j \in 1 .. i - 1 : kids[j] < kids[i]
                   /\ IF n = 1 THEN parent = nullptr
                      ELSE parent \in 1 .. n - 1 /\ n \in ToSet(nodes[parent].kids)
    <3> DEFINE kids == nodes[n].kids
               list == Subtree(Input(n))
    <3>1. /\ KidsAt(n, nodes, origin, config.mapping)
          /\ n # 1 => ClosedAt(n, nodes, origin, config.mapping)
          /\ DescribedAt(n, nodes, origin, config.mapping, DOMAIN archTopoName2Idx_map_)
      BY <2>3 DEF MappingInv, TreeInv
    <3>2. /\ nodes[n].kind = Kind(Input(n))
          /\ nodes[n].target = lookupValue(Input(n), "target", "")
          /\ exists(Input(n), "target") => nodes[n].target \in DOMAIN archTopoName2Idx_map_
      BY <3>1 DEF DescribedAt, Input
    <3>3. nodes[n].target # "" => \E i \in DOMAIN config.levels :
                                    config.levels[i].name = nodes[n].target
      BY <3>2 DEF lookupValue, MappingInv, LevelsNamed
    <3>4. Len(kids) = Len(list)
      BY <2>7, <3>1 DEF ClosedAt, Input
    <3>5. /\ kids \in Seq(DOMAIN nodes)
          /\ \A i \in 1 .. Len(kids) : /\ nodes[kids[i]].parent = n
                                       /\ origin[kids[i]] = list[i]
                                       /\ \A j \in 1 .. i - 1 : kids[j] < kids[i]
      BY <3>1 DEF KidsAt, Input
    <3>6. list \in Seq(DOMAIN config.mapping)
      BY <2>6
    <3>7. IF n = 1 THEN nodes[n].parent = nullptr
          ELSE nodes[n].parent \in 1 .. n - 1 /\ n \in ToSet(nodes[nodes[n].parent].kids)
      BY <2>4, <3>1 DEF ClosedAt
    <3> HIDE DEF kids, list
    <3>8. DOMAIN kids = 1 .. Len(kids) /\ list = [i \in 1 .. Len(list) |-> list[i]]
      BY <3>5, <3>6
    <3>9. [i \in DOMAIN kids |-> origin[kids[i]]] = list
      BY <3>4, <3>5, <3>8
    <3> QED  BY <3>2, <3>3, <3>5, <3>7, <3>8, <3>9 DEF kids, list
  <2> QED  BY <2>8, <2>9 DEF ParsedIsTree
<1> QED  BY <1>1, MappingInvariant, PTL

-----------------------------------------------------------------------------
(* The variables of the operations.                                         *)

\* No macro has a negative value: the program would take it for a variable.
MacrosCounted == \A c \in Configs : \A w \in DOMAIN c.macros : c.macros[w] \in Nat

\* A number, or a variable of the table.
Known(v, n) == v \in Int /\ (v < 0 => -v \in 1 .. n)

ValuesKnown ==
  /\ Known(end, idx)
  /\ \A d \in DOMAIN loop_bounds : /\ Known(loop_bounds[d][1], idx)
                                   /\ Known(loop_bounds[d][2], idx)

\* A variable was brought in by a tile, or by the operation that is being read.
DeclaredByTiles ==
  \A i \in 1 .. idx :
    \/ declaredIn[i] = "Tile"
    \/ step \in {"end", "residual"} /\ Kind(Cfg) = "Op" /\ i > symbol_num

\* The variable v of an operation's loop is a tile's.
TileVariable(v, n, declared) == v \in Int /\ (v < 0 => -v \in 1 .. n /\ declared[-v] = "Tile")

OpsInv ==
  \A n \in DOMAIN nodes : nodes[n].kind = "Op" =>
    \A i \in DOMAIN nodes[n].loops :
      /\ TileVariable(nodes[n].loops[i].end, idx, declaredIn)
      /\ TileVariable(nodes[n].loops[i].res, idx, declaredIn)

VariableInv == ValuesKnown /\ DeclaredByTiles /\ OpsInv

\* The words of a factor that is being read.
LEMMA WordsOfMatch ==
  ASSUME Reading, CallsInv, FactorsInv, step \in {"end", "residual"},
         factor <= Len(Cfg.factors)
  PROVE  /\ factor \in 1 .. Len(Cfg.factors)
         /\ Len(Match) \in {2, 3} /\ DOMAIN Match = 1 .. Len(Match)
         /\ \A p \in DOMAIN Match \ {1} :
              /\ Match[p] = <<Match[p][1], Match[p][2], Match[p][3]>>
              /\ strtol(Match[p]) \in Nat
<1>1. /\ exists(Cfg, "factors") /\ factor \in 1 .. Len(Cfg.factors) + 1
  BY DEF FactorsInv
<1>2. FactorsFit(Cfg.factors)
  BY <1>1, TopCall, MappingLists
<1>3. Len(Cfg.factors) \in Nat /\ DOMAIN Cfg.factors = 1 .. Len(Cfg.factors)
  BY <1>2, ListIs DEF FactorsFit
<1>4. factor \in DOMAIN Cfg.factors /\ Match = Cfg.factors[factor]
  BY <1>1, <1>3 DEF Match
<1>5. DOMAIN Match = 1 .. Len(Match)
  BY <1>2, <1>4 DEF FactorsFit
<1> QED  BY <1>1, <1>2, <1>3, <1>4, <1>5 DEF strtol, FactorsFit

\* What a step reads: nothing, or a number, or the variable that a word stands
\* for, which may be new.
LEMMA EndRead ==
  ASSUME MacrosCounted, Reading, StructInv, ParseEnd
  PROVE  \/ UNCHANGED <<symbolVars, declaredIn>> /\ end' \in Nat
         \/ InsertWord(Match[2]) /\ end' = InsertedWord(Match[2]) /\ IsVariable(Match[2])
<1>1. step = "end" /\ factor <= Len(Cfg.factors) /\ ReadEnd(Match[2])
  BY DEF ParseEnd, InMapping, MoreFactors
<1>2. strtol(Match[2]) \in Nat
  BY <1>1, WordsOfMatch DEF StructInv
<1>3. IsMacro(Match[2]) => config.macros[Match[2]] \in Nat
  BY DEF MacrosCounted, IsMacro, Reading
<1> QED  BY <1>1, <1>2, <1>3 DEF ReadEnd

\* The residual count is the trip count, a number or a variable, by the form
\* of the match.
LEMMA ResidualRead ==
  ASSUME Reading, StructInv, ParseResidual
  PROVE  \E residual :
           /\ Bound(residual)
           /\ \/ UNCHANGED <<symbolVars, declaredIn>> /\ residual = end /\ Len(Match) = 2
              \/ UNCHANGED <<symbolVars, declaredIn>> /\ residual \in Nat /\ Len(Match) = 3
              \/ /\ InsertWord(Match[3]) /\ residual = InsertedWord(Match[3])
                 /\ IsVariable(Match[3]) /\ Len(Match) = 3
<1>1. step = "residual"
  BY DEF ParseResidual, InMapping
<1>2. factor <= Len(Cfg.factors)
  BY <1>1 DEF StructInv, FactorsInv
<1>3. Len(Match) = 3 => strtol(Match[3]) \in Nat
  BY <1>1, <1>2, WordsOfMatch DEF StructInv
<1> QED  BY <1>3 DEF ParseResidual

\* Values stay known and variables stay the tiles' when the table grows.
LEMMA KnownLater ==
  ASSUME SymbolInv, NEW n \in {idx, idx + 1}, NEW declared,
         \A i \in 1 .. idx : declared[i] = declaredIn[i], NEW v
  PROVE  /\ Known(v, idx) => Known(v, n)
         /\ TileVariable(v, idx, declaredIn) => TileVariable(v, n, declared)
  BY DEF SymbolInv, Known, TileVariable

\* A word goes into the table while a node with loops is read.
LEMMA DeclaredLater ==
  ASSUME StructInv, DeclaredByTiles, step \in {"end", "residual"},
         step' \in {"end", "residual"}, UNCHANGED <<config, calls, symbol_num>>,
         NEW word, InsertWord(word)
  PROVE  DeclaredByTiles'
<1>1. /\ idx' \in {idx, idx + 1} /\ idx \in Nat
      /\ \A i \in 1 .. idx : declaredIn'[i] = declaredIn[i]
      /\ \A i \in idx + 1 .. idx' : declaredIn'[i] = Kind(Cfg)
  BY InsertIs DEF StructInv, SymbolInv
<1>2. Cfg' = Cfg /\ Kind(Cfg)' = Kind(Cfg)
  BY DEF Cfg, Current, Last, Kind
<1>3. Kind(Cfg) \in {"Tile", "Op"} /\ symbol_num \in 0 .. idx
  BY DEF StructInv, FactorsInv
<1> SUFFICES ASSUME NEW i \in 1 .. idx'
             PROVE  \/ declaredIn'[i] = "Tile"
                    \/ Kind(Cfg) = "Op" /\ i > symbol_num
  BY <1>2 DEF DeclaredByTiles
<1>4. CASE i \in 1 .. idx
  BY <1>1, <1>4 DEF DeclaredByTiles
<1>5. CASE i \in idx + 1 .. idx'
  BY <1>1, <1>3, <1>5
<1> QED  BY <1>1, <1>4, <1>5

\* Steps that leave the nodes alone and let the table grow at most.
LEMMA OpsFrame ==
  ASSUME SymbolInv, OpsInv, UNCHANGED nodes, idx' \in {idx, idx + 1},
         \A i \in 1 .. idx : declaredIn'[i] = declaredIn[i]
  PROVE  OpsInv'
<1> SUFFICES ASSUME NEW n \in DOMAIN nodes, nodes[n].kind = "Op", NEW i \in DOMAIN nodes[n].loops
             PROVE  /\ TileVariable(nodes[n].loops[i].end, idx', declaredIn')
                    /\ TileVariable(nodes[n].loops[i].res, idx', declaredIn')
  BY DEF OpsInv
<1>1. /\ TileVariable(nodes[n].loops[i].end, idx, declaredIn)
      /\ TileVariable(nodes[n].loops[i].res, idx, declaredIn)
  BY DEF OpsInv
<1> QED  BY <1>1, KnownLater

\* A node is constructed: an operation's variables are all tiles'.
LEMMA VariableBuild ==
  ASSUME StructInv, VariableInv, Build
  PROVE  VariableInv'
<1>1. PICK node, ids : Constructed(node, ids) /\ Fresh(node, ids)
  BY DEF Build
<1>2. /\ step \in {"node", "end"} /\ step' = "children"
      /\ UNCHANGED <<idx, declaredIn, end, loop_bounds>>
      /\ nodes' = Append(nodes, node)
  BY <1>1 DEF Build, Constructed, symbolVars
<1>3. /\ node.kind = Kind(Cfg)
      /\ \/ node.loops = <<>> /\ node.kind \notin {"Tile", "Op"}
         \/ /\ step = "end"
            /\ \A i \in DOMAIN node.loops : LoopValue(node.loops[i])
            /\ node.kind = "Op" => symbol_num = idx
      /\ idx \in Nat
  BY <1>1 DEF Fresh, StructInv, SymbolInv
<1>4. \A i \in 1 .. idx : declaredIn[i] = "Tile"
  <2> SUFFICES ASSUME NEW i \in 1 .. idx, declaredIn[i] # "Tile"  PROVE  FALSE
    OBVIOUS
  <2>1. step = "end" /\ Kind(Cfg) = "Op" /\ i > symbol_num
    BY <1>2 DEF VariableInv, DeclaredByTiles
  <2> QED  BY <1>3, <2>1
<1>5. ValuesKnown'
  BY <1>2 DEF VariableInv, ValuesKnown
<1>6. DeclaredByTiles'
  BY <1>2, <1>4 DEF DeclaredByTiles
<1>7. ASSUME node.kind = "Op", NEW i \in DOMAIN node.loops
      PROVE  /\ TileVariable(node.loops[i].end, idx, declaredIn)
             /\ TileVariable(node.loops[i].res, idx, declaredIn)
  <2> DEFINE l == node.loops[i]
  <2>1. LoopValue(l)
    BY <1>3, <1>7
  <2> HIDE DEF l
  <2>2. Known(l.end, idx) /\ Known(l.res, idx)
    <3>1. Known(0, idx)
      BY DEF Known
    <3>2. \A d \in DOMAIN loop_bounds : /\ Known(loop_bounds[d][1], idx)
                                        /\ Known(loop_bounds[d][2], idx)
      BY DEF VariableInv, ValuesKnown
    <3> QED  BY <2>1, <3>1, <3>2 DEF LoopValue
  <2>3. TileVariable(l.end, idx, declaredIn) /\ TileVariable(l.res, idx, declaredIn)
    BY <1>4, <2>2 DEF Known, TileVariable
  <2> QED  BY <2>3 DEF l
<1>8. OpsInv'
  <2>1. IsList(nodes)
    BY DEF StructInv, NodesInv
  <2>2. /\ Len(nodes) \in Nat /\ DOMAIN nodes = 1 .. Len(nodes)
        /\ Len(nodes') = Len(nodes) + 1 /\ nodes'[Len(nodes) + 1] = node
        /\ \A n \in 1 .. Len(nodes) : nodes'[n] = nodes[n]
    BY <1>2, <2>1 DEF IsList
  <2>3. DOMAIN nodes' = 1 .. Len(nodes) + 1
    BY <1>2, <2>1, <2>2, AppendList, ListIs
  <2>4. ASSUME NEW n \in DOMAIN nodes', nodes'[n].kind = "Op", NEW i \in DOMAIN nodes'[n].loops
        PROVE  /\ TileVariable(nodes'[n].loops[i].end, idx, declaredIn)
               /\ TileVariable(nodes'[n].loops[i].res, idx, declaredIn)
    <3>1. CASE n = Len(nodes) + 1
      BY <1>7, <2>2, <2>4, <3>1
    <3>2. CASE n \in 1 .. Len(nodes)
      BY <2>2, <2>4, <3>2 DEF VariableInv, OpsInv
    <3> QED  BY <2>2, <2>3, <3>1, <3>2
  <2> QED  BY <1>2, <2>4 DEF OpsInv
<1> QED  BY <1>5, <1>6, <1>8 DEF VariableInv

\* Every step keeps VariableInv.
LEMMA VariableStep ==
  ASSUME MacrosCounted, ProblemInv, StructInv, VariableInv, [Next]_vars
  PROVE  VariableInv'
<1>1. config' = config /\ (Rest \/ Work) /\ Reading /\ SymbolInv
  BY StepIs DEF ProblemInv, StructInv
<1>2. idx \in Nat
  BY <1>1 DEF SymbolInv
<1>3. CASE Rest \/ ParseChild \/ BeginNode
  <2>1. UNCHANGED <<idx, declaredIn, end, nodes>>
    BY <1>3 DEF Rest, ParseChild, BeginNode, mappingVars, parserVars, symbolVars
  <2>2. loop_bounds' \in {loop_bounds, <<>>}
    BY <1>3 DEF Rest, ParseChild, BeginNode, mappingVars, parserVars
  <2>3. ValuesKnown' /\ OpsInv'
    BY <2>1, <2>2 DEF VariableInv, ValuesKnown, OpsInv
  <2>4. DeclaredByTiles'
    <3>1. CASE Rest
      <4>1. UNCHANGED <<calls, step, symbol_num>> /\ Cfg' = Cfg /\ Kind(Cfg)' = Kind(Cfg)
        BY <1>1, <3>1 DEF Rest, mappingVars, parserVars, Cfg, Current, Last, Kind
      <4> QED  BY <2>1, <4>1 DEF VariableInv, DeclaredByTiles
    <3>2. CASE ParseChild \/ BeginNode
      <4>1. step \in {"node", "children"}
        BY <3>2 DEF ParseChild, BeginNode, InMapping
      <4> QED  BY <2>1, <4>1 DEF VariableInv, DeclaredByTiles
    <3> QED  BY <1>3, <3>1, <3>2
  <2> QED  BY <2>3, <2>4 DEF VariableInv
<1>4. CASE Build
  BY <1>4, VariableBuild
<1>5. CASE Up
  <2>1. /\ step = "children" /\ step' = "children"
        /\ UNCHANGED <<idx, declaredIn, end, loop_bounds>>
    BY <1>5 DEF Up, symbolVars
  <2>2. PICK p, c : nodes' = add_child(p, c)
    BY <1>5 DEF Up
  <2>3. IsList(nodes) /\ \A n \in DOMAIN nodes : NodeFields \subseteq DOMAIN nodes[n]
    BY DEF StructInv, NodesInv
  <2>4. /\ DOMAIN nodes' = DOMAIN nodes
        /\ \A n \in DOMAIN nodes : /\ nodes'[n].loops = nodes[n].loops
                                   /\ nodes'[n].kind = nodes[n].kind
    BY <2>2, <2>3, LinkIs
  <2> QED  BY <2>1, <2>4 DEF VariableInv, ValuesKnown, DeclaredByTiles, OpsInv
<1>6. CASE ParseEnd
  <2>1. /\ step = "end" /\ step' = "residual"
        /\ UNCHANGED <<nodes, calls, symbol_num, loop_bounds>>
    BY <1>6 DEF ParseEnd, InMapping
  <2>2. /\ idx' \in {idx, idx + 1} /\ \A i \in 1 .. idx : declaredIn'[i] = declaredIn[i]
        /\ Known(end', idx')
        /\ DeclaredByTiles'
    <3>1. CASE UNCHANGED <<symbolVars, declaredIn>> /\ end' \in Nat
      <4>1. idx' = idx /\ Cfg' = Cfg /\ Kind(Cfg)' = Kind(Cfg)
        BY <1>1, <2>1, <3>1 DEF symbolVars, Cfg, Current, Last, Kind
      <4>2. DeclaredByTiles'
        BY <2>1, <3>1, <4>1 DEF VariableInv, DeclaredByTiles
      <4>3. Known(end', idx')
        <5>1. \A v \in Nat : \A n : Known(v, n)
          BY DEF Known
        <5>2. end' \in Nat
          BY <3>1
        <5> QED  BY <5>1, <5>2
      <4> QED  BY <3>1, <4>1, <4>2, <4>3
    <3>2. CASE InsertWord(Match[2]) /\ end' = InsertedWord(Match[2])
      <4>1. DeclaredByTiles'
        BY <1>1, <2>1, <3>2, DeclaredLater DEF VariableInv
      <4> QED  BY <1>1, <3>2, <4>1, InsertIs DEF Known
    <3> QED  BY <1>1, <1>6, <3>1, <3>2, EndRead
  <2>3. ValuesKnown'
    BY <1>1, <2>1, <2>2, KnownLater DEF VariableInv, ValuesKnown
  <2>4. OpsInv'
    BY <1>1, <2>1, <2>2, OpsFrame DEF VariableInv
  <2> QED  BY <2>2, <2>3, <2>4 DEF VariableInv
<1>7. CASE ParseResidual
  <2>1. PICK residual :
           /\ Bound(residual)
           /\ \/ UNCHANGED <<symbolVars, declaredIn>> /\ residual = end
              \/ UNCHANGED <<symbolVars, declaredIn>> /\ residual \in Nat
              \/ InsertWord(Match[3]) /\ residual = InsertedWord(Match[3])
    BY <1>1, <1>7, ResidualRead
  <2>2. /\ step = "residual" /\ step' = "end"
        /\ UNCHANGED <<nodes, calls, symbol_num, end>>
        /\ loop_bounds' = Put(loop_bounds, Match[1], <<end, residual>>)
    BY <1>7, <2>1 DEF ParseResidual, InMapping, Bound
  <2>3. /\ idx' \in {idx, idx + 1} /\ \A i \in 1 .. idx : declaredIn'[i] = declaredIn[i]
        /\ Known(residual, idx')
        /\ DeclaredByTiles'
    <3>1. CASE UNCHANGED <<symbolVars, declaredIn>> /\ (residual = end \/ residual \in Nat)
      <4>1. idx' = idx /\ Cfg' = Cfg /\ Kind(Cfg)' = Kind(Cfg)
        BY <1>1, <2>2, <3>1 DEF symbolVars, Cfg, Current, Last, Kind
      <4>2. DeclaredByTiles'
        BY <2>2, <3>1, <4>1 DEF VariableInv, DeclaredByTiles
      <4> QED  BY <3>1, <4>1, <4>2 DEF Known, VariableInv, ValuesKnown
    <3>2. CASE InsertWord(Match[3]) /\ residual = InsertedWord(Match[3])
      <4>1. DeclaredByTiles'
        BY <1>1, <2>2, <3>2, DeclaredLater DEF VariableInv
      <4> QED  BY <1>1, <3>2, <4>1, InsertIs DEF Known
    <3> QED  BY <2>1, <3>1, <3>2
  <2>4. ValuesKnown'
    <3>1. Known(end, idx') /\ \A d \in DOMAIN loop_bounds : /\ Known(loop_bounds[d][1], idx')
                                                            /\ Known(loop_bounds[d][2], idx')
      BY <1>1, <2>3, KnownLater DEF VariableInv, ValuesKnown
    <3>2. /\ DOMAIN loop_bounds' = DOMAIN loop_bounds \cup {Match[1]}
          /\ \A d \in DOMAIN loop_bounds' :
               loop_bounds'[d] = IF d = Match[1] THEN <<end, residual>> ELSE loop_bounds[d]
      BY <2>2 DEF Put
    <3>3. ASSUME NEW d \in DOMAIN loop_bounds'
          PROVE  Known(loop_bounds'[d][1], idx') /\ Known(loop_bounds'[d][2], idx')
      <4>1. CASE d = Match[1]
        BY <2>3, <3>1, <3>2, <4>1
      <4>2. CASE d # Match[1]
        BY <3>1, <3>2, <4>2
      <4> QED  BY <4>1, <4>2
    <3> QED  BY <2>2, <3>1, <3>3 DEF ValuesKnown
  <2>5. OpsInv'
    BY <1>1, <2>2, <2>3, OpsFrame DEF VariableInv
  <2> QED  BY <2>3, <2>4, <2>5 DEF VariableInv
<1> QED  BY <1>1, <1>3, <1>4, <1>5, <1>6, <1>7 DEF Work

\* An operation has no variable of its own (mapping.cpp 213), wherever it
\* stands in the mapping and whatever is written in its factors.
THEOREM OpsReuse == ASSUME MacrosCounted PROVE Spec => []OpsReuseVariables
<1>1. Init => VariableInv
  BY DEF Init, MappingInit, SymbolsInit, VariableInv, ValuesKnown, DeclaredByTiles, OpsInv, Known
<1>2. ProblemInv /\ StructInv /\ VariableInv /\ [Next]_vars => VariableInv'
  BY VariableStep
<1>3. VariableInv => OpsReuseVariables
  BY DEF VariableInv, OpsInv, TileVariable, OpsReuseVariables
<1> QED  BY <1>1, <1>2, <1>3, StructInvariant, PTL DEF Spec

-----------------------------------------------------------------------------
(* The names of the variables.                                              *)

\* The words that were read of the node that is being read and that no later
\* factor replaced.
KeptSoFar ==
  IF step \in {"end", "residual"}
  THEN {k \in (1 .. factor - 1) \X {2, 3} :
         /\ k[2] \in DOMAIN Cfg.factors[k[1]]
         /\ \A g \in k[1] + 1 .. factor - 1 : Cfg.factors[g][1] # Cfg.factors[k[1]][1]}
  ELSE {}

\* A word is held in a place <<node, factor, part>> with the value it stands
\* for: in the loops of a node, in loop_bounds, or in end.
HeldDone == {<<r, ValueOf(r), WordOf(r)>> : r \in Read}

HeldOpen == {<< <<Len(nodes) + 1, k[1], k[2]>>, loop_bounds[Cfg.factors[k[1]][1]][k[2] - 1],
                Cfg.factors[k[1]][k[2]] >> : k \in KeptSoFar}

HeldEnd == IF step = "residual"
           THEN {<< <<Len(nodes) + 1, factor, 2>>, end, Match[2] >>} ELSE {}

Held == HeldDone \cup HeldOpen \cup HeldEnd

\* v is what word w stands for in a table of n variables.
Fits(v, w, n, table) ==
  /\ v \in Int
  /\ v < 0 =>
       /\ w = <<"variable", w[2], w[3]>>
       /\ -v \in 1 .. n
       /\ ~IsAnonymous(w) => /\ <<w[2], w[3]>> \in DOMAIN table
                             /\ table[<<w[2], w[3]>>] = -v

\* Words stand for the variables of their names, and an anonymous one for a
\* variable that it shares with no other anonymous one.
NamesFit(held, n, table) ==
  /\ \A h \in held : Fits(h[2], h[3], n, table)
  /\ \A g, h \in held : g[2] < 0 /\ g[2] = h[2] /\ IsAnonymous(g[3]) /\ IsAnonymous(h[3])
                          => g[1] = h[1]

\* Every factor that was read has its entry in loop_bounds.
FactorsBound ==
  step \in {"end", "residual"} =>
    \A f \in 1 .. factor - 1 : Cfg.factors[f][1] \in DOMAIN loop_bounds

NameInv == FactorsBound /\ NamesFit(Held, idx, name2idx_)

\* Nothing new is held.
LEMMA NamesKept ==
  ASSUME NEW held, NEW held2, NEW n, NEW table, NamesFit(held, n, table), held2 \subseteq held
  PROVE  NamesFit(held2, n, table)
  BY DEF NamesFit

\* A number is new.
LEMMA NamesAndNumber ==
  ASSUME NEW held, NEW held2, NEW n, NEW table, NamesFit(held, n, table),
         NEW slot, NEW v \in Nat, NEW w, held2 \subseteq held \cup {<<slot, v, w>>}
  PROVE  NamesFit(held2, n, table)
<1> DEFINE new == <<slot, v, w>>
<1>1. new[1] = slot /\ new[2] = v /\ new[3] = w /\ ~(v < 0)
  OBVIOUS
<1>2. Fits(v, w, n, table)
  BY <1>1 DEF Fits
<1> HIDE DEF new
<1>3. \A h \in held2 : h \in held \/ h = new
  BY DEF new
<1> QED  BY <1>1, <1>2, <1>3 DEF NamesFit

\* A variable is new, or was in the table under its name.
LEMMA NamesAndVariable ==
  ASSUME SymbolInv, NEW held, NEW held2, NamesFit(held, idx, name2idx_), NEW slot, NEW w,
         InsertWord(w), w = <<"variable", w[2], w[3]>>,
         held2 \subseteq held \cup {<<slot, InsertedWord(w), w>>}
  PROVE  NamesFit(held2, idx', name2idx_')
<1> DEFINE v == InsertedWord(w)
           new == <<slot, v, w>>
<1>1. /\ idx' \in {idx, idx + 1} /\ idx \in Nat
      /\ \A n \in DOMAIN name2idx_ : n \in DOMAIN name2idx_' /\ name2idx_'[n] = name2idx_[n]
      /\ v \in Int /\ -v \in 1 .. idx'
      /\ IsAnonymous(w) => -v = idx + 1
      /\ ~IsAnonymous(w) => /\ <<w[2], w[3]>> \in DOMAIN name2idx_'
                            /\ -v = name2idx_'[<<w[2], w[3]>>]
  BY InsertIs DEF SymbolInv
<1> HIDE DEF v
<1>2. new[1] = slot /\ new[2] = v /\ new[3] = w
  OBVIOUS
<1> HIDE DEF new
<1>3. \A h \in held2 : h \in held \/ h = new
  BY DEF new, v
<1>4. Fits(new[2], new[3], idx', name2idx_')
  BY <1>1, <1>2 DEF Fits
<1>5. \A h \in held : Fits(h[2], h[3], idx, name2idx_)
  BY DEF NamesFit
<1>6. \A h \in held : Fits(h[2], h[3], idx', name2idx_')
  <2> SUFFICES ASSUME NEW h \in held  PROVE  Fits(h[2], h[3], idx', name2idx_')
    OBVIOUS
  <2>1. Fits(h[2], h[3], idx, name2idx_)
    BY <1>5
  <2>2. 1 .. idx \subseteq 1 .. idx'
    BY <1>1
  <2> QED  BY <1>1, <2>1, <2>2 DEF Fits
<1>7. \A h \in held : h[2] < 0 => h[2] \in Int /\ -h[2] \in 1 .. idx
  BY <1>5 DEF Fits
<1>8. ASSUME NEW g \in held2, NEW h \in held2, g[2] < 0, g[2] = h[2],
             IsAnonymous(g[3]), IsAnonymous(h[3])
      PROVE  g[1] = h[1]
  <2>1. CASE g \in held /\ h \in held
    BY <1>8, <2>1 DEF NamesFit
  <2>2. CASE g = new /\ h = new
    BY <2>2
  <2>3. \A e \in held : ~(e[2] < 0 /\ e[2] = v /\ IsAnonymous(w))
    BY <1>1, <1>7
  <2>4. ~(g = new /\ h \in held)
    BY <1>2, <1>8, <2>3
  <2>5. ~(g \in held /\ h = new)
    BY <1>2, <1>8, <2>3
  <2> QED  BY <1>3, <2>1, <2>2, <2>4, <2>5
<1>9. \A h \in held2 : Fits(h[2], h[3], idx', name2idx_')
  BY <1>3, <1>4, <1>6
<1> QED  BY <1>8, <1>9 DEF NamesFit

\* What a node holds depends on its loops and its entry.
LEMMA NodeHolds ==
  ASSUME NEW n, nodes'[n].loops = nodes[n].loops, origin'[n] = origin[n], config' = config
  PROVE  /\ Kept(n)' = Kept(n)
         /\ \A f, p : LET r == <<n, f, p>> IN
                        ValueOf(r)' = ValueOf(r) /\ WordOf(r)' = WordOf(r)
<1>1. Factors(n)' = Factors(n)
  BY DEF Factors, Input
<1>2. Kept(n)' = Kept(n)
  BY <1>1 DEF Kept
<1> SUFFICES ASSUME NEW f, NEW p
             PROVE  /\ ValueOf(<<n, f, p>>)' = ValueOf(<<n, f, p>>)
                    /\ WordOf(<<n, f, p>>)' = WordOf(<<n, f, p>>)
  BY <1>2
<1> QED  BY DEF ValueOf, WordOf, Factors, Input

\* Steps that leave the loops alone.
LEMMA DoneKept ==
  ASSUME config' = config, UNCHANGED origin, DOMAIN nodes' = DOMAIN nodes,
         \A n \in DOMAIN nodes : nodes'[n].loops = nodes[n].loops
  PROVE  HeldDone' = HeldDone
<1>1. \A n \in DOMAIN nodes :
        /\ Kept(n)' = Kept(n)
        /\ \A f, p : /\ ValueOf(<<n, f, p>>)' = ValueOf(<<n, f, p>>)
                     /\ WordOf(<<n, f, p>>)' = WordOf(<<n, f, p>>)
  BY NodeHolds
<1>2. Read' = Read
  BY <1>1 DEF Read
<1>3. \A r \in Read : \E n \in DOMAIN nodes : \E f, p : r = <<n, f, p>>
  BY DEF Read
<1>4. \A r \in Read : ValueOf(r)' = ValueOf(r) /\ WordOf(r)' = WordOf(r)
  BY <1>1, <1>3
<1> QED  BY <1>2, <1>4 DEF HeldDone

\* The value of a loop of a new node is that of its dimension in loop_bounds.
LEMMA PartIs ==
  ASSUME NEW loops, NEW d, NEW part \in {2, 3}, d \in DOMAIN loop_bounds,
         \E i \in DOMAIN loops : loops[i].dim = d,
         \A i \in DOMAIN loops : LoopValue(loops[i])
  PROVE  LoopPart(loops, d, part) = loop_bounds[d][part - 1]
<1> DEFINE l == CHOOSE i \in DOMAIN loops : loops[i].dim = d
<1>1. l \in DOMAIN loops /\ loops[l].dim = d
  OBVIOUS
<1>2. LoopValue(loops[l])
  BY <1>1
<1>3. LoopPart(loops, d, part) = IF part = 2 THEN loops[l].end ELSE loops[l].res
  BY DEF LoopPart
<1> HIDE DEF l
<1>4. loops[l].end = loop_bounds[d][1] /\ loops[l].res = loop_bounds[d][2]
  BY <1>1, <1>2 DEF LoopValue
<1> QED  BY <1>3, <1>4

\* A node that is constructed takes over what was held for it.
LEMMA HeldBuild ==
  ASSUME Reading, StructInv, FactorsBound, Build, config' = config
  PROVE  Held' \subseteq Held
<1>1. PICK node, ids : Constructed(node, ids) /\ Fresh(node, ids)
  BY DEF Build
<1> DEFINE N == Len(nodes)
<1>2. /\ step' = "children" /\ UNCHANGED <<factor, loop_bounds>>
      /\ nodes' = Append(nodes, node) /\ origin' = Append(origin, Current.cfg)
  BY <1>1 DEF Build, Constructed
<1>3. /\ IsList(nodes) /\ IsList(origin) /\ N \in Nat /\ DOMAIN nodes = 1 .. N /\ Len(origin) = N
  BY ListIs DEF StructInv, NodesInv
<1>4. /\ Len(nodes') = N + 1 /\ nodes'[N + 1] = node /\ origin'[N + 1] = Current.cfg
      /\ \A n \in 1 .. N : nodes'[n] = nodes[n] /\ origin'[n] = origin[n]
  BY <1>2, <1>3 DEF IsList
<1>5. DOMAIN nodes' = 1 .. N + 1
  BY <1>2, <1>3, <1>4, AppendList, ListIs
<1>6. HeldOpen' = {} /\ HeldEnd' = {}
  <2>1. KeptSoFar' = {}
    BY <1>2 DEF KeptSoFar
  <2> QED  BY <1>2, <2>1 DEF HeldOpen, HeldEnd
<1> SUFFICES ASSUME NEW n \in 1 .. N + 1, NEW k \in Kept(n)'
             PROVE  LET r == <<n, k[1], k[2]>>
                    IN  <<r, ValueOf(r)', WordOf(r)'>> \in Held
  <2>1. \A r \in Read' : \E n \in 1 .. N + 1 : \E k \in Kept(n)' : r = <<n, k[1], k[2]>>
    BY <1>5 DEF Read
  <2>2. HeldDone' = {<<r, ValueOf(r)', WordOf(r)'>> : r \in Read'}
    BY DEF HeldDone
  <2> HIDE DEF N
  <2> QED  BY <1>6, <2>1, <2>2 DEF Held
<1>7. CASE n \in 1 .. N
  <2>1. /\ Kept(n)' = Kept(n)
        /\ \A f, p : /\ ValueOf(<<n, f, p>>)' = ValueOf(<<n, f, p>>)
                     /\ WordOf(<<n, f, p>>)' = WordOf(<<n, f, p>>)
    BY <1>4, <1>7, NodeHolds
  <2>2. <<n, k[1], k[2]>> \in Read
    BY <1>3, <1>7, <2>1 DEF Read
  <2> QED  BY <2>1, <2>2 DEF Held, HeldDone
<1>8. CASE n = N + 1
  <2>1. Factors(n)' = lookupValue(Cfg, "factors", <<>>) /\ nodes'[n].loops = node.loops
    BY <1>4, <1>8 DEF Factors, Input, Cfg
  <2> DEFINE fs == lookupValue(Cfg, "factors", <<>>)
             f == fs[k[1]]
  <2>2. /\ k \in (DOMAIN fs) \X {2, 3} /\ k[2] \in DOMAIN f
        /\ \A g \in k[1] + 1 .. Len(fs) : fs[g][1] # f[1]
        /\ \E i \in DOMAIN node.loops : node.loops[i].dim = f[1]
    BY <2>1 DEF Kept
  <2>3. /\ step = "end" /\ ~MoreFactors
        /\ \A i \in DOMAIN node.loops : LoopValue(node.loops[i])
    <3>1. node.loops # <<>>
      BY <2>2
    <3> QED  BY <1>1, <3>1 DEF Fresh
  <2>4. /\ exists(Cfg, "factors") /\ factor \in 1 .. Len(Cfg.factors) + 1
    BY <2>3 DEF StructInv, FactorsInv
  <2>5. fs = Cfg.factors
    BY <2>4 DEF lookupValue
  <2>6. Len(Cfg.factors) \in Nat /\ DOMAIN Cfg.factors = 1 .. Len(Cfg.factors)
    BY <2>4, CfgFactors DEF StructInv
  <2>7. factor - 1 = Len(Cfg.factors)
    BY <2>3, <2>4, <2>6 DEF MoreFactors
  <2>8. k \in KeptSoFar /\ k[1] \in 1 .. factor - 1 /\ k[2] \in {2, 3}
    BY <2>2, <2>3, <2>5, <2>6, <2>7 DEF KeptSoFar
  <2>9. f[1] \in DOMAIN loop_bounds
    BY <2>3, <2>5, <2>8 DEF FactorsBound
  <2>10. ValueOf(<<n, k[1], k[2]>>)' = LoopPart(node.loops, f[1], k[2])
    BY <1>4, <1>8 DEF ValueOf, Factors, Input, Cfg
  <2>11. WordOf(<<n, k[1], k[2]>>)' = f[k[2]]
    BY <1>4, <1>8 DEF WordOf, Factors, Input, Cfg
  <2>12. LoopPart(node.loops, f[1], k[2]) = loop_bounds[f[1]][k[2] - 1]
    <3> HIDE DEF f
    <3> QED  BY <2>2, <2>3, <2>8, <2>9, PartIs
  <2>13. << <<N + 1, k[1], k[2]>>, loop_bounds[f[1]][k[2] - 1], f[k[2]] >> \in HeldOpen
    BY <2>5, <2>8 DEF HeldOpen
  <2> HIDE DEF f, N
  <2> QED  BY <1>8, <2>10, <2>11, <2>12, <2>13 DEF Held
<1> QED  BY <1>3, <1>7, <1>8

\* Steps that neither construct a node nor read a word hold no more.
LEMMA HeldFrame ==
  ASSUME StructInv, config' = config, Rest \/ BeginNode \/ ParseChild \/ Up
  PROVE  /\ Held' \subseteq Held /\ UNCHANGED symbolVars
         /\ FactorsBound => FactorsBound'
<1>1. HeldDone' = HeldDone /\ Len(nodes') = Len(nodes)
  <2>1. CASE Up
    <3>1. IsList(nodes) /\ \A n \in DOMAIN nodes : NodeFields \subseteq DOMAIN nodes[n]
      BY DEF StructInv, NodesInv
    <3>2. PICK p, c : nodes' = add_child(p, c)
      BY <2>1 DEF Up
    <3>3. /\ DOMAIN nodes' = DOMAIN nodes /\ Len(nodes') = Len(nodes)
          /\ \A n \in DOMAIN nodes : nodes'[n].loops = nodes[n].loops
      BY <3>1, <3>2, LinkIs
    <3>4. UNCHANGED origin
      BY <2>1 DEF Up
    <3> QED  BY <3>3, <3>4, DoneKept
  <2>2. CASE Rest \/ BeginNode \/ ParseChild
    <3>1. UNCHANGED <<nodes, origin>>
      BY <2>2 DEF Rest, BeginNode, ParseChild, mappingVars, parserVars
    <3> QED  BY <3>1, DoneKept
  <2> QED  BY <2>1, <2>2
<1>2. CASE Rest
  <2>1. UNCHANGED <<nodes, calls, step, factor, loop_bounds, end, symbolVars>>
    BY <1>2 DEF Rest, mappingVars, parserVars
  <2>2. Cfg' = Cfg /\ Match' = Match
    BY <2>1 DEF Cfg, Current, Last, Match
  <2>3. KeptSoFar' = KeptSoFar
    BY <2>1, <2>2 DEF KeptSoFar
  <2>4. HeldOpen' = HeldOpen /\ HeldEnd' = HeldEnd
    BY <2>1, <2>2, <2>3 DEF HeldOpen, HeldEnd
  <2>5. FactorsBound => FactorsBound'
    BY <2>1, <2>2 DEF FactorsBound
  <2> QED  BY <1>1, <2>1, <2>4, <2>5 DEF Held
<1>3. CASE BeginNode \/ ParseChild \/ Up
  <2>1. /\ (step' = "end" /\ factor' = 1) \/ step' \in {"node", "children"}
        /\ UNCHANGED symbolVars
    BY <1>3 DEF BeginNode, ParseChild, Up
  <2>2. KeptSoFar' = {}
    <3>1. factor' = 1 => 1 .. factor' - 1 = {}
      OBVIOUS
    <3> QED  BY <2>1, <3>1 DEF KeptSoFar
  <2>3. HeldOpen' = {} /\ HeldEnd' = {}
    BY <2>1, <2>2 DEF HeldOpen, HeldEnd
  <2>4. FactorsBound'
    <3>1. factor' = 1 => 1 .. factor' - 1 = {}
      OBVIOUS
    <3> QED  BY <2>1, <3>1 DEF FactorsBound
  <2> QED  BY <1>1, <2>1, <2>3, <2>4 DEF Held
<1> QED  BY <1>2, <1>3

\* The end of a factor is read.
LEMMA HeldEndRead ==
  ASSUME StructInv, FactorsBound, config' = config, ParseEnd
  PROVE  /\ Held' \subseteq Held \cup {<< <<Len(nodes) + 1, factor, 2>>, end', Match[2] >>}
         /\ FactorsBound'
<1>1. /\ step = "end" /\ step' = "residual"
      /\ UNCHANGED <<nodes, origin, calls, factor, loop_bounds>>
  BY DEF ParseEnd, InMapping
<1>2. Cfg' = Cfg /\ Match' = Match
  BY <1>1 DEF Cfg, Current, Last, Match
<1>3. KeptSoFar' = KeptSoFar
  BY <1>1, <1>2 DEF KeptSoFar
<1>4. HeldOpen' = HeldOpen
  BY <1>1, <1>2, <1>3 DEF HeldOpen
<1>5. HeldDone' = HeldDone
  BY <1>1, DoneKept
<1>6. HeldEnd' = {<< <<Len(nodes) + 1, factor, 2>>, end', Match[2] >>}
  BY <1>1, <1>2 DEF HeldEnd
<1>7. FactorsBound'
  BY <1>1, <1>2 DEF FactorsBound
<1> QED  BY <1>4, <1>5, <1>6, <1>7 DEF Held

\* The residual end is read, and both go into loop_bounds.
LEMMA HeldResidualRead ==
  ASSUME Reading, StructInv, FactorsBound, config' = config, ParseResidual,
         NEW residual, Bound(residual)
  PROVE  /\ FactorsBound'
         /\ Held' \subseteq Held \cup {<< <<Len(nodes) + 1, factor, 3>>, residual, Match[3] >>}
         /\ Len(Match) = 2 => Held' \subseteq Held
<1> DEFINE N == Len(nodes) + 1
           d == Match[1]
           fs == Cfg.factors
<1>1. /\ step = "residual" /\ step' = "end" /\ factor' = factor + 1
      /\ loop_bounds' = Put(loop_bounds, d, <<end, residual>>)
      /\ UNCHANGED <<nodes, origin, calls>>
  BY DEF ParseResidual, InMapping, Bound
<1>2. Cfg' = Cfg
  BY <1>1 DEF Cfg, Current, Last
<1>3. /\ factor \in 1 .. Len(fs) /\ DOMAIN Match = 1 .. Len(Match) /\ Len(Match) \in {2, 3}
      /\ exists(Cfg, "factors")
  <2>1. exists(Cfg, "factors") /\ factor <= Len(Cfg.factors)
    BY <1>1 DEF StructInv, FactorsInv
  <2> QED  BY <1>1, <2>1, WordsOfMatch DEF StructInv
<1>4. Len(fs) \in Nat
  BY <1>3, CfgFactors DEF StructInv
<1>5. Match = fs[factor]
  BY DEF Match
<1>6. /\ DOMAIN loop_bounds' = DOMAIN loop_bounds \cup {d}
      /\ loop_bounds'[d] = <<end, residual>>
      /\ \A e \in DOMAIN loop_bounds : e # d => loop_bounds'[e] = loop_bounds[e]
  <2> HIDE DEF d
  <2> QED  BY <1>1 DEF Put
<1>7. factor' - 1 = factor /\ factor \in Nat \ {0}
  BY <1>1, <1>3, <1>4
<1>8. FactorsBound'
  <2>1. ASSUME NEW f \in 1 .. factor
        PROVE  fs[f][1] \in DOMAIN loop_bounds'
    <3>1. CASE f = factor
      BY <1>5, <1>6, <3>1
    <3>2. CASE f \in 1 .. factor - 1
      BY <1>1, <1>6, <3>2 DEF FactorsBound
    <3> QED  BY <1>7, <3>1, <3>2
  <2> QED  BY <1>2, <1>7, <2>1 DEF FactorsBound
<1>9. HeldDone' = HeldDone /\ HeldEnd' = {}
  BY <1>1, DoneKept DEF HeldEnd
<1>10. ASSUME NEW k \in KeptSoFar'
       PROVE  LET h == << <<N, k[1], k[2]>>, loop_bounds'[fs[k[1]][1]][k[2] - 1], fs[k[1]][k[2]] >>
              IN  \/ h \in Held
                  \/ h = << <<N, factor, 3>>, residual, Match[3] >> /\ Len(Match) # 2
  <2>1. /\ k \in (1 .. factor) \X {2, 3} /\ k = <<k[1], k[2]>>
        /\ k[1] \in 1 .. factor /\ k[2] \in {2, 3}
        /\ k[2] \in DOMAIN fs[k[1]]
        /\ \A g \in k[1] + 1 .. factor : fs[g][1] # fs[k[1]][1]
    BY <1>1, <1>2, <1>7 DEF KeptSoFar
  <2>2. CASE k[1] = factor /\ k[2] = 2
    <3>1. << <<N, factor, 2>>, end, Match[2] >> \in Held
      BY <1>1 DEF Held, HeldEnd
    <3> QED  BY <1>5, <1>6, <2>2, <3>1
  <2>3. CASE k[1] = factor /\ k[2] = 3
    <3>1. Len(Match) # 2
      BY <1>3, <1>5, <2>1, <2>3
    <3> QED  BY <1>5, <1>6, <2>3, <3>1
  <2>4. CASE k[1] \in 1 .. factor - 1
    <3>1. fs[k[1]][1] # d
      <4>1. factor \in k[1] + 1 .. factor
        BY <1>7, <2>4
      <4> QED  BY <1>5, <2>1, <4>1
    <3>2. fs[k[1]][1] \in DOMAIN loop_bounds
      BY <1>1, <2>4 DEF FactorsBound
    <3>3. \A g \in k[1] + 1 .. factor - 1 : g \in k[1] + 1 .. factor
      BY <1>7, <2>4
    <3>4. k \in (1 .. factor - 1) \X {2, 3}
      BY <2>1, <2>4
    <3>5. k \in KeptSoFar
      BY <1>1, <2>1, <3>3, <3>4 DEF KeptSoFar
    <3>6. << <<N, k[1], k[2]>>, loop_bounds[fs[k[1]][1]][k[2] - 1], fs[k[1]][k[2]] >> \in HeldOpen
      BY <3>5 DEF HeldOpen
    <3>7. loop_bounds'[fs[k[1]][1]] = loop_bounds[fs[k[1]][1]]
      BY <1>6, <3>1, <3>2
    <3> QED  BY <3>6, <3>7 DEF Held
  <2> QED  BY <1>7, <2>1, <2>2, <2>3, <2>4
<1>11. HeldOpen' = {<< <<N, k[1], k[2]>>, loop_bounds'[fs[k[1]][1]][k[2] - 1], fs[k[1]][k[2]] >> :
                    k \in KeptSoFar'}
  BY <1>1, <1>2 DEF HeldOpen
<1>12. \A h \in HeldOpen' : \/ h \in Held
                            \/ h = << <<N, factor, 3>>, residual, Match[3] >> /\ Len(Match) # 2
  <2> HIDE DEF N, fs
  <2> QED  BY <1>10, <1>11
<1>13. Held' = HeldDone \cup HeldOpen' /\ HeldDone \subseteq Held
  BY <1>9 DEF Held
<1> QED  BY <1>8, <1>12, <1>13

\* Every step keeps NameInv.
LEMMA NameStep ==
  ASSUME MacrosCounted, ProblemInv, StructInv, NameInv, [Next]_vars
  PROVE  NameInv'
<1>1. config' = config /\ (Rest \/ Work) /\ Reading /\ SymbolInv
  BY StepIs DEF ProblemInv, StructInv
<1>2. FactorsBound /\ NamesFit(Held, idx, name2idx_)
  BY DEF NameInv
<1>3. CASE Rest \/ BeginNode \/ ParseChild \/ Up
  <2>1. Held' \subseteq Held /\ idx' = idx /\ name2idx_' = name2idx_ /\ FactorsBound'
    BY <1>1, <1>2, <1>3, HeldFrame DEF symbolVars
  <2> QED  BY <1>2, <2>1, NamesKept DEF NameInv
<1>4. CASE Build
  <2>1. Held' \subseteq Held
    BY <1>1, <1>2, <1>4, HeldBuild
  <2>2. idx' = idx /\ name2idx_' = name2idx_ /\ step' = "children"
    BY <1>4 DEF Build, Constructed, symbolVars
  <2> QED  BY <1>2, <2>1, <2>2, NamesKept DEF NameInv, FactorsBound
<1>5. CASE ParseEnd
  <2> DEFINE slot == <<Len(nodes) + 1, factor, 2>>
  <2>1. Held' \subseteq Held \cup {<<slot, end', Match[2]>>} /\ FactorsBound'
    BY <1>1, <1>2, <1>5, HeldEndRead
  <2>2. Match[2] = <<Match[2][1], Match[2][2], Match[2][3]>>
    <3>1. step = "end" /\ factor <= Len(Cfg.factors)
      BY <1>5 DEF ParseEnd, InMapping, MoreFactors
    <3> QED  BY <1>1, <3>1, WordsOfMatch DEF StructInv
  <2> HIDE DEF slot
  <2>3. CASE UNCHANGED <<symbolVars, declaredIn>> /\ end' \in Nat
    <3>1. idx' = idx /\ name2idx_' = name2idx_
      BY <2>3 DEF symbolVars
    <3>2. NamesFit(Held', idx, name2idx_)
      BY <1>2, <2>1, <2>3, NamesAndNumber
    <3> QED  BY <2>1, <3>1, <3>2 DEF NameInv
  <2>4. CASE InsertWord(Match[2]) /\ end' = InsertedWord(Match[2]) /\ IsVariable(Match[2])
    <3>1. Match[2] = <<"variable", Match[2][2], Match[2][3]>>
      BY <2>2, <2>4 DEF IsVariable
    <3>2. Held' \subseteq Held \cup {<<slot, InsertedWord(Match[2]), Match[2]>>}
      BY <2>1, <2>4
    <3>3. NamesFit(Held', idx', name2idx_')
      BY <1>1, <1>2, <2>4, <3>1, <3>2, NamesAndVariable
    <3> QED  BY <2>1, <3>3 DEF NameInv
  <2> QED  BY <1>1, <1>5, <2>3, <2>4, EndRead
<1>6. CASE ParseResidual
  <2> DEFINE slot == <<Len(nodes) + 1, factor, 3>>
  <2>1. PICK residual :
           /\ Bound(residual)
           /\ \/ UNCHANGED <<symbolVars, declaredIn>> /\ residual = end /\ Len(Match) = 2
              \/ UNCHANGED <<symbolVars, declaredIn>> /\ residual \in Nat /\ Len(Match) = 3
              \/ /\ InsertWord(Match[3]) /\ residual = InsertedWord(Match[3])
                 /\ IsVariable(Match[3]) /\ Len(Match) = 3
    BY <1>1, <1>6, ResidualRead
  <2>2. /\ Held' \subseteq Held \cup {<<slot, residual, Match[3]>>} /\ FactorsBound'
        /\ Len(Match) = 2 => Held' \subseteq Held
    BY <1>1, <1>2, <1>6, <2>1, HeldResidualRead
  <2>3. Len(Match) = 3 => Match[3] = <<Match[3][1], Match[3][2], Match[3][3]>>
    <3>1. step = "residual"
      BY <1>6 DEF ParseResidual, InMapping
    <3>2. factor <= Len(Cfg.factors)
      BY <3>1 DEF StructInv, FactorsInv
    <3> QED  BY <1>1, <3>1, <3>2, WordsOfMatch DEF StructInv
  <2> HIDE DEF slot
  <2>4. CASE UNCHANGED <<symbolVars, declaredIn>> /\ Len(Match) = 2
    <3>1. idx' = idx /\ name2idx_' = name2idx_
      BY <2>4 DEF symbolVars
    <3>2. NamesFit(Held', idx, name2idx_)
      BY <1>2, <2>2, <2>4, NamesKept
    <3> QED  BY <2>2, <3>1, <3>2 DEF NameInv
  <2>5. CASE UNCHANGED <<symbolVars, declaredIn>> /\ residual \in Nat
    <3>1. idx' = idx /\ name2idx_' = name2idx_
      BY <2>5 DEF symbolVars
    <3>2. NamesFit(Held', idx, name2idx_)
      BY <1>2, <2>2, <2>5, NamesAndNumber
    <3> QED  BY <2>2, <3>1, <3>2 DEF NameInv
  <2>6. CASE /\ InsertWord(Match[3]) /\ residual = InsertedWord(Match[3])
             /\ IsVariable(Match[3]) /\ Len(Match) = 3
    <3>1. Match[3] = <<"variable", Match[3][2], Match[3][3]>>
      BY <2>3, <2>6 DEF IsVariable
    <3>2. Held' \subseteq Held \cup {<<slot, InsertedWord(Match[3]), Match[3]>>}
      BY <2>2, <2>6
    <3>3. NamesFit(Held', idx', name2idx_')
      BY <1>1, <1>2, <2>6, <3>1, <3>2, NamesAndVariable
    <3> QED  BY <2>2, <3>3 DEF NameInv
  <2> QED  BY <2>1, <2>4, <2>5, <2>6
<1> QED  BY <1>1, <1>3, <1>4, <1>5, <1>6 DEF Work

\* In a mapping of any size, two words are one variable exactly when the
\* program means them to be: one name is one variable, two names are two, and
\* each anonymous word is a variable of its own.
THEOREM NamesAreVariables == ASSUME MacrosCounted PROVE Spec => []VariablesByName
<1>1. Init => NameInv
  <2> SUFFICES ASSUME Init  PROVE  NameInv
    OBVIOUS
  <2>1. step = "node" /\ nodes = <<>>
    BY DEF Init, MappingInit
  <2>2. Held = {}
    BY <2>1 DEF Held, HeldDone, HeldOpen, HeldEnd, KeptSoFar, Read
  <2> QED  BY <2>1, <2>2 DEF NameInv, FactorsBound, NamesFit
<1>2. ProblemInv /\ StructInv /\ NameInv /\ [Next]_vars => NameInv'
  BY NameStep
<1>3. StructInv /\ NameInv => VariablesByName
  <2> SUFFICES ASSUME SymbolInv, NameInv
               PROVE  VariablesByName
    BY DEF StructInv
  <2>1. \A r \in Read : LET h == <<r, ValueOf(r), WordOf(r)>>
                        IN  h \in Held /\ h[1] = r /\ h[2] = ValueOf(r) /\ h[3] = WordOf(r)
    BY DEF Held, HeldDone
  <2>2. NamesFit(Held, idx, name2idx_)
    BY DEF NameInv
  <2>3. \A r \in Read : Fits(ValueOf(r), WordOf(r), idx, name2idx_)
    BY <2>1, <2>2 DEF NamesFit
  <2>4. ASSUME NEW r \in Read, NEW s \in Read, ValueOf(r) < 0, ValueOf(r) = ValueOf(s),
               IsAnonymous(WordOf(r)), IsAnonymous(WordOf(s))
        PROVE  r = s
    BY <2>1, <2>2, <2>4 DEF NamesFit
  <2>5. ASSUME NEW r \in Read, NEW s \in Read, ValueOf(r) < 0, ValueOf(s) < 0,
               ~IsAnonymous(WordOf(r)), ~IsAnonymous(WordOf(s))
        PROVE  ValueOf(r) = ValueOf(s) <=> WordOf(r) = WordOf(s)
    <3> DEFINE w == WordOf(r)
               x == WordOf(s)
    <3>1. /\ w = <<"variable", w[2], w[3]>> /\ x = <<"variable", x[2], x[3]>>
          /\ <<w[2], w[3]>> \in DOMAIN name2idx_ /\ name2idx_[<<w[2], w[3]>>] = -ValueOf(r)
          /\ <<x[2], x[3]>> \in DOMAIN name2idx_ /\ name2idx_[<<x[2], x[3]>>] = -ValueOf(s)
          /\ ValueOf(r) \in Int /\ ValueOf(s) \in Int
      BY <2>3, <2>5 DEF Fits
    <3> HIDE DEF w, x
    <3>2. ValueOf(r) = ValueOf(s) => <<w[2], w[3]>> = <<x[2], x[3]>>
      BY <3>1 DEF SymbolInv
    <3>3. w = x => ValueOf(r) = ValueOf(s)
      BY <3>1
    <3> QED  BY <3>1, <3>2, <3>3 DEF w, x
  <2> QED  BY <2>4, <2>5 DEF VariablesByName
<1> QED  BY <1>1, <1>2, <1>3, StructInvariant, PTL DEF Spec
=============================================================================
