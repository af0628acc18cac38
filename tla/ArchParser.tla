----------------------------- MODULE ArchParser -----------------------------
(***************************************************************************)
(* ParseArchTopology (src/src/model/hardware.cpp) and ParseInterConnection *)
(* (src/src/model/interconnection.cpp): the levels of the hardware, then   *)
(* the connections between them, one entry at a time.                      *)
(***************************************************************************)
EXTENDS Sections, Connection

VARIABLES
  levelAttri_,           \* the attributes that are being read
  archTopo_map_,         \* level to its attributes
  archTopoName2Idx_map_, \* level to its index
  level_num_,            \* how many levels were declared
  intercon_map_,         \* level to the list of the targets it connects to
  intercon_attri_map_    \* source and target to their connection

archVars == <<levelAttri_, archTopo_map_, archTopoName2Idx_map_, level_num_,
              intercon_map_, intercon_attri_map_>>

-----------------------------------------------------------------------------
\* SetLevelType.
LevelType ==
  Over([l \in {"DRAM", "SRAM", "REG"} |-> "Buffer"],
       Over([l \in {"MAC", "MATRIX"} |-> "Matrix"], [l \in {"VEC", "VECTOR"} |-> "Vector"]))

Attribute == {"sizeKB", "word_bits", "meshX", "meshY", "depth", "block_size",
              "compute_cycles"}

\* The numbers of instances are unsigned, and the attributes of a level are
\* those that LevelAttri has a field for.
ASSUME LevelsAssumption ==
  \A c \in Configs :
    /\ IsList(c.levels)
    /\ IsList(c.connections)
    /\ \A i \in DOMAIN c.levels :
         /\ exists(c.levels[i], "level_num") => c.levels[i].level_num \in Nat
         /\ DOMAIN c.levels[i].attributes \subseteq Attribute

Cleared == Over([level_type |-> "UNKNOWN", level_num |-> 0], [a \in Attribute |-> 0])

\* Bug: the numbers of the level before are kept.
ClearTypeOnly(attri) == [attri EXCEPT !.level_type = "UNKNOWN"]

\* LevelAttri::clear.
clear(attri) == Cleared

\* What levelAttri_ becomes for entry l with num instances: the attributes
\* that are not given keep the value clear gave them.
SetAttributes(l, num) ==
  Over(l.attributes,
       Over([level_type |-> LevelType[l.level_name], level_num |-> num], clear(levelAttri_)))

ArchInit ==
  /\ levelAttri_ = Cleared
  /\ archTopo_map_ = <<>>
  /\ archTopoName2Idx_map_ = <<>>
  /\ level_num_ = 0
  /\ intercon_map_ = <<>>
  /\ intercon_attri_map_ = <<>>

\* One level.  level_num is a variable of the loop body that is not
\* initialised.
ParseLevel ==
  /\ stage = "levels"
  /\ MoreOf(config.levels)
  /\ LET l == Entry(config.levels) IN
       /\ l.level_name \in DOMAIN LevelType
       /\ \E num \in LookupUnset(l, "level_num") : levelAttri_' = SetAttributes(l, num)
       /\ archTopo_map_' = Put(archTopo_map_, l.name, levelAttri_')
       /\ archTopoName2Idx_map_' = Put(archTopoName2Idx_map_, l.name, level_num_)
       /\ level_num_' = level_num_ + 1
  /\ Advance
  /\ UNCHANGED <<intercon_map_, intercon_attri_map_>>

UnknownLevelType ==
  /\ stage = "levels"
  /\ MoreOf(config.levels)
  /\ Entry(config.levels).level_name \notin DOMAIN LevelType
  /\ Exit(Abort)
  /\ UNCHANGED archVars

EndLevels ==
  /\ stage = "levels"
  /\ ~MoreOf(config.levels)
  /\ Turn("connections")
  /\ UNCHANGED archVars

-----------------------------------------------------------------------------
IsInner(c) == TargetOf(c.target, c.type) = c.type

\* archTopo_map_[level] makes an entry for a level that is not declared: no
\* instances, and the first of the level types.
ZeroInitialised == [Cleared EXCEPT !.level_type = "Matrix"]

LookedUp(c) == Over(archTopo_map_, [l \in {c.source, c.target} |-> ZeroInitialised])

\* fan_target_ and fan_source_.
FanOf(c, level) == IF IsInner(c) THEN 1 ELSE LookedUp(c)[level].level_num

ConnectionDefined(c) == FansDefined(FanOf(c, c.target), FanOf(c, c.source))

ParseConnection ==
  /\ stage = "connections"
  /\ MoreOf(config.connections)
  /\ LET c == Entry(config.connections)
         target == TargetOf(c.target, c.type)
         targets == IF c.source \in DOMAIN intercon_map_
                    THEN intercon_map_[c.source] ELSE <<>>
     IN  /\ c.type \in ConType
         /\ ConnectionDefined(c)
         /\ archTopo_map_' = IF IsInner(c) THEN archTopo_map_ ELSE LookedUp(c)
         /\ intercon_map_' = Put(intercon_map_, c.source, Append(targets, target))
         /\ \E bandwidth \in LookupUnset(c, "bandwidth") :
              intercon_attri_map_' =
                Put(intercon_attri_map_, <<c.source, target>>,
                    InterConNode(c.type, bandwidth, FanOf(c, c.target), FanOf(c, c.source)))
  /\ Advance
  /\ UNCHANGED <<levelAttri_, archTopoName2Idx_map_, level_num_>>

\* An unknown type fails an assertion; a level without instances on one side
\* only is a division by zero.
RefuseConnection ==
  /\ stage = "connections"
  /\ MoreOf(config.connections)
  /\ LET c == Entry(config.connections) IN
       \/ c.type \notin ConType /\ Exit(Abort)
       \/ c.type \in ConType /\ ~ConnectionDefined(c) /\ Exit(Undefined)
  /\ UNCHANGED archVars

EndConnections ==
  /\ stage = "connections"
  /\ ~MoreOf(config.connections)
  /\ Turn("dimensions")
  /\ UNCHANGED archVars

ArchNext ==
  \/ ParseLevel \/ UnknownLevelType \/ EndLevels
  \/ ParseConnection \/ RefuseConnection \/ EndConnections

-----------------------------------------------------------------------------
\* Every target that InterCon::Print goes through has an entry with a fan-out
\* or a fan-in.  This is what the message of interconnection.cpp 47 ("Fanout
\* and Fanin equal to 0") is about; its assertion cannot fail, since the branch
\* before it also takes two fans that are 0.  No sequence of declarations,
\* repeated or with levels that nobody declared, leaves such a connection.
ConnectionsPrintable ==
  \A source \in DOMAIN intercon_map_ : \A target \in ToSet(intercon_map_[source]) :
    /\ <<source, target>> \in DOMAIN intercon_attri_map_
    /\ LET c == intercon_attri_map_[<<source, target>>]
       IN  c.fanout > 0 \/ c.fanin > 0

\* The instances, type and attributes of a level are those of its last
\* declaration and of no other level: nothing is carried over from the entry
\* before it, and looking a level up for a connection does not change it.
LevelsAsDeclared ==
  stage \notin {"levels", Abort, Undefined} =>
    \A i \in DOMAIN config.levels :
      LET l == config.levels[i]
          overridden == \E j \in i + 1 .. Len(config.levels) : config.levels[j].name = l.name
          a == archTopo_map_[l.name]
      IN  ~overridden =>
            /\ a.level_num \in LookupUnset(l, "level_num")
            /\ a.level_type = LevelType[l.level_name]
            /\ \A k \in Attribute : a[k] = lookupValue(l.attributes, k, 0)
=============================================================================
