------------------------------ MODULE Hardware ------------------------------
(***************************************************************************)
(* The hardware description: the levels of ParseArchTopology               *)
(* (src/src/model/hardware.cpp) and the connections of                     *)
(* ParseInterConnection (src/src/model/interconnection.cpp).  A connection *)
(* is keyed by the pair of its levels (the code joins the names), and a    *)
(* later one replaces an earlier one with the same key.                    *)
(***************************************************************************)
EXTENDS Connection, Sequences, FiniteSetsExt

CONSTANTS
  Levels,       \* level name to its level_num and compute_cycles
  Connections   \* the list `connection': <<source, target, type, bandwidth>>

\* The levels that a connection names are declared, with instances; the
\* parser asserts that the type is known.
ASSUME HardwareAssumption ==
  /\ \A l \in DOMAIN Levels : Levels[l].num \in Nat \ {0} /\ Levels[l].cycles \in Nat
  /\ \A i \in DOMAIN Connections :
        /\ {Connections[i][1], Connections[i][2]} \subseteq DOMAIN Levels \cup {"Inner"}
        /\ Connections[i][3] \in ConType
        /\ Connections[i][4] \in Nat

Parsed(c) ==
  IF TargetOf(c[2], c[3]) = c[3] THEN InterConNode(c[3], c[4], 1, 1)
  ELSE InterConNode(c[3], c[4], Levels[c[2]].num, Levels[c[1]].num)

\* intercon_attri_map_.
InterCon ==
  LET key(i) == <<Connections[i][1], TargetOf(Connections[i][2], Connections[i][3])>>
      last(k) == Max({i \in DOMAIN Connections : key(i) = k})
  IN  [k \in {key(i) : i \in DOMAIN Connections} |-> Parsed(Connections[last(k)])]

\* archTopo_map_[level].compute_cycles.
ComputeCycles(level) == Levels[level].cycles
=============================================================================
