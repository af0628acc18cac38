------------------------------ MODULE Sections ------------------------------
(***************************************************************************)
(* The sections of the input that main (src/src/application/main.cpp)      *)
(* reads one after the other.  A YAML node is a record with the fields it  *)
(* has; a list is a sequence.                                              *)
(***************************************************************************)
EXTENDS Integers, Sequences, FiniteSets, SequencesExt, StdMap

CONSTANTS
  Configs,      \* the inputs: levels, connections, problem, mapping, macros
  UnsetValues   \* what an unsigned variable may read as that was never set

ASSUME UnsetAssumption == UnsetValues \subseteq Nat /\ UnsetValues # {}

VARIABLES
  config,   \* the input of this run of the program
  stage,    \* the section that is read, or how the program ended
  next      \* the entry of the section's list that is next

Abort == "aborted"
Undefined == "undefined"

\* CompoundConfigNode::exists, and lookupValue into a variable with a default.
exists(node, key) == key \in DOMAIN node

lookupValue(node, key, default) == IF exists(node, key) THEN node[key] ELSE default

\* lookupValue into a variable without an initial value.
LookupUnset(node, key) == IF exists(node, key) THEN {node[key]} ELSE UnsetValues

-----------------------------------------------------------------------------
(* A word of the input where a number is expected: <<"number", "", n>>, a   *)
(* name <<"name", w, 0>>, or a name that contains X or ?, which stands for  *)
(* a variable and may end in digits: <<"variable", w, digits>>.             *)
IsNumber(word) == word[1] = "number"
IsVariable(word) == word[1] = "variable"

IsMacro(word) == word \in DOMAIN config.macros

\* std::strtol; std::stoi throws on what is not a number.
strtol(word) == IF IsNumber(word) THEN word[3] ELSE 0

-----------------------------------------------------------------------------
IsList(node) == node \in Seq(ToSet(node))

Entry(list) == list[next]

MoreOf(list) == next <= Len(list)

\* The program ends here.
Exit(how) == stage' = how /\ UNCHANGED next

\* On to the next entry, or to another section.
Advance == next' = next + 1 /\ UNCHANGED stage

Turn(section) == stage' = section /\ next' = 1
=============================================================================
