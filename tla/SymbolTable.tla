---------------------------- MODULE SymbolTable ----------------------------
(***************************************************************************)
(* Symbol::SymbolTable (src/include/TileExp/mapper/symbol.hpp): the free   *)
(* variables of a mapping.  A name is <<letters, digits>>, with NoDigits   *)
(* for a name that has none.                                               *)
(***************************************************************************)
EXTENDS Integers, FiniteSetsExt, StdMap

VARIABLES
  name2idx_,   \* the variables by name
  idx          \* how many there are

symbolVars == <<name2idx_, idx>>

NoDigits == -1

SymbolsInit == name2idx_ = <<>> /\ idx = 0

\* "?" and "X" stand for a variable that has no name yet.
Anonymous(name) == name[1] \in {"?", "X"} /\ name[2] = NoDigits

\* Bug: an anonymous variable is not told from the one before it.
SharedName(name) == name

\* The name under which insert stores a variable: an anonymous one takes the
\* first number that makes its name new.
StoredName(name) ==
  IF Anonymous(name) /\ name \in DOMAIN name2idx_
  THEN <<name[1], Min({i \in 0 .. idx : <<name[1], i>> \notin DOMAIN name2idx_})>>
  ELSE name

\* insert: a name that is known keeps its index.
insert(name) ==
  LET stored == StoredName(name) IN
    IF stored \in DOMAIN name2idx_ THEN UNCHANGED symbolVars
    ELSE /\ idx' = idx + 1
         /\ name2idx_' = Put(name2idx_, stored, idx')

\* What insert returns: a variable is a negative factor.
Inserted(name) == -name2idx_'[StoredName(name)]
=============================================================================
