---------------------------- MODULE MappingNode ----------------------------
(***************************************************************************)
(* The nodes of a mapping (src/src/mapping/mapping.cpp,                    *)
(* src/include/TileExp/mapping/mapping.hpp) as their constructors leave    *)
(* them.  The parser builds them one by one; the analyses walk them.       *)
(***************************************************************************)
EXTENDS Integers, Sequences, SequencesExt

nullptr == 0

\* loop::TileExp::Descriptor.  A dimension of the permutation that has no
\* factor gets the default pair of unordered_map::operator[].
Descriptor(factors, d) ==
  LET b == IF d \in DOMAIN factors THEN factors[d] ELSE <<0, 0>>
  IN  [dim |-> d, end |-> b[1], res |-> b[2]]

\* loopnests_: the permutation is read from its end, outermost loop first.
LoopNest(factors, permutation) ==
  Reverse([i \in DOMAIN permutation |-> Descriptor(factors, permutation[i])])

TileNode(type, factors, permutation, target, mode, kids) ==
  [kind |-> "Tile", type |-> type, name |-> "", mode |-> mode,
   target |-> target, loops |-> LoopNest(factors, permutation),
   kids |-> kids, parent |-> nullptr]

OpNode(name, factors, permutation, target, mode) ==
  [kind |-> "Op", type |-> "", name |-> name, mode |-> mode,
   target |-> target, loops |-> LoopNest(factors, permutation),
   kids |-> <<>>, parent |-> nullptr]

ScopeNode(type, target, kids) ==
  [kind |-> "Scope", type |-> type, name |-> "", mode |-> "",
   target |-> target, loops |-> <<>>, kids |-> kids, parent |-> nullptr]

TransNode(target, mode) ==
  [kind |-> "Trans", type |-> "", name |-> "", mode |-> mode,
   target |-> target, loops |-> <<>>, kids |-> <<>>, parent |-> nullptr]

\* The two assignments of add_child: children_.push_back and set_parent.
push_child(node, child) == [node EXCEPT !.kids = Append(@, child)]

set_parent(node, parent) == [node EXCEPT !.parent = parent]
=============================================================================
