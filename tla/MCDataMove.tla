----------------------------- MODULE MCDataMove -----------------------------
(* All pairs of ranges of up to 4 points in one dimension and 3 in another. *)
EXTENDS DataMove

Within(n) == {[low |-> l, high |-> h] : l \in 0 .. n - 1, h \in 1 .. n}
Proper(n) == {r \in Within(n) : r.low < r.high}
MCRanges == {[m |-> r, n |-> s] : r \in Proper(4), s \in Proper(3)}
=============================================================================
