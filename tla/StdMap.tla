------------------------------- MODULE StdMap -------------------------------
(***************************************************************************)
(* std::map and std::unordered_map of the C++ library, as functions on     *)
(* their keys.  (The operators :> and @@ of module TLC would do as well,   *)
(* but have no definition that a proof could expand.)                      *)
(***************************************************************************)

\* map[key] = value.
Put(map, key, value) ==
  [k \in DOMAIN map \cup {key} |-> IF k = key THEN value ELSE map[k]]

\* The entries of one map, and those of another for the keys it has not.
Over(first, second) ==
  [k \in DOMAIN first \cup DOMAIN second |->
    IF k \in DOMAIN first THEN first[k] ELSE second[k]]
=============================================================================
