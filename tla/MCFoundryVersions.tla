------------------------- MODULE MCFoundryVersions -------------------------
(* Small instances of FoundryVersions.  The checks are row_count_min{1} and  *)
(* row_count_max{1}: they tell contents apart by their size only, so that    *)
(* the requests are interchangeable.                                         *)
EXTENDS FoundryVersions, TLC

MCFails ==
    [c \in Checks |-> IF c \in Blocking
                      THEN {s \in Content : Cardinality(s) > 1}
                      ELSE {s \in Content : s = {}}]

Symmetry == Permutations(Requests)
=============================================================================
