----------------------------- MODULE MCFoundryDag -----------------------------
(* Small instances of FoundryDag: a raw dataset and two derived ones. *)
EXTENDS FoundryDag

Symmetry == Permutations(Editors)

Body(i, r, o) == [ins |-> i, right |-> r, out |-> o]

\* a and b can be made from each other; b also from a join with a.
MCBodies == {Body({"raw"}, {}, "a"), Body({"raw", "a"}, {}, "b"), Body({"b"}, {}, "a"),
             Body({"a"}, {}, "a"), Body({"raw"}, {"a"}, "b")}
=============================================================================
