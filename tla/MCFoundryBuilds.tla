-------------------------- MODULE MCFoundryBuilds --------------------------
(* Small instances of FoundryBuilds.  Builds are interchangeable. *)
EXTENDS FoundryBuilds, TLC

Symmetry == Permutations(Builds)
=============================================================================
