----------------------------- MODULE MCTtlCache -----------------------------
(* TtlCache for TLC: callers and keys are interchangeable. *)
EXTENDS TtlCache, TLC

Symmetry == Permutations(Callers) \cup Permutations(Keys)
=============================================================================
