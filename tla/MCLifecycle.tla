---------------------------- MODULE MCLifecycle ----------------------------
(* Finite instances of Lifecycle for TLC. *)
EXTENDS Lifecycle, TLC

\* Sessions are interchangeable.
SessionSymmetry == Permutations(Sessions)

=============================================================================
