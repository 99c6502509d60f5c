----------------------------- MODULE MCBrokerage -----------------------------
(* Finite instances of Brokerage for TLC. *)
EXTENDS Brokerage, TLC

\* Requests and trades are interchangeable, and only safety is checked.
Symmetry == Permutations(Requests) \cup Permutations(Trades)

=============================================================================
