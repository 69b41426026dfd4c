------------------------------ MODULE MCUiLease ------------------------------
(* Instances of UiLease for TLC. *)
EXTENDS UiLease, TLC

\* Sound for the safety runs: no property names a particular element.
Symmetry == Permutations(Relays) \cup Permutations(Nonces) \cup Permutations(Helpers)
=============================================================================
