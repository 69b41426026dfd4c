--------------------------- MODULE MCDurableEffect ---------------------------
(* Instances of DurableEffect for TLC. *)
EXTENDS EffectHold, TLC

Symmetry == Permutations(Relays)
=============================================================================
