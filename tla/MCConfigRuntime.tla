--------------------------- MODULE MCConfigRuntime ---------------------------
(* Instance of ConfigRuntime for TLC. *)
EXTENDS ConfigRuntime, TLC

Symmetry == Permutations(Admins)
=============================================================================
