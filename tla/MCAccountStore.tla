--------------------------- MODULE MCAccountStore ---------------------------
(* Small instances of AccountStore for TLC. *)
EXTENDS AccountStore, TLC

\* A handle is random: only equality of handles matters.
Symmetry == Permutations(Handles) \cup Permutations(Tasks)
=============================================================================
