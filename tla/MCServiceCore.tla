--------------------------- MODULE MCServiceCore ---------------------------
(* Small instances of ServiceCore for TLC. *)
EXTENDS ServiceCore, TLC

\* Request ids and handles are interchangeable: a handle's prefix is the value
\* of vault at that handle, not a part of its name.
Symmetry == Permutations(RequestIds) \cup Permutations(Handles)
=============================================================================
