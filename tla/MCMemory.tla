------------------------------ MODULE MCMemory ------------------------------
(***************************************************************************)
(* InMemoryFS with two names of the usual length and one that is too long. *)
(***************************************************************************)
EXTENDS InMemoryFS, TLC

CONSTANTS a, b, zero, x

MCPayloads == {<<x>>, <<x, zero>>}

Symmetry == Permutations({a, b})
=============================================================================
