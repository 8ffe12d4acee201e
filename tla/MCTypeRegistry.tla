---------------------------- MODULE MCTypeRegistry ----------------------------
(***************************************************************************)
(* Small instances of TypeRegistry: threads and types that may be swapped. *)
(***************************************************************************)
EXTENDS TypeRegistry, TLC

Symmetry == Permutations(Types)

===============================================================================
