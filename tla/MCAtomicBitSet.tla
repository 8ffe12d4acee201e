---------------------------- MODULE MCAtomicBitSet ----------------------------
(***************************************************************************)
(* A small instance of AtomicBitSet: threads and bits that may be swapped. *)
(***************************************************************************)
EXTENDS AtomicBitSet, TLC

Symmetry == Permutations(Threads) \cup Permutations(Bits)

===============================================================================
