------------------------------- MODULE LockWord -------------------------------
(***************************************************************************)
(* The counter word of gc::rw_lock (include/gca/gc-util.h:228-365).  The   *)
(* lock is one unsigned byte.  Its top bit, write_mask, means "written"    *)
(* when the low bits are 0...01, and "as many readers as fit" when they    *)
(* are 0...00, so a word has exactly these meanings:                       *)
(*                                                                         *)
(*     0                    free                                           *)
(*     1 .. WriteMask       that many read accesses                        *)
(*     WriteMask + 1        one write access                               *)
(*                                                                         *)
(* WriteMask is 128 in the code; every module that uses these operators    *)
(* keeps it a parameter so that TLC can reach the overflow boundary with   *)
(* two readers.                                                            *)
(***************************************************************************)
EXTENDS Naturals

CONSTANT WriteMask

\* The code's write_mask is the top bit of an unsigned type of more than one bit.
ASSUME WriteMaskAssumption == WriteMask \in Nat /\ WriteMask > 1

\* The values the unsigned counter can hold.
Words == 0 .. (2 * WriteMask - 1)

Free == 0

\* write_mask + 1, the only word that means "write access".
WriteHeld == WriteMask + 1

\* Mutant: the write bit is left in the word.
ClearWriteBitNot(v) == v

\* v & ~write_mask, on the values of the counter type.
ClearWriteBit(v) == IF v >= WriteMask THEN v - WriteMask ELSE v

\* Mutant: readers may join a written word.
ReadableAlways(w) == w # 2 * WriteMask - 1

\* A read access can be added: the CAS from ClearWriteBit(w) to its successor
\* succeeds exactly when clearing the write bit left the word alone.
Readable(w) == ClearWriteBit(w) = w

\* What Release makes of word w: a write lock is dropped, a read count is
\* decremented, and an unlocked word stays as it is.
Released(w) == IF w = WriteHeld THEN Free ELSE IF w # 0 THEN w - 1 ELSE w

===============================================================================
