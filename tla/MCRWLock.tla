------------------------------- MODULE MCRWLock -------------------------------
(***************************************************************************)
(* Small instances of RWLock: three threads, one of which nests two        *)
(* accesses, and a word that is full with two readers.                     *)
(***************************************************************************)
EXTENDS RWLock, TLC

CONSTANTS t1, t2, t3, a1, a2, a3, a4

OwnerOfFour == a1 :> t1 @@ a2 :> t1 @@ a3 :> t2 @@ a4 :> t3

===============================================================================
