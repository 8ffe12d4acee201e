--------------------------------- MODULE MCGC ---------------------------------
(***************************************************************************)
(* Small instances of GC: which object may refer to which.                 *)
(***************************************************************************)
EXTENDS GC, TLC

CONSTANTS t1, t2, p1, p2

\* Owners are allocated before what they own.
OwnersFirst == {e \in Objects \X Objects : e[1] < e[2]}

\* Owners are allocated after what they own.
OwnersLast == {e \in Objects \X Objects : e[1] > e[2]}

\* No object refers to itself, cycles are possible.
AnyOther == {e \in Objects \X Objects : e[1] # e[2]}

OnlyItself == {e \in Objects \X Objects : e[1] = e[2]}

Nothing == {}

\* No action tells two threads or two pages apart.
Alike == Permutations(Threads) \cup Permutations(Pages)

===============================================================================
