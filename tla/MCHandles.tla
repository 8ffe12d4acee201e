------------------------------- MODULE MCHandles ------------------------------
(***************************************************************************)
(* Small instances of Handles: which variables there are.                  *)
(***************************************************************************)
EXTENDS Handles, TLC

\* One variable of every class, two of those that are moved and fields of both
\* modes; object 2 is not what the second polymorphic handle is for.
Classes == [r1 |-> "root", r2 |-> "root", ro |-> "ro", rw |-> "rw", dp |-> "dynRW",
            f |-> "field", a |-> "field", d1 |-> "dynRoot", d2 |-> "dynRoot",
            e |-> "dynField", b |-> "dynField"]
Names   == DOMAIN Classes
Places  == [v \in Names |-> IF v \in {"a", "b"} THEN 1 ELSE Null]
Types   == (Names \X Objects) \ {<<"d2", 2>>}

\* The last statement tells states apart for no action.
View == <<val, live, count, refs, garbage, lock>>

===============================================================================
