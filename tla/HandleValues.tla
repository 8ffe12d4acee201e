----------------------------- MODULE HandleValues -----------------------------
(***************************************************************************)
(* What a C++ programmer expects of variables that hold handles: a copy    *)
(* gives the variable the value of the other, a move also takes it from    *)
(* the other, in exchange for null or for the old value.  No counts, no    *)
(* lists, no locks.                                                        *)
(***************************************************************************)

CONSTANTS
    Vars,
    Objects,
    Null,
    Owner,        \* per variable: the object it is a field of, or Null
    Suits(_, _)   \* whether a variable's type can refer to an object

VARIABLES
    val,          \* the object each variable refers to
    stmt          \* the statement that has just been executed: [op, to, from]

\* Converting a handle to a type that its object does not have makes it null.
Cast(v, o) == IF o = Null \/ Suits(v, o) THEN o ELSE Null

Init == val = [v \in Vars |-> Null] /\ stmt.op = "none"

Unreferenced(o) == \A v \in Vars : val[v] # o

Fresh(v) == \E o \in Objects : Unreferenced(o) /\ val' = [val EXCEPT ![v] = o]

Copy(v, w) == val' = [val EXCEPT ![v] = Cast(v, val[w])]

\* A value that cannot be converted stays where it is.
Rest(v, w) == IF Cast(v, val[w]) = val[w] THEN {Null, val[v]} ELSE {val[w]}

Move(v, w) ==
    \E rest \in Rest(v, w) : val' = [val EXCEPT ![v] = Cast(v, val[w]), ![w] = rest]

Reset(v) == val' = [val EXCEPT ![v] = Null]

\* The fields of an object go with it.
Collect == \E o \in Objects : /\ Unreferenced(o)
                              /\ val' = [v \in Vars |-> IF Owner[v] = o THEN Null ELSE val[v]]

Next ==
    \/ stmt'.op = "new"     /\ Fresh(stmt'.to)
    \/ stmt'.op = "copy"    /\ Copy(stmt'.to, stmt'.from)
    \/ stmt'.op = "move"    /\ Move(stmt'.to, stmt'.from)
    \/ stmt'.op = "reset"   /\ Reset(stmt'.to)
    \/ stmt'.op = "collect" /\ Collect

Spec == Init /\ [][Next]_<<val, stmt>>

===============================================================================
