------------------------------- MODULE FieldOps -------------------------------
(***************************************************************************)
(* Assigning to a field: internal::SetField (gc.cpp:1155-1168) around      *)
(* internal_handle::SetField (gc.cpp:336-409).  The program assigns only   *)
(* to fields of objects it has a read-write pin on.                        *)
(***************************************************************************)
EXTENDS HandleOps

\* What newValueRole makes of a value the program can name; null comes as a root.
Sources(t, x) ==
    {role \in {"root", "field", "ro_pin", "rw_pin"} :
        CASE role = "root"   -> x = Null \/ Owns(t, x)
          [] role = "field"  -> Uses("fieldCopy") /\ x \in FieldValues(t)
          [] role = "ro_pin" -> Uses("fieldCopy") /\ x \in roPins[t]
          [] role = "rw_pin" -> Uses("fieldCopy") /\ x \in rwPins[t]}

SetField(t, p, s, x) ==
    /\ pc[t] = Idle
    /\ p \in rwPins[t]
    /\ x = Null \/ <<p, x>> \in Edges
    /\ field[p][s] = Null \/ Uses("overwrite")
    /\ \E role \in Sources(t, x) :
          StartOp(t, IF role = "ro_pin" THEN "setUpgrade" ELSE "setCheck",
                  [obj |-> p, slot |-> s, new |-> x, old |-> Null, role |-> role, hold |-> FALSE])
    /\ UNCHANGED <<headerVars, lockVars, heapVars, implVars, clientVars, colVars>>

\* A value that comes from a read-only pin: Upgrade its lock, waiting for it.
SetUpgrade(t) ==
    /\ pc[t] = "setUpgrade"
    /\ TakeUpgrade(t, loc[t].new)
    /\ Goto(t, "setCheck")
    /\ UNCHANGED <<headerVars, heapVars, implVars, clientVars, opVars, colVars>>

\* Leaving internal::SetField undoes that upgrade, by return or by exception.
Leave(t) ==
    IF loc[t].role = "ro_pin" THEN Goto(t, "setDowngrade") /\ UNCHANGED loc ELSE EndOp(t)

Refused(t) ==
    loc[t].new # Null /\ (loc[t].obj \in garbage \/ loc[t].new \in garbage)

NeedsLock(t, x) == x \notin rwSet[t]

\* Where the treatment of the old value starts, if there is one.
OldValueLabel(t, old) ==
    IF old = Null THEN "setStore" ELSE IF NeedsLock(t, old) THEN "setOldLock" ELSE "setRemove"

\* Read the old value; equal values and garbage objects end the operation.
SetCheck(t) ==
    /\ pc[t] = "setCheck"
    /\ LET old == field[loc[t].obj][loc[t].slot]
       IN  IF old = loc[t].new \/ Refused(t)
             THEN Leave(t)
             ELSE StartOp(t, IF loc[t].new = Null THEN OldValueLabel(t, old)
                             ELSE IF NeedsLock(t, loc[t].new) THEN "setNewLock" ELSE "setAdd",
                          [loc[t] EXCEPT !.old = old])
    /\ UNCHANGED <<headerVars, lockVars, heapVars, implVars, clientVars, colVars>>

SetNewLock(t) ==
    /\ pc[t] = "setNewLock"
    /\ TakeWrite(t, loc[t].new)
    /\ StartOp(t, "setAdd", [loc[t] EXCEPT !.hold = TRUE])
    /\ UNCHANGED <<headerVars, heapVars, implVars, clientVars, colVars>>

\* Mutant: the new value's lock is not released.
SetAddKeepingLock(t) ==
    /\ pc[t] = "setAdd"
    /\ refBy' = [refBy EXCEPT ![loc[t].new] = Append(@, loc[t].obj)]
    /\ StartOp(t, OldValueLabel(t, loc[t].old), [loc[t] EXCEPT !.hold = FALSE])
    /\ UNCHANGED <<rootCount, garbage, field, lockVars, heapVars, implVars, clientVars, colVars>>

\* newValue->referencedBy.emplace_back(this), and release what was acquired.
SetAdd(t) ==
    /\ pc[t] = "setAdd"
    /\ refBy' = [refBy EXCEPT ![loc[t].new] = Append(@, loc[t].obj)]
    /\ IF loc[t].hold THEN DropLock(t, loc[t].new) ELSE UNCHANGED lockVars
    /\ StartOp(t, OldValueLabel(t, loc[t].old), [loc[t] EXCEPT !.hold = FALSE])
    /\ UNCHANGED <<rootCount, garbage, field, heapVars, implVars, clientVars, colVars>>

SetOldLock(t) ==
    /\ pc[t] = "setOldLock"
    /\ TakeWrite(t, loc[t].old)
    /\ StartOp(t, "setRemove", [loc[t] EXCEPT !.hold = TRUE])
    /\ UNCHANGED <<headerVars, heapVars, implVars, clientVars, colVars>>

\* oldValue forgets the referrer and is released, whoever acquired its lock.
\* Otherwise the assertion that it was aware of being referenced throws, which
\* still runs the deferred release.
SetRemove(t) ==
    /\ pc[t] = "setRemove"
    /\ IF Refers(loc[t].obj, loc[t].old)
         THEN /\ Unreference(t, loc[t].obj, loc[t].old)
              /\ Goto(t, IF loc[t].hold THEN "setOldRelease" ELSE "setStore")
              /\ UNCHANGED <<fault, loc>>
         ELSE /\ fault' = fault \cup {"oldValue wasn't aware of being referenced by obj"}
              /\ IF loc[t].hold THEN DropLock(t, loc[t].old) ELSE UNCHANGED lockVars
              /\ Leave(t)
              /\ UNCHANGED <<refBy, garbage>>
    /\ UNCHANGED <<rootCount, field, heapVars, pageLock, gcCount, clientVars, colVars>>

\* The deferred release, after the explicit one in SetRemove.
SetOldRelease(t) ==
    /\ pc[t] = "setOldRelease"
    /\ DropLock(t, loc[t].old)
    /\ StartOp(t, "setStore", [loc[t] EXCEPT !.hold = FALSE])
    /\ UNCHANGED <<headerVars, heapVars, implVars, clientVars, colVars>>

\* *field = newValue
SetStore(t) ==
    /\ pc[t] = "setStore"
    /\ field' = [field EXCEPT ![loc[t].obj][loc[t].slot] = loc[t].new]
    /\ Leave(t)
    /\ UNCHANGED <<rootCount, refBy, garbage, lockVars, heapVars, implVars, clientVars, colVars>>

\* DownGrade: from the written word to one reader, otherwise nothing.
SetDowngrade(t) ==
    /\ pc[t] = "setDowngrade"
    /\ IF word[loc[t].new] = WriteHeld
         THEN /\ word' = [word EXCEPT ![loc[t].new] = 1]
              /\ rwSet' = [rwSet EXCEPT ![t] = @ \ {loc[t].new}]
         ELSE UNCHANGED lockVars
    /\ EndOp(t)
    /\ UNCHANGED <<headerVars, heapVars, implVars, clientVars, colVars>>

Assign(t) == \/ SetUpgrade(t) \/ SetCheck(t) \/ SetNewLock(t) \/ SetAdd(t) \/ SetOldLock(t)
             \/ SetRemove(t) \/ SetOldRelease(t)
             \/ SetStore(t) \/ SetDowngrade(t)

===============================================================================
