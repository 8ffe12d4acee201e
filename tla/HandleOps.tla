------------------------------- MODULE HandleOps ------------------------------
(***************************************************************************)
(* What the client program does through handles: root handles, pins and    *)
(* fields (include/gca/gc.h) on top of internal::Copy, internal::Destroy   *)
(* and internal::SetField (gc.cpp:1095-1223, 336-409).  Each action is one *)
(* atomic access to shared state, or a group that holds a lock over all    *)
(* of its accesses.                                                        *)
(***************************************************************************)
EXTENDS ObjectGraph

\* What the modelled program makes use of, besides allocating objects, copying
\* and dropping root handles, pinning objects it has a root handle to, storing
\* them in empty fields, and collecting:
\*   "fieldPin"      pin an object through a field of a pinned object
\*   "fieldRoot"     turn a field of a pinned object, or a pin, into a root handle
\*   "fieldCopy"     store the value of a field, or a pin, into another field
\*   "overwrite"     assign to a field that has a value, null included
\*   "orphan"        let an object die while one it refers to is still in use
\*   "move"          move a root handle to another thread
\*   "collectPinned" start a collection while it has pins
\*   "exhaustIds"    go on collecting after MaxIds collections
CONSTANT Program

Capabilities == {"fieldPin", "fieldRoot", "fieldCopy", "overwrite", "orphan", "move",
                 "collectPinned", "exhaustIds"}

ASSUME ProgramAssumption == Program \subseteq Capabilities

Uses(capability) == capability \in Program

Owns(t, o) == roots[t][o] > 0
Pins(t, o) == o \in roPins[t] \cup rwPins[t]

\* The objects thread t sees in the fields of the objects it has pinned.
FieldValues(t) == {field[p][s] : p \in roPins[t] \cup rwPins[t], s \in Slots} \ {Null}

Born == 1 .. allocated

\* Everything that can be got at from a set of objects, when p.s holds value(p, s).
ReachFrom(S, value(_, _)) ==
    LET upTo[n \in 0 .. MaxObjects] ==
          IF n = 0 THEN S
          ELSE upTo[n - 1] \cup ({value(p, s) : p \in upTo[n - 1], s \in Slots} \ {Null})
    IN  upTo[MaxObjects]

Handles(t, o) == roots[t][o] + IF Pins(t, o) THEN 1 ELSE 0

\* The objects that the operations under way let go of, and the ones they use.
Dropping == {loc[u].obj : u \in {u \in Threads : DOMAIN loc[u] = {"obj", "hold"}}}
Using ==
    {loc[u].obj : u \in {u \in Threads : DOMAIN loc[u] # {"obj", "hold"}}}
      \cup {loc[u].new : u \in {u \in Threads : "new" \in DOMAIN loc[u]}}

\* What is in use once thread t lets go of one of its handles to o.
StillUsed(t, o) ==
    Using \cup {x \in Born : \E u \in Threads : Handles(u, x) > IF u = t /\ x = o THEN 1 ELSE 0}

\* Letting go of o makes no object unreachable that refers to one still in use.
MayLetGo(t, o) ==
    \/ Uses("orphan")
    \/ LET held(p, s) == field[p][s]
           alive == ReachFrom(StillUsed(t, o) \ {Null}, held)
       IN  \A p \in Born \ alive, s \in Slots : field[p][s] \notin alive \cup (Dropping \ {Null})

AddRoot(t, o) == roots' = [roots EXCEPT ![t][o] = @ + 1]

CountRoot(o) == rootCount' = [rootCount EXCEPT ![o] = @ + 1]

StartOp(t, label, locals) ==
    /\ Goto(t, label)
    /\ loc' = [loc EXCEPT ![t] = locals]

EndOp(t) == StartOp(t, Idle, NoLocals)

-------------------------------------------------------------------------------
(* Allocation, root handles *)

\* RegisterObject: a handle with rootHandleCount 1, entered in the lookup.
RegisterObject(o) ==
    /\ lookup' = lookup \cup {o}
    /\ rootCount' = [rootCount EXCEPT ![o] = 1]

\* New: Allocate finds room on a page whose mutex it gets and registers the
\* object; the first root handle adopts its count.  Module LargeObjects has the
\* objects that fit on no page.
New(t) ==
    /\ pc[t] = Idle
    /\ allocated < MaxObjects /\ allocated + 1 \notin LargeObjects
    /\ LET o == allocated + 1
       IN  /\ \E p \in Pages : /\ ~pageLock[p]
                             /\ allocations' = [allocations EXCEPT ![p] = Append(@, o)]
           /\ allocated' = o
           /\ RegisterObject(o)
           /\ AddRoot(t, o)
    /\ UNCHANGED <<refBy, garbage, field, lockVars, implVars, roPins, rwPins, pc, opVars, colVars>>

\* Copy(.., root): from a root handle or, when the program does that, from a
\* field of a pinned object or a pin.  One atomic increment, no lock.
CopyRoot(t, o) ==
    /\ pc[t] = Idle
    /\ \/ Owns(t, o)
       \/ Uses("fieldRoot") /\ (o \in FieldValues(t) \/ Pins(t, o))
    /\ roots[t][o] < MaxRoots
    /\ CountRoot(o)
    /\ AddRoot(t, o)
    /\ UNCHANGED <<refBy, garbage, field, lockVars, heapVars, implVars, roPins, rwPins,
                   pc, opVars, colVars>>

\* Mutant: a move that counts like a copy.
MoveRootCounting(t, u, o) ==
    /\ pc[t] = Idle /\ t # u
    /\ Uses("move")
    /\ Owns(t, o)
    /\ roots[u][o] < MaxRoots
    /\ CountRoot(o)
    /\ roots' = [roots EXCEPT ![t][o] = @ - 1, ![u][o] = @ + 1]
    /\ UNCHANGED <<refBy, garbage, field, lockVars, heapVars, implVars, roPins, rwPins,
                   pc, opVars, colVars>>

\* A root handle is moved to another thread: the header is not touched.
MoveRoot(t, u, o) ==
    /\ pc[t] = Idle /\ t # u
    /\ Uses("move")
    /\ Owns(t, o)
    /\ roots[u][o] < MaxRoots
    /\ roots' = [roots EXCEPT ![t][o] = @ - 1, ![u][o] = @ + 1]
    /\ UNCHANGED <<headerVars, lockVars, heapVars, implVars, roPins, rwPins, pc, opVars, colVars>>

-------------------------------------------------------------------------------
(* Pins *)

\* Copy(root or field, pin): the lock first, then the count.
Pin(t, o, mode) ==
    /\ pc[t] = Idle
    /\ Owns(t, o) \/ (Uses("fieldPin") /\ o \in FieldValues(t))
    /\ o \notin roPins[t] /\ o \notin rwPins[t]
    /\ StartOp(t, "pinLock", [obj |-> o, mode |-> mode])
    /\ UNCHANGED <<headerVars, lockVars, heapVars, implVars, clientVars, colVars>>

PinLock(t) ==
    /\ pc[t] = "pinLock"
    /\ IF loc[t].mode = "rw" THEN TakeWrite(t, loc[t].obj) ELSE TakeRead(loc[t].obj)
    /\ Goto(t, "pinCount")
    /\ UNCHANGED <<headerVars, heapVars, implVars, clientVars, opVars, colVars>>

PinCount(t) ==
    /\ pc[t] = "pinCount"
    /\ CountRoot(loc[t].obj)
    /\ IF loc[t].mode = "rw"
         THEN rwPins' = [rwPins EXCEPT ![t] = @ \cup {loc[t].obj}] /\ UNCHANGED roPins
         ELSE roPins' = [roPins EXCEPT ![t] = @ \cup {loc[t].obj}] /\ UNCHANGED rwPins
    /\ EndOp(t)
    /\ UNCHANGED <<refBy, garbage, field, lockVars, heapVars, implVars, roots, colVars>>

-------------------------------------------------------------------------------
(* internal::Destroy of a pin or of a root handle *)

\* A pin releases the object's lock before anything else.
Unpin(t, o) ==
    /\ pc[t] = Idle
    /\ Pins(t, o) /\ MayLetGo(t, o)
    /\ DropLock(t, o)
    /\ roPins' = [roPins EXCEPT ![t] = @ \ {o}]
    /\ rwPins' = [rwPins EXCEPT ![t] = @ \ {o}]
    /\ StartOp(t, "dropTest", [obj |-> o, hold |-> FALSE])
    /\ UNCHANGED <<headerVars, heapVars, implVars, roots, colVars>>

DropRoot(t, o) ==
    /\ pc[t] = Idle
    /\ Owns(t, o) /\ MayLetGo(t, o)
    /\ roots' = [roots EXCEPT ![t][o] = @ - 1]
    /\ StartOp(t, "dropTest", [obj |-> o, hold |-> FALSE])
    /\ UNCHANGED <<headerVars, lockVars, heapVars, implVars, roPins, rwPins, colVars>>

\* Mutant: never takes the read lock.
DropTestUnlocked(t) ==
    /\ pc[t] = "dropTest"
    /\ Goto(t, "dropCount")
    /\ UNCHANGED <<headerVars, lockVars, heapVars, implVars, clientVars, opVars, colVars>>

\* if (rootHandleCount == 1): only then take a read lock.
DropTest(t) ==
    /\ pc[t] = "dropTest"
    /\ Goto(t, IF rootCount[loc[t].obj] = 1 THEN "dropLock" ELSE "dropCount")
    /\ UNCHANGED <<headerVars, lockVars, heapVars, implVars, clientVars, opVars, colVars>>

DropLockObject(t) ==
    /\ pc[t] = "dropLock"
    /\ TakeRead(loc[t].obj)
    /\ StartOp(t, "dropCount", [loc[t] EXCEPT !.hold = TRUE])
    /\ UNCHANGED <<headerVars, heapVars, implVars, clientVars, colVars>>

AfterDrop(t) == IF loc[t].hold THEN Goto(t, "dropRelease") /\ UNCHANGED loc ELSE EndOp(t)

\* --rootHandleCount, and whether that made it 0.
DropCount(t) ==
    /\ pc[t] = "dropCount"
    /\ rootCount' = [rootCount EXCEPT ![loc[t].obj] = @ - 1]
    /\ IF rootCount[loc[t].obj] = 1 THEN Goto(t, "dropFlag") /\ UNCHANGED loc ELSE AfterDrop(t)
    /\ UNCHANGED <<refBy, garbage, field, lockVars, heapVars, implVars, clientVars, colVars>>

\* Mutant: marks objects that fields refer to.
DropFlagReferenced(t) ==
    /\ pc[t] = "dropFlag"
    /\ IF CanUpgrade(loc[t].obj)
         THEN TakeUpgrade(t, loc[t].obj) /\ garbage' = garbage \cup {loc[t].obj}
         ELSE UNCHANGED <<lockVars, garbage>>
    /\ AfterDrop(t)
    /\ UNCHANGED <<rootCount, refBy, field, heapVars, implVars, clientVars, colVars>>

\* Nobody refers to the object: mark it as garbage if TryUpgrade succeeds.
DropFlag(t) ==
    /\ pc[t] = "dropFlag"
    /\ IF refBy[loc[t].obj] = <<>> /\ CanUpgrade(loc[t].obj)
         THEN TakeUpgrade(t, loc[t].obj) /\ garbage' = garbage \cup {loc[t].obj}
         ELSE UNCHANGED <<lockVars, garbage>>
    /\ AfterDrop(t)
    /\ UNCHANGED <<rootCount, refBy, field, heapVars, implVars, clientVars, colVars>>

DropRelease(t) ==
    /\ pc[t] = "dropRelease"
    /\ DropLock(t, loc[t].obj)
    /\ EndOp(t)
    /\ UNCHANGED <<headerVars, heapVars, implVars, clientVars, colVars>>

Drop(t) == DropTest(t) \/ DropLockObject(t) \/ DropCount(t) \/ DropFlag(t) \/ DropRelease(t)

===============================================================================
