-------------------------------- MODULE Handles -------------------------------
(***************************************************************************)
(* The classes a program works with (include/gca/gc.h): root_handle, pin   *)
(* and field, and their polymorphic counterparts dyn::root_handle,         *)
(* dyn::pin and dyn::field.  An action is one C++ statement of a single    *)
(* thread, a construction, assignment or destruction, with all the calls   *)
(* of internal::Copy, internal::Destroy and internal::SetField it makes.   *)
(* Modules HandleOps and FieldOps take the same calls apart into the steps *)
(* that other threads can get between.                                     *)
(***************************************************************************)
EXTENDS Integers, FiniteSets

CONSTANTS
    Objects,      \* places for objects; a collected object's place is used again
    Vars,         \* the variables of the program
    Kind,         \* per variable: its class
    Owner,        \* per variable: the object it is a field of, or Null
    Fits,         \* <<v, o>>: what dynamic_cast to v's type makes of o is not null
    Program       \* what the program makes use of that has a flaw, see below

Null == 0

Readers == {"ro", "dynRO"}
Writers == {"rw", "dynRW"}
Pins    == Readers \cup Writers
Kinds   == Pins \cup {"root", "field", "dynRoot", "dynField"}

\* "copyAssign"  copy assignment of a root_handle
\* "swapFields"  move assignment of a field to a field with another value
\* "reuse"       assignment to, move from, an unmanaged dyn::field with a value
\* "castMove"    moving a dyn::root_handle to a type its object does not have
\* "castField"   assigning such a value to a dyn::field
\* "overPinned"  overwriting a field of an object whose value is pinned read-write
Flaws == {"copyAssign", "swapFields", "reuse", "castMove", "castField", "overPinned"}

ASSUME HandleAssumption ==
    /\ IsFiniteSet(Vars) /\ IsFiniteSet(Objects) /\ Null \notin Objects
    /\ Kind \in [Vars -> Kinds] /\ Owner \in [Vars -> Objects \cup {Null}]
    /\ \A v \in Vars : Owner[v] # Null => Kind[v] \in {"field", "dynField"}
    /\ Fits \subseteq Vars \X Objects
    /\ Program \subseteq Flaws

VARIABLES
    val,          \* the object each variable refers to
    stmt,         \* the statement that has just been executed
    live,         \* the objects that exist
    count,        \* rootHandleCount
    refs,         \* referencedBy: per object and referrer, how many entries
    garbage,      \* the objects with the garbage flag
    lock          \* objectLock: the number of readers, or Written

vars == <<val, stmt, live, count, refs, garbage, lock>>

Written == -1
NoRefs == [p \in Objects |-> 0]

Init ==
    /\ val = [v \in Vars |-> Null]
    /\ stmt = [op |-> "none", to |-> Null, from |-> Null]
    /\ live = {} /\ garbage = {}
    /\ count = [o \in Objects |-> 0]
    /\ refs = [o \in Objects |-> NoRefs]
    /\ lock = [o \in Objects |-> 0]

-------------------------------------------------------------------------------
(* The calls a statement is made of are functions from heaps to heaps.  One  *)
(* that waits for a lock of its own thread makes it stuck, one that throws   *)
(* ends the statement.                                                       *)

Heap == [val |-> val, count |-> count, refs |-> refs, garbage |-> garbage, lock |-> lock,
         stuck |-> FALSE, threw |-> FALSE]

Put(h, v, o) == [h EXCEPT !.val[v] = o]

\* internal::Copy to a root handle or to a pin.
Copy(h, o, role) ==
    IF o = Null THEN h
    ELSE [h EXCEPT !.count[o] = @ + 1,
                   !.lock[o] = CASE role \in Readers -> @ + 1
                                 [] role \in Writers -> Written
                                 [] OTHER -> @,
                   !.stuck = @ \/ CASE role \in Readers -> h.lock[o] = Written
                                    [] role \in Writers -> h.lock[o] # 0
                                    [] OTHER -> FALSE]

\* rw_lock::Release, which leaves a free lock as it is.
Unlocked(n) == IF n > 0 THEN n - 1 ELSE 0

\* Mutant: the flag waits for the collector.
DestroyUnflagged(h, o, role) ==
    IF o = Null THEN h
    ELSE [h EXCEPT !.count[o] = @ - 1, !.lock[o] = IF role \in Pins THEN Unlocked(@) ELSE @]

\* Mutant: a read-only pin keeps its lock.
DestroyKeeping(h, o, role) ==
    IF o = Null THEN h
    ELSE LET word == IF role \in Writers THEN Unlocked(h.lock[o]) ELSE h.lock[o]
         IN  [h EXCEPT !.count[o] = @ - 1, !.lock[o] = word,
                       !.garbage = IF h.count[o] = 1 /\ h.refs[o] = NoRefs /\ word = 0
                                   THEN @ \cup {o} ELSE @]

\* internal::Destroy.
Destroy(h, o, role) ==
    IF o = Null THEN h
    ELSE LET word == IF role \in Pins THEN Unlocked(h.lock[o]) ELSE h.lock[o]
             last == h.count[o] = 1
         IN  [h EXCEPT !.count[o] = @ - 1,
                       !.lock[o] = word,
                       !.stuck = @ \/ (last /\ word = Written),
                       !.garbage = IF last /\ h.refs[o] = NoRefs /\ word = 0 THEN @ \cup {o} ELSE @]

\* The old value forgets its referrer; its lock is released whoever has it.
Unlink(h, p, o) ==
    IF o = Null THEN h
    ELSE LET rest == [h.refs[o] EXCEPT ![p] = @ - 1]
         IN  [h EXCEPT !.refs[o] = rest,
                       !.garbage = IF rest = NoRefs /\ h.count[o] = 0 THEN @ \cup {o} ELSE @,
                       !.stuck = @ \/ h.lock[o] > 0,
                       !.lock[o] = 0]

\* internal::SetField on variable v, a field of object p.  The lock of the new value
\* is upgraded if it comes from a read-only pin, which must be the only one, and
\* acquired if the thread has not written it.
SetField(h, p, v, x, role) ==
    LET old == h.val[v]
        stuck == x # Null /\ h.lock[x] > (IF role \in Readers THEN 1 ELSE 0)
        linked == [h EXCEPT !.refs[x][p] = @ + 1]
    IN  CASE old = x -> [h EXCEPT !.stuck = @ \/ (stuck /\ role \in Readers)]
          [] old # x /\ x = Null -> Put(Unlink(h, p, old), v, x)
          [] old # x /\ x # Null /\ {p, x} \cap h.garbage # {} -> [h EXCEPT !.threw = TRUE]
          [] OTHER -> Put(Unlink([linked EXCEPT !.stuck = @ \/ stuck], p, old), v, x)

\* The statement ends in heap h.
Execute(op, v, w, h) ==
    /\ ~h.stuck
    /\ stmt' = [op |-> op, to |-> v, from |-> w]
    /\ val' = h.val /\ count' = h.count /\ refs' = h.refs
    /\ garbage' = h.garbage /\ lock' = h.lock

\* Fields of an object are at hand while the thread has it pinned.
Readable(v) == Owner[v] = Null \/ \E u \in Vars : Kind[u] \in Pins /\ val[u] = Owner[v]
Writable(v) ==
    \/ Owner[v] = Null
    \/ /\ \E u \in Vars : Kind[u] \in Writers /\ val[u] = Owner[v]
       /\ val[v] # Null /\ "overPinned" \notin Program => lock[val[v]] # Written

Is(v, kinds) == Kind[v] \in kinds
Cast(v, o) == IF o = Null \/ <<v, o>> \in Fits THEN o ELSE Null

-------------------------------------------------------------------------------
(* root_handle *)

\* Copy and conversion constructors, from handles, pins and fields.
RootNew(v, w) ==
    /\ Is(v, {"root"}) /\ Is(w, {"root", "ro", "rw", "field"}) /\ Readable(w)
    /\ val[v] = Null
    /\ Execute("copy", v, w, Put(Copy(Heap, val[w], "root"), v, val[w]))

\* Mutant: the value of the temporary is not destroyed.
RootConvertLeaking(v, w) ==
    /\ Is(v, {"root"}) /\ Is(w, {"ro", "rw", "field"}) /\ Readable(w)
    /\ Execute("copy", v, w, Put(Copy(Heap, val[w], "root"), v, val[w]))

\* Assignment of a pin or a field: a temporary is constructed, swapped, destroyed.
RootConvert(v, w) ==
    /\ Is(v, {"root"}) /\ Is(w, {"ro", "rw", "field"}) /\ Readable(w)
    /\ Execute("copy", v, w, Destroy(Put(Copy(Heap, val[w], "root"), v, val[w]), val[v], "root"))

\* Copy assignment copies the handle's own value over itself.
RootAssign(v, w) ==
    /\ "copyAssign" \in Program
    /\ Is(v, {"root"}) /\ Is(w, {"root"}) /\ v # w
    /\ Execute("copy", v, w, Copy(Heap, val[v], "root"))

\* Move constructor and move assignment exchange the values.
RootMove(v, w) ==
    /\ Is(v, {"root"}) /\ Is(w, {"root"}) /\ v # w
    /\ Execute("move", v, w, Put(Put(Heap, v, val[w]), w, val[v]))

\* Assignment of null, and the destructor.
RootReset(v) ==
    /\ Is(v, {"root"})
    /\ Execute("reset", v, Null, Put(Destroy(Heap, val[v], "root"), v, Null))

-------------------------------------------------------------------------------
(* pin and dyn::pin: not copied, not moved *)

PinNew(v, w) ==
    /\ Is(v, {"ro", "rw"}) /\ Is(w, {"root", "field"}) /\ Readable(w)
    /\ val[v] = Null
    /\ Execute("copy", v, w, Put(Copy(Heap, val[w], Kind[v]), v, val[w]))

DynPinNew(v, w) ==
    /\ Is(v, {"dynRO", "dynRW"}) /\ Is(w, {"root", "dynRoot", "dynField"}) /\ Readable(w)
    /\ val[v] = Null
    /\ LET x == Cast(v, val[w])
       IN  Execute("copy", v, w, Put(Copy(Heap, x, Kind[v]), v, x))

PinEnd(v) ==
    /\ Is(v, Pins)
    /\ Execute("reset", v, Null, Put(Destroy(Heap, val[v], Kind[v]), v, Null))

-------------------------------------------------------------------------------
(* field *)

\* field::Set: the object the field is part of decides between the two modes.
Set(h, v, x, role) ==
    IF h.threw THEN h
    ELSE IF Owner[v] # Null THEN SetField(h, Owner[v], v, x, role)
    ELSE IF h.val[v] = x THEN h
    ELSE Destroy(Put(Copy(h, x, "root"), v, x), h.val[v], "root")

\* Set with a field of the same type converts it to a temporary root handle.
SetFrom(h, v, x) == Destroy(Set(Copy(h, x, "root"), v, x, "root"), x, "root")

\* A read-only pin that is null makes SetField follow a null pointer.
FieldAssign(v, w) ==
    /\ Is(v, {"field"}) /\ Is(w, {"root", "ro", "rw"}) /\ Writable(v)
    /\ Kind[w] \in Readers /\ Owner[v] # Null => val[w] # Null
    /\ Execute("copy", v, w, Set(Heap, v, val[w], Kind[w]))

FieldCopy(v, w) ==
    /\ Is(v, {"field"}) /\ Is(w, {"field"}) /\ Writable(v) /\ Readable(w)
    /\ v # w
    /\ Execute("copy", v, w, SetFrom(Heap, v, val[w]))

\* Mutant: the other field is not cleared.
FieldMoveNewKeeping(v, w) ==
    /\ Is(v, {"field"}) /\ Is(w, {"field"}) /\ Writable(v) /\ Writable(w)
    /\ val[v] = Null /\ v # w
    /\ Execute("move", v, w, SetFrom(Heap, v, val[w]))

\* Move constructor.
FieldMoveNew(v, w) ==
    /\ Is(v, {"field"}) /\ Is(w, {"field"}) /\ Writable(v) /\ Writable(w)
    /\ val[v] = Null /\ v # w
    /\ Execute("move", v, w, Set(SetFrom(Heap, v, val[w]), w, Null, "field"))

\* Move assignment: the old value is remembered, overwritten and then stored in
\* the other field, though it may have become garbage in between.
FieldMove(v, w) ==
    /\ Is(v, {"field"}) /\ Is(w, {"field"}) /\ Writable(v) /\ Writable(w)
    /\ v # w
    /\ val[v] \in {Null, val[w]} \/ "swapFields" \in Program
    /\ Execute("move", v, w, Set(SetFrom(Heap, v, val[w]), w, val[v], "field"))

\* Assignment of null, and the destructor.
FieldReset(v) ==
    /\ Is(v, {"field"}) /\ Writable(v)
    /\ Execute("reset", v, Null, Set(Heap, v, Null, "root"))

-------------------------------------------------------------------------------
(* dyn::root_handle *)

\* dyn::root_handle::Assign: equal handles are left alone; the value is cast, then
\* counted, and the old one destroyed.
Assign(h, v, x) ==
    IF x = h.val[v] THEN h
    ELSE Destroy(Put(Copy(h, Cast(v, x), "root"), v, Cast(v, x)), h.val[v], "root")

DynSources == Pins \cup {"root", "dynRoot", "dynField"}

\* Copy and conversion, construction and assignment.
DynRootAssign(v, w) ==
    /\ Is(v, {"dynRoot"}) /\ Is(w, DynSources) /\ Readable(w)
    /\ Execute("copy", v, w, Assign(Heap, v, val[w]))

\* The other handle is cleared, also when it is the same one or the cast fails.
DynRootMove(v, w) ==
    /\ Is(v, {"dynRoot"}) /\ Is(w, {"dynRoot"})
    /\ Cast(v, val[w]) = val[w] \/ "castMove" \in Program
    /\ Execute("move", v, w, Assign(Assign(Heap, v, val[w]), w, Null))

DynRootReset(v) ==
    /\ Is(v, {"dynRoot"})
    /\ Execute("reset", v, Null, Assign(Heap, v, Null))

-------------------------------------------------------------------------------
(* dyn::field *)

\* dyn::field::Assign: an unmanaged field does not destroy its old value, and the
\* value that is stored has not been cast.
DynSet(h, v, x, role) ==
    IF Owner[v] # Null THEN SetField(h, Owner[v], v, x, role)
    ELSE Put(Copy(h, x, "root"), v, x)

Reusable(v) == Owner[v] # Null \/ val[v] = Null \/ "reuse" \in Program

DynFieldAssign(v, w) ==
    /\ Is(v, {"dynField"}) /\ Is(w, DynSources) /\ Writable(v) /\ Readable(w)
    /\ v # w /\ Reusable(v)
    /\ Cast(v, val[w]) = val[w] \/ "castField" \in Program
    /\ Kind[w] \in Readers /\ Owner[v] # Null => val[w] # Null
    /\ Execute("copy", v, w, DynSet(Heap, v, val[w], Kind[w]))

\* Move constructor and move assignment.
DynFieldMove(v, w) ==
    /\ Is(v, {"dynField"}) /\ Is(w, {"dynField"}) /\ Writable(v) /\ Writable(w)
    /\ v # w /\ Reusable(v) /\ Reusable(w)
    /\ Cast(v, val[w]) = val[w] \/ "castField" \in Program
    /\ Execute("move", v, w, DynSet(DynSet(Heap, v, val[w], "field"), w, Null, "field"))

\* Assignment of null.
DynFieldReset(v) ==
    /\ Is(v, {"dynField"}) /\ Writable(v) /\ Reusable(v)
    /\ Execute("reset", v, Null, DynSet(Heap, v, Null, "field"))

\* The destructor of an unmanaged field.
DynFieldEnd(v) ==
    /\ Is(v, {"dynField"}) /\ Owner[v] = Null
    /\ Execute("reset", v, Null, Put(Destroy(Heap, val[v], "root"), v, Null))

-------------------------------------------------------------------------------
(* Objects come and go *)

\* gc::New, whose handle has a root count of 1 from the start.
New(v, o) ==
    /\ Is(v, {"root"}) /\ val[v] = Null
    /\ o \notin live
    /\ live' = live \cup {o}
    /\ Execute("new", v, Null,
               [Put(Heap, v, o) EXCEPT !.count[o] = 1, !.refs[o] = NoRefs, !.lock[o] = 0])

FieldsOf(o) == {v \in Vars : Owner[v] = o}

\* What is left when the fields of o have let go of their values, one after the other.
\* Their locks are free, or Collect would not have come so far.
Emptied(h, o) ==
    LET held(x) == {v \in FieldsOf(o) : h.val[v] = x}
        rest    == [x \in Objects |-> [h.refs[x] EXCEPT ![o] = @ - Cardinality(held(x))]]
    IN  [h EXCEPT !.val = [v \in Vars |-> IF Owner[v] = o THEN Null ELSE @[v]],
                  !.refs = rest,
                  !.garbage = @ \cup {x \in Objects : held(x) # {} /\ rest[x] = NoRefs
                                                                 /\ h.count[x] = 0}]

\* An object with the garbage flag is destroyed; its fields let go of their values.
\* Module Collector has the steps, and the search for cycles.
Collect(o) ==
    /\ o \in garbage /\ count[o] = 0 /\ lock[o] = 0
    /\ \A v \in FieldsOf(o) : val[v] # Null => lock[val[v]] = 0
    /\ live' = live \ {o}
    /\ Execute("collect", Null, Null, [Emptied(Heap, o) EXCEPT !.garbage = @ \ {o}])

Statement ==
    \/ \E v, w \in Vars :
          \/ RootNew(v, w) \/ RootConvert(v, w) \/ RootAssign(v, w) \/ RootMove(v, w)
          \/ PinNew(v, w) \/ DynPinNew(v, w)
          \/ FieldAssign(v, w) \/ FieldCopy(v, w) \/ FieldMoveNew(v, w) \/ FieldMove(v, w)
          \/ DynRootAssign(v, w) \/ DynRootMove(v, w)
          \/ DynFieldAssign(v, w) \/ DynFieldMove(v, w)
    \/ \E v \in Vars :
          \/ RootReset(v) \/ PinEnd(v) \/ FieldReset(v)
          \/ DynRootReset(v) \/ DynFieldReset(v) \/ DynFieldEnd(v)

Next ==
    \/ Statement /\ UNCHANGED live
    \/ \E v \in Vars, o \in Objects : New(v, o)
    \/ \E o \in Objects : Collect(o)

Spec == Init /\ [][Next]_vars

-------------------------------------------------------------------------------

Referring(o) == {v \in Vars : val[v] = o}

\* After every statement that Program allows, whatever classes it mixes: an object's
\* root count is the number of handles, pins and unmanaged fields that refer to it,
\* and it has one back reference for every field of another object that does
\* (gc.h:397-417).
CountsAgree ==
    \A o \in live :
       /\ count[o] = Cardinality({v \in Referring(o) : Owner[v] = Null})
       /\ \A p \in Objects : refs[o][p] = Cardinality({v \in Referring(o) : Owner[v] = p})

\* The garbage flag is set by the statement that drops the last reference, and by
\* no other: "the garbage flag will be set for non-cyclic objects the moment they
\* become unreachable" (gc.cpp:133).  Nothing refers to an object that is gone.
GarbageIsUnreferenced ==
    \A o \in Objects : (o \in live \ garbage) <=> Referring(o) # {}

\* A pin and nothing else keeps its object locked (README.md:42-43).
LocksAgree ==
    \A o \in live :
       lock[o] = IF \E v \in Referring(o) : Kind[v] \in Writers THEN Written
                 ELSE Cardinality({v \in Referring(o) : Kind[v] \in Readers})

\* Every statement that Program allows does to the variables what it would do to plain
\* pointers.
Suits(v, o) == <<v, o>> \in Fits
Values == INSTANCE HandleValues
ImplementsValues == Values!Spec

===============================================================================
