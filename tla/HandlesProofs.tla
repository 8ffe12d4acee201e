------------------------------ MODULE HandlesProofs -----------------------------
(***************************************************************************)
(* Proofs about Handles: after every statement the counts, back            *)
(* references, flags and locks of the objects are those that the variables *)
(* call for, and the statement has done what it would do to pointers.      *)
(***************************************************************************)
EXTENDS Handles, FiniteSetTheorems, TLAPS

-------------------------------------------------------------------------------
(* Counting the variables of a class that refer to an object *)

N(f, C, o) == Cardinality({v \in C : f[v] = o})

One(p) == IF p THEN 1 ELSE 0

Values0 == Objects \cup {Null}

LEMMA CountingType ==
    ASSUME NEW f, NEW C \in SUBSET Vars, NEW o
    PROVE  /\ IsFiniteSet({v \in C : f[v] = o})
           /\ N(f, C, o) \in Nat
           /\ N(f, C, o) = 0 <=> \A v \in C : f[v] # o
<1>1. {v \in C : f[v] = o} \in SUBSET Vars
  OBVIOUS
<1>2. IsFiniteSet({v \in C : f[v] = o})
  BY <1>1, HandleAssumption, FS_Subset
<1>3. N(f, C, o) \in Nat
  BY <1>2, FS_CardinalityType DEF N
<1>4. N(f, C, o) = 0 <=> {v \in C : f[v] = o} = {}
  BY <1>2, FS_EmptySet DEF N
<1> QED
  BY <1>2, <1>3, <1>4

Changed(f, v, x) == [f EXCEPT ![v] = x]

\* What one assignment to a variable changes.
LEMMA CountingPut ==
    ASSUME NEW f \in [Vars -> Values0], NEW v \in Vars, NEW x \in Values0,
           NEW C \in SUBSET Vars, NEW o, NEW g, g = Changed(f, v, x)
    PROVE  N(g, C, o) + One(v \in C /\ f[v] = o) = N(f, C, o) + One(v \in C /\ x = o)
<1>1. g = [f EXCEPT ![v] = x]
  BY DEF Changed
<1>2. g[v] = x /\ \A u \in Vars \ {v} : g[u] = f[u]
  BY <1>1
<1>3. /\ IsFiniteSet({u \in C : f[u] = o}) /\ N(f, C, o) \in Nat
      /\ IsFiniteSet({u \in C : g[u] = o}) /\ N(g, C, o) \in Nat
  BY CountingType
<1>4. CASE v \in C /\ f[v] = o /\ x # o
  <2>1. {u \in C : g[u] = o} = {u \in C : f[u] = o} \ {v} /\ v \in {u \in C : f[u] = o}
    BY <1>2, <1>4
  <2>2. PICK S : S = {u \in C : f[u] = o}
    OBVIOUS
  <2>3. Cardinality(S \ {v}) = Cardinality(S) - 1
    BY <2>1, <2>2, <1>3, FS_RemoveElement
  <2>4. N(g, C, o) = N(f, C, o) - 1
    BY <2>1, <2>2, <2>3 DEF N
  <2> QED
    BY <2>4, <1>1, <1>3, <1>4 DEF One
<1>5. CASE v \in C /\ f[v] # o /\ x = o
  <2>1. {u \in C : g[u] = o} = {u \in C : f[u] = o} \cup {v} /\ v \notin {u \in C : f[u] = o}
    BY <1>2, <1>5
  <2>2. N(g, C, o) = N(f, C, o) + 1
    BY <2>1, <1>3, FS_AddElement DEF N
  <2> QED
    BY <2>2, <1>1, <1>3, <1>5 DEF One
<1>6. CASE v \notin C \/ (f[v] = o <=> x = o)
  <2>1. {u \in C : g[u] = o} = {u \in C : f[u] = o}
    BY <1>2, <1>6
  <2>2. N(g, C, o) = N(f, C, o)
    BY <2>1 DEF N
  <2>3. One(v \in C /\ f[v] = o) = One(v \in C /\ x = o)
    BY <1>6 DEF One
  <2> QED
    BY <2>2, <2>3, <1>1
<1> QED
  BY <1>4, <1>5, <1>6

-------------------------------------------------------------------------------
(* Heaps that agree with the variables *)

Rooted      == {v \in Vars : Owner[v] = Null}
ReadPins    == {v \in Vars : Kind[v] \in Readers}
WritePins   == {v \in Vars : Kind[v] \in Writers}

Heaps == [val : [Vars -> Values0], count : [Objects -> Nat], refs : [Objects -> [Objects -> Nat]],
          garbage : SUBSET Objects, lock : [Objects -> Nat \cup {Written}],
          stuck : BOOLEAN, threw : BOOLEAN]

\* e is how many temporary handles there are to each object.
Temporaries == [Objects -> Nat]
NoTemporary == [o \in Objects |-> 0]
More(e, x)  == [o \in Objects |-> e[o] + One(o = x)]

Refers(h, e, o) == (\E v \in Vars : h.val[v] = o) \/ e[o] > 0

CountsFit(h, e) ==
    \A o \in Objects : /\ h.count[o] = N(h.val, Rooted, o) + e[o]
                       /\ \A p \in Objects : h.refs[o][p] = N(h.val, FieldsOf(p), o)

\* A read-write pin is the only one.
LocksFit(h) ==
    \A o \in Objects :
       /\ h.lock[o] = IF N(h.val, WritePins, o) > 0 THEN Written ELSE N(h.val, ReadPins, o)
       /\ N(h.val, WritePins, o) > 0 => N(h.val, WritePins, o) = 1 /\ N(h.val, ReadPins, o) = 0

FlagsFit(h, e, L) ==
    /\ h.garbage \subseteq L
    /\ \A o \in Objects : (o \in L \ h.garbage) <=> Refers(h, e, o)

Agrees(h, e, L) ==
    h \in Heaps /\ e \in Temporaries /\ CountsFit(h, e) /\ LocksFit(h) /\ FlagsFit(h, e, L)

\* Nothing, or an object that is in use.
Usable(h, L, x) == x = Null \/ (x \in Objects /\ x \in L \ h.garbage)

LEMMA Classes ==
    /\ Rooted \subseteq Vars /\ ReadPins \subseteq Rooted /\ WritePins \subseteq Rooted
    /\ ReadPins \cap WritePins = {}
    /\ \A p \in Objects : FieldsOf(p) \subseteq Vars \ Rooted
    /\ Vars \ Rooted = {v \in Vars : \E p \in Objects : v \in FieldsOf(p)}
BY HandleAssumption DEF Rooted, ReadPins, WritePins, Readers, Writers, FieldsOf

\* referencedBy is empty when no field holds the object.
LEMMA BackReferences ==
    ASSUME NEW h \in Heaps, NEW e, CountsFit(h, e), NEW o \in Objects
    PROVE  h.refs[o] = NoRefs <=> \A v \in Vars \ Rooted : h.val[v] # o
<1>1. h.refs[o] = NoRefs <=> \A p \in Objects : N(h.val, FieldsOf(p), o) = 0
  <2>1. h.refs[o] \in [Objects -> Nat]
    BY DEF Heaps
  <2>2. h.refs[o] = NoRefs <=> \A p \in Objects : h.refs[o][p] = 0
    BY <2>1 DEF NoRefs
  <2> QED
    BY <2>2 DEF CountsFit
<1>2. \A p \in Objects : N(h.val, FieldsOf(p), o) = 0 <=> \A v \in FieldsOf(p) : h.val[v] # o
  BY CountingType, Classes
<1> QED
  BY <1>1, <1>2, Classes

\* The lock of an object without pins is free.
LEMMA UnpinnedIsFree ==
    ASSUME NEW h, NEW e, NEW L, Agrees(h, e, L), NEW o \in Objects, \A v \in Rooted : h.val[v] # o
    PROVE  h.lock[o] = 0
<1>1. N(h.val, WritePins, o) = 0 /\ N(h.val, ReadPins, o) = 0
  BY CountingType, Classes
<1> QED
  BY <1>1 DEF Agrees, LocksFit

-------------------------------------------------------------------------------
(* Calls *)

\* What a call leaves behind when it only counts: one field of the heap each.
LEMMA CopyRootFields ==
    ASSUME NEW h \in Heaps, NEW x \in Objects, NEW role, role \notin Pins
    PROVE  /\ Copy(h, x, role) \in Heaps
           /\ Copy(h, x, role).val = h.val /\ Copy(h, x, role).refs = h.refs
           /\ Copy(h, x, role).garbage = h.garbage /\ Copy(h, x, role).lock = h.lock
           /\ Copy(h, x, role).stuck = h.stuck /\ Copy(h, x, role).threw = h.threw
           /\ Copy(h, x, role).count = [h.count EXCEPT ![x] = @ + 1]
<1>1. x # Null /\ role \notin Readers /\ role \notin Writers
  BY HandleAssumption DEF Pins
<1>2. h.lock \in [Objects -> Nat \cup {Written}] /\ h.count \in [Objects -> Nat] /\ h.stuck \in BOOLEAN
  BY DEF Heaps
<1>3. [h.lock EXCEPT ![x] = h.lock[x]] = h.lock
  BY <1>2
<1>4. Copy(h, x, role) = [h EXCEPT !.count = [h.count EXCEPT ![x] = @ + 1]]
  BY <1>1, <1>2, <1>3 DEF Copy, Heaps
<1>5. [h.count EXCEPT ![x] = @ + 1] \in [Objects -> Nat]
  BY <1>2
<1> QED
  BY <1>4, <1>5 DEF Heaps

\* Counting a handle that is not there yet.
LEMMA CopyRootAgrees ==
    ASSUME NEW h, NEW e, NEW L, Agrees(h, e, L), NEW x, Usable(h, L, x), NEW role, role \notin Pins
    PROVE  /\ Agrees(Copy(h, x, role), More(e, x), L)
           /\ Copy(h, x, role).val = h.val /\ Copy(h, x, role).lock = h.lock
           /\ Copy(h, x, role).garbage = h.garbage
           /\ Copy(h, x, role).threw = h.threw /\ Copy(h, x, role).stuck = h.stuck
<1>0. h \in Heaps /\ e \in Temporaries
  BY DEF Agrees
<1>1. CASE x = Null
  <2>1. Copy(h, x, role) = h
    BY <1>1 DEF Copy
  <2>2. More(e, x) = e
    <3>1. \A o \in Objects : e[o] + One(o = x) = e[o]
      BY <1>0, <1>1, HandleAssumption DEF One, Temporaries
    <3> QED
      BY <3>1, <1>0 DEF More, Temporaries
  <2> QED
    BY <2>1, <2>2
<1>2. CASE x \in Objects
  <2>1. PICK g : g = Copy(h, x, role)
    OBVIOUS
  <2>2. /\ g \in Heaps /\ g.val = h.val /\ g.refs = h.refs /\ g.garbage = h.garbage
        /\ g.lock = h.lock /\ g.stuck = h.stuck /\ g.threw = h.threw
        /\ g.count = [h.count EXCEPT ![x] = @ + 1]
    BY <2>1, <1>0, <1>2, CopyRootFields
  <2>3. PICK m : m = More(e, x)
    OBVIOUS
  <2>4. /\ m \in Temporaries /\ m[x] = e[x] + 1 /\ \A o \in Objects \ {x} : m[o] = e[o]
    BY <2>3, <1>0, <1>2 DEF More, One, Temporaries
  <2>5. CountsFit(g, m)
    <3>1. ASSUME NEW o \in Objects PROVE g.count[o] = N(g.val, Rooted, o) + m[o]
      <4>1. h.count[o] = N(h.val, Rooted, o) + e[o] /\ e[o] \in Nat /\ N(h.val, Rooted, o) \in Nat
        BY <1>0, CountingType, Classes DEF Agrees, CountsFit, Temporaries
      <4>2. g.count[o] = IF o = x THEN h.count[o] + 1 ELSE h.count[o]
        BY <2>2, <1>0 DEF Heaps
      <4> QED
        BY <4>1, <4>2, <2>2, <2>4
    <3> QED
      BY <3>1, <2>2 DEF CountsFit, Agrees
  <2>6. LocksFit(g)
    BY <2>2 DEF LocksFit, Agrees
  <2>7. FlagsFit(g, m, L)
    <3>1. Refers(h, e, x)
      BY <1>2, HandleAssumption DEF Usable, Agrees, FlagsFit
    <3>2. \A o \in Objects : Refers(g, m, o) <=> Refers(h, e, o)
      BY <3>1, <2>2, <2>4, <1>0 DEF Refers, Temporaries
    <3> QED
      BY <3>2, <2>2 DEF FlagsFit, Agrees
  <2> QED
    BY <2>1, <2>2, <2>3, <2>4, <2>5, <2>6, <2>7 DEF Agrees
<1> QED
  BY <1>1, <1>2 DEF Usable

\* What one assignment to a variable of a heap changes.
LEMMA CountingHeap ==
    ASSUME NEW h \in Heaps, NEW v \in Vars, NEW x \in Values0, NEW g, g.val = Changed(h.val, v, x),
           NEW C \in SUBSET Vars, NEW o
    PROVE  /\ N(g.val, C, o) + One(v \in C /\ h.val[v] = o) = N(h.val, C, o) + One(v \in C /\ x = o)
           /\ N(g.val, C, o) \in Nat /\ N(h.val, C, o) \in Nat
<1>1. PICK f \in [Vars -> Values0] : f = h.val
  BY DEF Heaps
<1>2. g.val = Changed(f, v, x)
  BY <1>1
<1>3. PICK k : k = g.val
  OBVIOUS
<1>4. N(k, C, o) + One(v \in C /\ f[v] = o) = N(f, C, o) + One(v \in C /\ x = o)
  BY <1>2, <1>3, CountingPut
<1> QED
  BY <1>1, <1>3, <1>4, CountingType

\* The same heap with another value in a variable.
LEMMA PutFields ==
    ASSUME NEW h \in Heaps, NEW v \in Vars, NEW x \in Values0
    PROVE  /\ Put(h, v, x) \in Heaps /\ Put(h, v, x).val = [h.val EXCEPT ![v] = x]
           /\ Put(h, v, x).count = h.count /\ Put(h, v, x).refs = h.refs
           /\ Put(h, v, x).garbage = h.garbage /\ Put(h, v, x).lock = h.lock
           /\ Put(h, v, x).stuck = h.stuck /\ Put(h, v, x).threw = h.threw
<1>1. h.val \in [Vars -> Values0]
  BY DEF Heaps
<1>2. [h.val EXCEPT ![v] = x] \in [Vars -> Values0]
  BY <1>1
<1>3. Put(h, v, x) = [h EXCEPT !.val = [h.val EXCEPT ![v] = x]]
  BY DEF Put
<1> QED
  BY <1>2, <1>3 DEF Heaps

\* A temporary handle becomes the value of a variable, whose old value becomes one.
Turned(e, x, old) == [o \in Objects |-> e[o] + One(o = old) - One(o = x)]

PlainRoot(v) == v \in Rooted /\ Kind[v] \notin Pins

LEMMA PutRooted ==
    ASSUME NEW h, NEW e, NEW L, Agrees(h, e, L), NEW v \in Vars, PlainRoot(v),
           NEW x \in Values0, x # Null => e[x] > 0
    PROVE  Agrees(Put(h, v, x), Turned(e, x, h.val[v]), L)
<1>0. h \in Heaps /\ e \in Temporaries /\ h.val \in [Vars -> Values0]
  BY DEF Agrees, Heaps
<1>1. PICK g : g = Put(h, v, x)
  OBVIOUS
<1>2. /\ g \in Heaps /\ g.val = [h.val EXCEPT ![v] = x] /\ g.count = h.count /\ g.refs = h.refs
      /\ g.garbage = h.garbage /\ g.lock = h.lock
  BY <1>0, <1>1, PutFields
<1>3. PICK m : m = Turned(e, x, h.val[v])
  OBVIOUS
<1>4. m \in Temporaries /\ \A o \in Objects : m[o] = e[o] + One(o = h.val[v]) - One(o = x)
  <2>1. ASSUME NEW o \in Objects PROVE e[o] + One(o = h.val[v]) - One(o = x) \in Nat
    BY <1>0, HandleAssumption DEF One, Temporaries
  <2> QED
    BY <2>1, <1>3 DEF Turned, Temporaries
<1>5. \A C \in SUBSET Vars : \A o :
         /\ N(g.val, C, o) + One(v \in C /\ h.val[v] = o) = N(h.val, C, o) + One(v \in C /\ x = o)
         /\ N(g.val, C, o) \in Nat /\ N(h.val, C, o) \in Nat
  <2>1. \A C \in SUBSET Vars : \A o : N(g.val, C, o) \in Nat /\ N(h.val, C, o) \in Nat
    BY CountingType
  <2>2. ASSUME NEW C \in SUBSET Vars, NEW o
        PROVE  N(g.val, C, o) + One(v \in C /\ h.val[v] = o) = N(h.val, C, o) + One(v \in C /\ x = o)
    <3>1. g.val = Changed(h.val, v, x)
      BY <1>2 DEF Changed
    <3> QED
      BY <1>0, <3>1, CountingHeap
  <2> QED
    BY <2>1, <2>2
<1>6. \A C \in SUBSET Vars : \A o : v \notin C => N(g.val, C, o) = N(h.val, C, o)
  BY <1>5 DEF One
<1>7. CountsFit(g, m)
  <2>1. ASSUME NEW o \in Objects PROVE g.count[o] = N(g.val, Rooted, o) + m[o]
    <3>1. h.count[o] = N(h.val, Rooted, o) + e[o] /\ e[o] \in Nat
      BY <1>0 DEF Agrees, CountsFit, Temporaries
    <3>2. /\ N(g.val, Rooted, o) + One(h.val[v] = o) = N(h.val, Rooted, o) + One(x = o)
          /\ N(g.val, Rooted, o) \in Nat /\ N(h.val, Rooted, o) \in Nat
      BY <1>5, Classes DEF PlainRoot
    <3>3. m[o] = e[o] + One(h.val[v] = o) - One(x = o)
      BY <1>4 DEF One
    <3>4. One(h.val[v] = o) \in Nat /\ One(x = o) \in Nat
      BY DEF One
    <3>5. h.count[o] = N(g.val, Rooted, o) + m[o]
      BY <3>1, <3>2, <3>3, <3>4
    <3> QED
      BY <3>5, <1>2
  <2>2. ASSUME NEW o \in Objects, NEW p \in Objects PROVE g.refs[o][p] = N(g.val, FieldsOf(p), o)
    <3>1. v \notin FieldsOf(p) /\ FieldsOf(p) \in SUBSET Vars
      BY Classes DEF PlainRoot
    <3> QED
      BY <3>1, <1>2, <1>6 DEF Agrees, CountsFit
  <2> QED
    BY <2>1, <2>2 DEF CountsFit
<1>8. LocksFit(g)
  <2>1. v \notin WritePins /\ v \notin ReadPins /\ WritePins \in SUBSET Vars /\ ReadPins \in SUBSET Vars
    BY DEF PlainRoot, WritePins, ReadPins, Pins
  <2>2. \A o : N(g.val, WritePins, o) = N(h.val, WritePins, o) /\ N(g.val, ReadPins, o) = N(h.val, ReadPins, o)
    BY <2>1, <1>6
  <2> QED
    BY <2>2, <1>2 DEF LocksFit, Agrees
<1>9. FlagsFit(g, m, L)
  <2>1. ASSUME NEW o \in Objects PROVE Refers(g, m, o) <=> Refers(h, e, o)
    <3>1. e[o] \in Nat /\ m[o] \in Nat
      BY <1>0, <1>4 DEF Temporaries
    <3>2. /\ g.val[v] = x /\ \A u \in Vars \ {v} : g.val[u] = h.val[u]
      BY <1>0, <1>2
    <3>3. CASE h.val[v] = o /\ x # o
      BY <3>1, <3>3, <1>4 DEF Refers, One
    <3>4. CASE x = o
      BY <3>1, <3>2, <3>4, HandleAssumption DEF Refers
    <3>5. CASE h.val[v] # o /\ x # o
      <4>1. m[o] = e[o]
        BY <3>1, <3>5, <1>4 DEF One
      <4> QED
        BY <4>1, <3>2, <3>5 DEF Refers
    <3> QED
      BY <3>3, <3>4, <3>5
  <2> QED
    BY <2>1, <1>2 DEF FlagsFit, Agrees
<1> QED
  BY <1>1, <1>2, <1>3, <1>4, <1>7, <1>8, <1>9 DEF Agrees

LEMMA DestroyRootFields ==
    ASSUME NEW h \in Heaps, NEW x \in Objects, NEW role, role \notin Pins, h.count[x] > 0
    PROVE  /\ Destroy(h, x, role) \in Heaps
           /\ Destroy(h, x, role).val = h.val /\ Destroy(h, x, role).refs = h.refs
           /\ Destroy(h, x, role).lock = h.lock /\ Destroy(h, x, role).threw = h.threw
           /\ Destroy(h, x, role).count = [h.count EXCEPT ![x] = @ - 1]
           /\ Destroy(h, x, role).garbage =
                IF h.count[x] = 1 /\ h.refs[x] = NoRefs /\ h.lock[x] = 0
                THEN h.garbage \cup {x} ELSE h.garbage
           /\ ~Destroy(h, x, role).stuck => ~h.stuck
<1>1. x # Null
  BY HandleAssumption
<1>2. /\ h.lock \in [Objects -> Nat \cup {Written}] /\ h.count \in [Objects -> Nat]
      /\ h.stuck \in BOOLEAN /\ h.garbage \in SUBSET Objects
  BY DEF Heaps
<1>3. [h.lock EXCEPT ![x] = h.lock[x]] = h.lock
  BY <1>2
<1>4. PICK flags : flags = IF h.count[x] = 1 /\ h.refs[x] = NoRefs /\ h.lock[x] = 0
                           THEN h.garbage \cup {x} ELSE h.garbage
  OBVIOUS
<1>5. PICK waits \in BOOLEAN : waits = (h.count[x] = 1 /\ h.lock[x] = Written)
  OBVIOUS
<1>6. Destroy(h, x, role) = [h EXCEPT !.count = [h.count EXCEPT ![x] = @ - 1], !.garbage = flags,
                                      !.stuck = h.stuck \/ waits]
  BY <1>1, <1>2, <1>3, <1>4, <1>5 DEF Destroy, Heaps
<1>7. [h.count EXCEPT ![x] = @ - 1] \in [Objects -> Nat] /\ flags \in SUBSET Objects
  BY <1>2, <1>4
<1>8. (h.stuck \/ waits) \in BOOLEAN
  OBVIOUS
<1> QED
  BY <1>4, <1>6, <1>7, <1>8 DEF Heaps

\* One temporary handle less.
Less(e, x) == [o \in Objects |-> e[o] - One(o = x)]

LEMMA DestroyRootAgrees ==
    ASSUME NEW h, NEW e, NEW L, Agrees(h, e, L), NEW x \in Values0, x # Null => e[x] > 0,
           NEW role, role \notin Pins
    PROVE  /\ Agrees(Destroy(h, x, role), Less(e, x), L)
           /\ Destroy(h, x, role).val = h.val /\ Destroy(h, x, role).lock = h.lock
           /\ Destroy(h, x, role).threw = h.threw
           /\ ~Destroy(h, x, role).stuck => ~h.stuck
<1>0. h \in Heaps /\ e \in Temporaries
  BY DEF Agrees
<1>1. CASE x = Null
  <2>1. Destroy(h, x, role) = h
    BY <1>1 DEF Destroy
  <2>2. Less(e, x) = e
    <3>1. \A o \in Objects : e[o] - One(o = x) = e[o]
      BY <1>0, <1>1, HandleAssumption DEF One, Temporaries
    <3> QED
      BY <3>1, <1>0 DEF Less, Temporaries
  <2> QED
    BY <2>1, <2>2
<1>2. CASE x \in Objects
  <2>0. /\ e[x] \in Nat /\ e[x] > 0 /\ N(h.val, Rooted, x) \in Nat /\ h.count[x] \in Nat
        /\ h.count[x] = N(h.val, Rooted, x) + e[x]
    BY <1>0, <1>2, HandleAssumption, CountingType, Classes DEF Agrees, CountsFit, Temporaries, Heaps
  <2>1. PICK g : g = Destroy(h, x, role)
    OBVIOUS
  <2>2. /\ g \in Heaps /\ g.val = h.val /\ g.refs = h.refs /\ g.lock = h.lock /\ g.threw = h.threw
        /\ g.count = [h.count EXCEPT ![x] = @ - 1]
        /\ g.garbage = IF h.count[x] = 1 /\ h.refs[x] = NoRefs /\ h.lock[x] = 0
                       THEN h.garbage \cup {x} ELSE h.garbage
        /\ ~g.stuck => ~h.stuck
    <3>1. h.count[x] > 0
      BY <2>0
    <3> QED
      BY <3>1, <2>1, <1>0, <1>2, DestroyRootFields
  <2>3. PICK m : m = Less(e, x)
    OBVIOUS
  <2>4. /\ m \in Temporaries /\ m[x] = e[x] - 1 /\ \A o \in Objects \ {x} : m[o] = e[o]
    BY <2>0, <2>3, <1>0, <1>2 DEF Less, One, Temporaries
  <2>5. CountsFit(g, m)
    <3>1. ASSUME NEW o \in Objects PROVE g.count[o] = N(g.val, Rooted, o) + m[o]
      <4>1. h.count[o] = N(h.val, Rooted, o) + e[o] /\ e[o] \in Nat /\ N(h.val, Rooted, o) \in Nat
        BY <1>0, CountingType, Classes DEF Agrees, CountsFit, Temporaries
      <4>2. g.count[o] = IF o = x THEN h.count[o] - 1 ELSE h.count[o]
        BY <2>2, <1>0 DEF Heaps
      <4> QED
        BY <4>1, <4>2, <2>2, <2>4
    <3> QED
      BY <3>1, <2>2 DEF CountsFit, Agrees
  <2>6. LocksFit(g)
    BY <2>2 DEF LocksFit, Agrees
  <2>7. FlagsFit(g, m, L)
    <3>1. ASSUME NEW o \in Objects \ {x} PROVE (o \in L \ g.garbage) <=> Refers(g, m, o)
      <4>1. Refers(g, m, o) <=> Refers(h, e, o)
        BY <2>2, <2>4 DEF Refers
      <4> QED
        BY <4>1, <2>2 DEF FlagsFit, Agrees
    <3>2. x \in L \ h.garbage
      BY <2>0, <1>2 DEF FlagsFit, Agrees, Refers
    <3>3. Refers(g, m, x) <=> ~(h.count[x] = 1 /\ h.refs[x] = NoRefs /\ h.lock[x] = 0)
      <4>1. N(h.val, Rooted, x) = 0 <=> \A v \in Rooted : h.val[v] # x
        BY CountingType, Classes
      <4>2. h.count[x] = 1 <=> N(h.val, Rooted, x) = 0 /\ m[x] = 0
        BY <2>0, <2>4
      <4>3. h.count[x] = 1 <=> (\A v \in Rooted : h.val[v] # x) /\ ~(m[x] > 0)
        <5>1. m[x] \in Nat
          BY <2>4, <1>2 DEF Temporaries
        <5>2. m[x] = 0 <=> ~(m[x] > 0)
          BY <5>1
        <5> QED
          BY <4>1, <4>2, <5>2
      <4>4. h.refs[x] = NoRefs <=> \A v \in Vars \ Rooted : h.val[v] # x
        BY <1>0, <1>2, BackReferences DEF Agrees
      <4>5. (\A v \in Rooted : h.val[v] # x) => h.lock[x] = 0
        BY <1>2, UnpinnedIsFree
      <4> QED
        BY <4>3, <4>4, <4>5, <2>2, Classes DEF Refers
    <3>4. (x \in L \ g.garbage) <=> Refers(g, m, x)
      BY <3>2, <3>3, <2>2
    <3>5. g.garbage \subseteq L
      BY <3>2, <2>2 DEF FlagsFit, Agrees
    <3> QED
      BY <3>1, <3>4, <3>5 DEF FlagsFit
  <2> QED
    BY <2>1, <2>2, <2>3, <2>4, <2>5, <2>6, <2>7 DEF Agrees
<1> QED
  BY <1>1, <1>2 DEF Values0

\* Nothing refers to an object that has no root count and no back references.
LEMMA Uncounted ==
    ASSUME NEW h \in Heaps, NEW e \in Temporaries, CountsFit(h, e), NEW o \in Objects
    PROVE  h.count[o] = 0 /\ h.refs[o] = NoRefs <=> ~Refers(h, e, o)
<1>1. h.refs[o] = NoRefs <=> \A v \in Vars \ Rooted : h.val[v] # o
  BY BackReferences
<1>2. /\ N(h.val, Rooted, o) \in Nat /\ e[o] \in Nat /\ h.count[o] = N(h.val, Rooted, o) + e[o]
      /\ N(h.val, Rooted, o) = 0 <=> \A v \in Rooted : h.val[v] # o
  BY CountingType, Classes DEF CountsFit, Temporaries
<1>3. h.count[o] = 0 <=> N(h.val, Rooted, o) = 0 /\ ~(e[o] > 0)
  BY <1>2
<1> QED
  BY <1>1, <1>2, <1>3, Classes DEF Refers

\* Assigning to a variable that counts as a root, by way of a temporary handle.
LEMMA RootSet ==
    ASSUME NEW h, NEW e, NEW L, Agrees(h, e, L), NEW x \in Values0, Usable(h, L, x),
           NEW v \in Vars, PlainRoot(v),
           NEW g, g = Destroy(Put(Copy(h, x, "root"), v, x), h.val[v], "root"), ~g.stuck
    PROVE  Agrees(g, e, L) /\ g.val = [h.val EXCEPT ![v] = x] /\ g.lock = h.lock
           /\ g.threw = h.threw /\ ~h.stuck
<1>0. "root" \notin Pins /\ h \in Heaps /\ h.val \in [Vars -> Values0] /\ e \in Temporaries
  BY DEF Pins, Readers, Writers, Agrees, Heaps
<1>1. PICK h1 : h1 = Copy(h, x, "root")
  OBVIOUS
<1>2. PICK e1 : e1 = More(e, x)
  OBVIOUS
<1>3. /\ Agrees(h1, e1, L) /\ h1.val = h.val /\ h1.lock = h.lock
      /\ h1.threw = h.threw /\ h1.stuck = h.stuck
  BY <1>0, <1>1, <1>2, CopyRootAgrees
<1>4. PICK h2 : h2 = Put(h1, v, x)
  OBVIOUS
<1>5. PICK e2 : e2 = Turned(e1, x, h.val[v])
  OBVIOUS
<1>6. \A o \in Objects : /\ e[o] \in Nat /\ e1[o] = e[o] + One(o = x)
                         /\ e2[o] = e1[o] + One(o = h.val[v]) - One(o = x)
  BY <1>0, <1>2, <1>5 DEF More, Turned, Temporaries
<1>7. x # Null => e1[x] > 0
  BY <1>6 DEF Values0, One
<1>8. Agrees(h2, e2, L)
  BY <1>3, <1>4, <1>5, <1>7, PutRooted
<1>9. h2.val = [h.val EXCEPT ![v] = x] /\ h2.lock = h.lock /\ h2.threw = h.threw /\ h2.stuck = h.stuck
  BY <1>3, <1>4, PutFields DEF Agrees
<1>10. h.val[v] \in Values0 /\ (h.val[v] # Null => e2[h.val[v]] > 0)
  BY <1>0, <1>6 DEF Values0, One
<1>11. PICK old : old = h.val[v]
  OBVIOUS
<1>12. g = Destroy(h2, old, "root")
  BY <1>1, <1>4, <1>11
<1>13. /\ Agrees(g, Less(e2, old), L) /\ g.val = h2.val /\ g.lock = h2.lock /\ g.threw = h2.threw
       /\ ~h2.stuck
  BY <1>0, <1>8, <1>10, <1>11, <1>12, DestroyRootAgrees
<1>14. Less(e2, old) = e
  <2>1. \A o \in Objects : e2[o] - One(o = old) = e[o]
    BY <1>6, <1>11 DEF One
  <2> QED
    BY <2>1, <1>0 DEF Less, Temporaries
<1> QED
  BY <1>9, <1>13, <1>14

\* The order of counting down and overwriting makes no difference.
LEMMA DestroyPut ==
    ASSUME NEW h \in Heaps, NEW x \in Values0, NEW v \in Vars, NEW y \in Values0, NEW role
    PROVE  Put(Destroy(h, x, role), v, y) = Destroy(Put(h, v, y), x, role)
<1>1. CASE x = Null
  BY <1>1 DEF Destroy
<1>2. CASE x # Null
  <2>1. PICK word : word = IF role \in Pins THEN Unlocked(h.lock[x]) ELSE h.lock[x]
    OBVIOUS
  <2>2. PICK flags : flags = IF h.count[x] = 1 /\ h.refs[x] = NoRefs /\ word = 0
                             THEN h.garbage \cup {x} ELSE h.garbage
    OBVIOUS
  <2>3. PICK waits \in BOOLEAN : waits <=> h.stuck \/ (h.count[x] = 1 /\ word = Written)
    OBVIOUS
  <2>4. PICK counts, locks : counts = [h.count EXCEPT ![x] = @ - 1] /\ locks = [h.lock EXCEPT ![x] = word]
    OBVIOUS
  <2>5. PICK k : k = Put(h, v, y)
    OBVIOUS
  <2>6. k \in Heaps /\ k.count = h.count /\ k.refs = h.refs /\ k.garbage = h.garbage /\ k.lock = h.lock
        /\ k.stuck = h.stuck /\ k.threw = h.threw /\ k.val = [h.val EXCEPT ![v] = y]
    BY <2>5, PutFields
  <2>7. Destroy(h, x, role) = [val |-> h.val, count |-> counts, refs |-> h.refs, garbage |-> flags,
                               lock |-> locks, stuck |-> waits, threw |-> h.threw]
    BY <1>2, <2>1, <2>2, <2>3, <2>4 DEF Destroy, Heaps
  <2>8. Destroy(k, x, role) = [val |-> k.val, count |-> counts, refs |-> h.refs, garbage |-> flags,
                               lock |-> locks, stuck |-> waits, threw |-> h.threw]
    BY <1>2, <2>1, <2>2, <2>3, <2>4, <2>6 DEF Destroy, Heaps
  <2>9. Put(Destroy(h, x, role), v, y)
          = [val |-> k.val, count |-> counts, refs |-> h.refs, garbage |-> flags,
             lock |-> locks, stuck |-> waits, threw |-> h.threw]
    BY <2>6, <2>7 DEF Put
  <2> QED
    BY <2>5, <2>8, <2>9
<1> QED
  BY <1>1, <1>2

\* The back references of h with one from p to o less, and one more.
Unlisted(h, p, o) == [h.refs EXCEPT ![o] = [h.refs[o] EXCEPT ![p] = @ - 1]]
Listed(h, p, o)   == [h.refs EXCEPT ![o] = [h.refs[o] EXCEPT ![p] = @ + 1]]

LEMMA UnlinkFields ==
    ASSUME NEW k \in Heaps, NEW p \in Objects, NEW o \in Objects, k.refs[o][p] > 0,
           k.lock[o] # Written, NEW v, NEW x, ~Put(Unlink(k, p, o), v, x).stuck
    PROVE  /\ Unlink(k, p, o) \in Heaps
           /\ Unlink(k, p, o).val = k.val /\ Unlink(k, p, o).count = k.count
           /\ Unlink(k, p, o).refs = Unlisted(k, p, o)
           /\ Unlink(k, p, o).garbage = IF Unlisted(k, p, o)[o] = NoRefs /\ k.count[o] = 0
                                        THEN k.garbage \cup {o} ELSE k.garbage
           /\ Unlink(k, p, o).lock = k.lock /\ Unlink(k, p, o).threw = k.threw
           /\ ~Unlink(k, p, o).stuck /\ ~k.stuck
           /\ Unlisted(k, p, o) \in [Objects -> [Objects -> Nat]]
<1>1. o # Null
  BY HandleAssumption
<1>2. /\ k.lock \in [Objects -> Nat \cup {Written}] /\ k.refs \in [Objects -> [Objects -> Nat]]
      /\ k.stuck \in BOOLEAN /\ k.garbage \in SUBSET Objects
  BY DEF Heaps
<1>3. PICK rows : rows = Unlisted(k, p, o)
  OBVIOUS
<1>4. PICK rest : rest = [k.refs[o] EXCEPT ![p] = @ - 1]
  OBVIOUS
<1>5. rest \in [Objects -> Nat] /\ rows = [k.refs EXCEPT ![o] = rest] /\ rows[o] = rest
  BY <1>2, <1>3, <1>4 DEF Unlisted
<1>6. rows \in [Objects -> [Objects -> Nat]]
  BY <1>2, <1>5
<1>7. PICK flags : flags = IF rest = NoRefs /\ k.count[o] = 0 THEN k.garbage \cup {o} ELSE k.garbage
  OBVIOUS
<1>8. PICK waits \in BOOLEAN : waits <=> k.stuck \/ k.lock[o] > 0
  OBVIOUS
<1>9. PICK locks : locks = [k.lock EXCEPT ![o] = 0]
  OBVIOUS
<1>10. Unlink(k, p, o) = [val |-> k.val, count |-> k.count, refs |-> rows, garbage |-> flags,
                          lock |-> locks, stuck |-> waits, threw |-> k.threw]
  BY <1>1, <1>4, <1>5, <1>7, <1>8, <1>9 DEF Unlink, Heaps
<1>11. ~waits /\ ~k.stuck /\ k.lock[o] = 0
  <2>1. PICK u : u = Unlink(k, p, o)
    OBVIOUS
  <2>2. Put(u, v, x).stuck = u.stuck /\ (u.stuck <=> waits)
    BY <1>10, <2>1 DEF Put
  <2> QED
    BY <1>2, <1>8, <2>1, <2>2
<1>12. locks = k.lock
  BY <1>2, <1>9, <1>11
<1>13. flags \in SUBSET Objects
  BY <1>2, <1>7
<1> QED
  BY <1>3, <1>5, <1>6, <1>7, <1>10, <1>11, <1>12, <1>13 DEF Heaps

\* The new value with its back reference, when its lock has been waited for.
Linked(h, p, x, b) == [[h EXCEPT !.refs[x][p] = @ + 1] EXCEPT !.stuck = @ \/ b]

LEMMA LinkFields ==
    ASSUME NEW h \in Heaps, NEW p \in Objects, NEW x \in Objects, NEW b \in BOOLEAN,
           NEW k, k = Linked(h, p, x, b)
    PROVE  /\ k \in Heaps /\ k.val = h.val /\ k.count = h.count /\ k.garbage = h.garbage
           /\ k.lock = h.lock /\ k.threw = h.threw /\ (~k.stuck => ~h.stuck)
           /\ k.refs = Listed(h, p, x)
<1>1. h.refs \in [Objects -> [Objects -> Nat]] /\ h.stuck \in BOOLEAN
  BY DEF Heaps
<1>2. PICK row : row = [h.refs[x] EXCEPT ![p] = @ + 1]
  OBVIOUS
<1>3. row \in [Objects -> Nat]
  BY <1>1, <1>2
<1>4. PICK rows : rows = [h.refs EXCEPT ![x] = row]
  OBVIOUS
<1>5. rows \in [Objects -> [Objects -> Nat]]
  BY <1>1, <1>3, <1>4
<1>6. PICK waits \in BOOLEAN : waits <=> h.stuck \/ b
  OBVIOUS
<1>7. k = [val |-> h.val, count |-> h.count, refs |-> rows, garbage |-> h.garbage,
           lock |-> h.lock, stuck |-> waits, threw |-> h.threw]
  BY <1>2, <1>4, <1>6 DEF Heaps, Linked
<1>8. rows = Listed(h, p, x)
  BY <1>2, <1>4 DEF Listed
<1>9. /\ k.val = h.val /\ k.count = h.count /\ k.garbage = h.garbage /\ k.lock = h.lock
      /\ k.threw = h.threw /\ k.refs = rows
  BY <1>7
<1>10. k.stuck <=> waits
  BY <1>7
<1>11. k \in Heaps
  BY <1>5, <1>7 DEF Heaps
<1> QED
  BY <1>6, <1>8, <1>9, <1>10, <1>11

\* What SetField comes to when it has something to do and need not wait.
LEMMA SetFieldFields ==
    ASSUME NEW h \in Heaps, NEW p \in Objects, NEW v \in Vars, NEW x \in Values0, NEW role,
           h.val[v] # x, x # Null => {p, x} \cap h.garbage = {},
           h.val[v] # Null => h.refs[h.val[v]][p] > 0 /\ h.lock[h.val[v]] # Written,
           NEW g, g = SetField(h, p, v, x, role), ~g.stuck
    PROVE  /\ g \in Heaps /\ g.val = [h.val EXCEPT ![v] = x] /\ g.count = h.count
           /\ g.lock = h.lock /\ g.threw = h.threw /\ ~h.stuck
           /\ \A o \in Objects, q \in Objects :
                 g.refs[o][q] = h.refs[o][q] + One(q = p /\ o = x) - One(q = p /\ o = h.val[v])
           /\ g.garbage = IF h.val[v] # Null /\ g.refs[h.val[v]] = NoRefs /\ g.count[h.val[v]] = 0
                          THEN h.garbage \cup {h.val[v]} ELSE h.garbage
<1>1. PICK old \in Values0 : old = h.val[v]
  BY DEF Heaps
<1>2. h.refs \in [Objects -> [Objects -> Nat]] /\ Null \notin Objects
  BY HandleAssumption DEF Heaps
\* the heap in which the new value has its back reference
<1>3. \E k \in Heaps :
         /\ k.val = h.val /\ k.count = h.count /\ k.garbage = h.garbage
         /\ k.lock = h.lock /\ k.threw = h.threw /\ (~k.stuck => ~h.stuck)
         /\ k.refs = (IF x = Null THEN h.refs ELSE Listed(h, p, x))
         /\ g = Put(Unlink(k, p, old), v, x)
  <2>1. CASE x = Null
    <3>1. g = Put(Unlink(h, p, old), v, x)
      BY <1>1, <2>1 DEF SetField
    <3> QED
      BY <2>1, <3>1
  <2>2. CASE x # Null
    <3>1. PICK b \in BOOLEAN : b <=> x # Null /\ h.lock[x] > (IF role \in Readers THEN 1 ELSE 0)
      OBVIOUS
    <3>2. b = (x # Null /\ h.lock[x] > (IF role \in Readers THEN 1 ELSE 0))
      BY <3>1, Zenon
    <3>3. PICK k : k = Linked(h, p, x, b)
      OBVIOUS
    <3>4. g = Put(Unlink(k, p, old), v, x)
      <4>1. ~(old = x) /\ ~(x = Null) /\ ~({p, x} \cap h.garbage # {})
        BY <1>1, <2>2
      <4> QED
        BY <4>1, <3>2, <3>3, <1>1 DEF SetField, Linked
    <3>5. x \in Objects
      BY <2>2 DEF Values0
    <3>6. /\ k \in Heaps /\ k.val = h.val /\ k.count = h.count /\ k.garbage = h.garbage
          /\ k.lock = h.lock /\ k.threw = h.threw /\ (~k.stuck => ~h.stuck)
          /\ k.refs = Listed(h, p, x)
      BY <3>3, <3>5, LinkFields
    <3> QED
      BY <2>2, <3>4, <3>6
  <2> QED
    BY <2>1, <2>2
<1>4. PICK k \in Heaps :
         /\ k.val = h.val /\ k.count = h.count /\ k.garbage = h.garbage
         /\ k.lock = h.lock /\ k.threw = h.threw /\ (~k.stuck => ~h.stuck)
         /\ k.refs = (IF x = Null THEN h.refs ELSE Listed(h, p, x))
         /\ g = Put(Unlink(k, p, old), v, x)
  BY <1>3
<1>5. \A o \in Objects, q \in Objects : k.refs[o][q] = h.refs[o][q] + One(q = p /\ o = x)
  <2>1. CASE x = Null
    BY <2>1, <1>2, <1>4 DEF One
  <2>2. CASE x # Null
    <3>1. x \in Objects /\ k.refs = Listed(h, p, x)
      BY <2>2, <1>4 DEF Values0
    <3>2. ASSUME NEW o \in Objects, NEW q \in Objects
          PROVE  Listed(h, p, x)[o][q] = h.refs[o][q] + One(q = p /\ o = x)
      BY <3>1, <1>2 DEF Listed, One
    <3> QED
      BY <3>1, <3>2
  <2> QED
    BY <2>1, <2>2
<1>6. PICK u : u = Unlink(k, p, old)
  OBVIOUS
<1>7. /\ u \in Heaps /\ u.val = h.val /\ u.count = h.count /\ u.lock = h.lock /\ u.threw = h.threw
      /\ ~h.stuck
      /\ \A o \in Objects, q \in Objects : u.refs[o][q] = k.refs[o][q] - One(q = p /\ o = old)
      /\ u.garbage = IF old # Null /\ u.refs[old] = NoRefs /\ u.count[old] = 0
                     THEN h.garbage \cup {old} ELSE h.garbage
  <2>1. CASE old = Null
    <3>1. u = k
      BY <1>6, <2>1 DEF Unlink
    <3>2. g.stuck = k.stuck
      <4>1. Put(k, v, x).stuck = k.stuck
        BY PutFields
      <4> QED
        BY <4>1, <1>4, <1>6, <3>1
    <3>3. \A o \in Objects, q \in Objects : u.refs[o][q] = k.refs[o][q] - One(q = p /\ o = old)
      <4>1. ASSUME NEW o \in Objects, NEW q \in Objects
            PROVE  k.refs[o][q] \in Nat /\ One(q = p /\ o = old) = 0
        BY <1>2, <2>1 DEF Heaps, One
      <4> QED
        BY <4>1, <3>1
    <3> QED
      BY <1>4, <2>1, <3>1, <3>2, <3>3
  <2>2. CASE old \in Objects
    <3>1. k.refs[old][p] > 0 /\ k.lock[old] # Written
      <4>1. h.refs[old][p] > 0 /\ h.lock[old] # Written /\ h.refs[old][p] \in Nat
        BY <1>1, <1>2, <2>2
      <4>2. k.refs[old][p] = h.refs[old][p] + One(p = p /\ old = x)
        BY <1>5, <2>2
      <4>3. One(p = p /\ old = x) \in {0, 1}
        BY DEF One
      <4> QED
        BY <4>1, <4>2, <4>3, <1>4
    <3>2. ~Put(Unlink(k, p, old), v, x).stuck
      BY <1>4
    <3>3. /\ u \in Heaps /\ u.val = k.val /\ u.count = k.count /\ u.refs = Unlisted(k, p, old)
          /\ u.garbage = IF Unlisted(k, p, old)[old] = NoRefs /\ k.count[old] = 0
                         THEN k.garbage \cup {old} ELSE k.garbage
          /\ u.lock = k.lock /\ u.threw = k.threw /\ ~k.stuck
      <4>1. PICK w : w = Unlink(k, p, old)
        OBVIOUS
      <4>2. /\ w \in Heaps /\ w.val = k.val /\ w.count = k.count /\ w.refs = Unlisted(k, p, old)
            /\ w.garbage = IF Unlisted(k, p, old)[old] = NoRefs /\ k.count[old] = 0
                           THEN k.garbage \cup {old} ELSE k.garbage
            /\ w.lock = k.lock /\ w.threw = k.threw /\ ~k.stuck
        BY <4>1, <2>2, <3>1, <3>2, UnlinkFields
      <4> QED
        BY <4>1, <4>2, <1>6
    <3>4. ASSUME NEW o \in Objects, NEW q \in Objects
          PROVE  Unlisted(k, p, old)[o][q] = k.refs[o][q] - One(q = p /\ o = old)
      <4>1. k.refs \in [Objects -> [Objects -> Nat]]
        BY DEF Heaps
      <4> QED
        BY <4>1, <2>2 DEF Unlisted, One
    <3>5. old # Null
      BY <2>2, <1>2
    <3> QED
      BY <1>4, <3>3, <3>4, <3>5
  <2> QED
    BY <2>1, <2>2 DEF Values0
<1>8. /\ g \in Heaps /\ g.val = [u.val EXCEPT ![v] = x] /\ g.count = u.count /\ g.refs = u.refs
      /\ g.garbage = u.garbage /\ g.lock = u.lock /\ g.threw = u.threw
  BY <1>4, <1>6, <1>7, PutFields
<1>9. ASSUME NEW o \in Objects, NEW q \in Objects
      PROVE  g.refs[o][q] = h.refs[o][q] + One(q = p /\ o = x) - One(q = p /\ o = old)
  <2>1. k.refs[o][q] = h.refs[o][q] + One(q = p /\ o = x)
    BY <1>5
  <2>2. g.refs[o][q] = k.refs[o][q] - One(q = p /\ o = old)
    BY <1>7, <1>8
  <2>3. PICK a, b, c, d, m : /\ a = g.refs[o][q] /\ b = k.refs[o][q] /\ c = h.refs[o][q]
                             /\ d = One(q = p /\ o = x) /\ m = One(q = p /\ o = old)
    OBVIOUS
  <2>4. c \in Int /\ d \in Int /\ m \in Int
    BY <2>3, <1>2 DEF One
  <2>5. a = c + d - m
    BY <2>1, <2>2, <2>3, <2>4
  <2> QED
    BY <2>3, <2>5
<1> QED
  BY <1>1, <1>7, <1>8, <1>9

\* Assigning to a field of an object that the program has at hand.
LEMMA SetFieldAgrees ==
    ASSUME NEW h, NEW e, NEW L, Agrees(h, e, L), NEW v \in Vars, NEW p \in Objects, Owner[v] = p,
           NEW x \in Values0, Usable(h, L, x), x # Null => p \notin h.garbage,
           h.val[v] # Null => h.lock[h.val[v]] # Written,
           NEW role, NEW g, g = SetField(h, p, v, x, role), ~g.stuck
    PROVE  Agrees(g, e, L) /\ g.val = [h.val EXCEPT ![v] = x] /\ g.lock = h.lock
           /\ g.threw = h.threw /\ ~h.stuck
<1>0. h \in Heaps /\ e \in Temporaries /\ h.val \in [Vars -> Values0] /\ h.stuck \in BOOLEAN
      /\ CountsFit(h, e) /\ LocksFit(h) /\ FlagsFit(h, e, L) /\ Null \notin Objects
  BY HandleAssumption DEF Agrees, Heaps
<1>1. PICK old \in Values0 : old = h.val[v]
  BY <1>0
<1>2. CASE old = x
  <2>1. PICK b \in BOOLEAN : b <=> x # Null /\ h.lock[x] > (IF role \in Readers THEN 1 ELSE 0)
    OBVIOUS
  <2>2. b = (x # Null /\ h.lock[x] > (IF role \in Readers THEN 1 ELSE 0))
    BY <2>1, Zenon
  <2>3. g = [h EXCEPT !.stuck = @ \/ (b /\ role \in Readers)]
    BY <2>2, <1>1, <1>2 DEF SetField
  <2>4. PICK waits \in BOOLEAN : waits <=> h.stuck \/ (b /\ role \in Readers)
    OBVIOUS
  <2>9. waits = (h.stuck \/ (b /\ role \in Readers))
    BY <2>4, <1>0, Zenon
  <2>5. g = [val |-> h.val, count |-> h.count, refs |-> h.refs, garbage |-> h.garbage,
             lock |-> h.lock, stuck |-> waits, threw |-> h.threw]
    BY <2>3, <2>9, <1>0 DEF Heaps
  <2>6. /\ g.val = h.val /\ g.count = h.count /\ g.refs = h.refs /\ g.garbage = h.garbage
        /\ g.lock = h.lock /\ g.threw = h.threw /\ ~h.stuck
    BY <2>4, <2>5
  <2>7. g \in Heaps
    BY <2>5, <1>0 DEF Heaps
  <2>8. [h.val EXCEPT ![v] = x] = h.val
    BY <1>0, <1>1, <1>2
  <2> QED
    BY <1>0, <2>6, <2>7, <2>8 DEF Agrees, CountsFit, LocksFit, FlagsFit, Refers
<1>3. CASE old # x
  <2>1. h.val[v] # x /\ (x # Null => {p, x} \cap h.garbage = {})
    BY <1>1, <1>3 DEF Usable
  <2>2. \A o \in Objects : /\ h.count[o] = N(h.val, Rooted, o) + e[o]
                           /\ \A q \in Objects : h.refs[o][q] = N(h.val, FieldsOf(q), o)
    BY <1>0 DEF CountsFit
  <2>3. v \in FieldsOf(p) /\ v \notin Rooted /\ (\A q \in Objects \ {p} : v \notin FieldsOf(q))
        /\ v \notin WritePins /\ v \notin ReadPins
    BY <1>0, Classes DEF FieldsOf, Rooted
  <2>4. old # Null => h.refs[old][p] > 0
    <3>1. ASSUME old # Null PROVE N(h.val, FieldsOf(p), old) \in Nat /\ N(h.val, FieldsOf(p), old) # 0
      <4>1. PICK C \in SUBSET Vars : C = FieldsOf(p)
        BY Classes
      <4>2. N(h.val, C, old) \in Nat /\ (N(h.val, C, old) = 0 <=> \A u \in C : h.val[u] # old)
        BY CountingType
      <4> QED
        BY <4>1, <4>2, <1>1, <2>3
    <3> QED
      BY <3>1, <2>2 DEF Values0
  <2>5. /\ g \in Heaps /\ g.val = [h.val EXCEPT ![v] = x] /\ g.count = h.count
        /\ g.lock = h.lock /\ g.threw = h.threw /\ ~h.stuck
        /\ \A o \in Objects, q \in Objects :
              g.refs[o][q] = h.refs[o][q] + One(q = p /\ o = x) - One(q = p /\ o = h.val[v])
        /\ g.garbage = IF h.val[v] # Null /\ g.refs[h.val[v]] = NoRefs /\ g.count[h.val[v]] = 0
                       THEN h.garbage \cup {h.val[v]} ELSE h.garbage
    <3>1. h.val[v] # Null => h.refs[h.val[v]][p] > 0 /\ h.lock[h.val[v]] # Written
      BY <1>1, <2>4
    <3> QED
      BY <1>0, <2>1, <3>1, SetFieldFields
  <2>6. ASSUME NEW C \in SUBSET Vars, NEW o
        PROVE  N(g.val, C, o) + One(v \in C /\ old = o) = N(h.val, C, o) + One(v \in C /\ x = o)
               /\ N(g.val, C, o) \in Nat /\ N(h.val, C, o) \in Nat
    <3>1. g.val = Changed(h.val, v, x)
      BY <2>5 DEF Changed
    <3> QED
      <4>1. /\ N(g.val, C, o) + One(v \in C /\ h.val[v] = o) = N(h.val, C, o) + One(v \in C /\ x = o)
            /\ N(g.val, C, o) \in Nat /\ N(h.val, C, o) \in Nat
        BY <1>0, <3>1, CountingHeap
      <4> QED
        BY <4>1, <1>1
  <2>7. \A C \in SUBSET Vars : \A o : v \notin C => N(g.val, C, o) = N(h.val, C, o)
    BY <2>6 DEF One
  <2>8. CountsFit(g, e)
    <3>1. ASSUME NEW o \in Objects PROVE g.count[o] = N(g.val, Rooted, o) + e[o]
      BY <2>2, <2>3, <2>5, <2>7, Classes
    <3>2. ASSUME NEW o \in Objects, NEW q \in Objects PROVE g.refs[o][q] = N(g.val, FieldsOf(q), o)
      <4>1. PICK C \in SUBSET Vars : C = FieldsOf(q)
        BY Classes
      <4>2. v \in C <=> q = p
        BY <2>3, <4>1
      <4>3. /\ N(g.val, C, o) + One(v \in C /\ old = o) = N(h.val, C, o) + One(v \in C /\ x = o)
            /\ N(g.val, C, o) \in Nat /\ N(h.val, C, o) \in Nat
        BY <2>6
      <4>4. g.refs[o][q] = N(h.val, C, o) + One(q = p /\ o = x) - One(q = p /\ o = old)
        BY <2>2, <2>5, <4>1, <1>1
      <4>5. One(v \in C /\ old = o) = One(q = p /\ o = old) /\ One(v \in C /\ x = o) = One(q = p /\ o = x)
            /\ One(q = p /\ o = old) \in Nat /\ One(q = p /\ o = x) \in Nat
        BY <4>2 DEF One
      <4>6. g.refs[o][q] = N(g.val, C, o)
        BY <4>3, <4>4, <4>5
      <4> QED
        BY <4>1, <4>6
    <3> QED
      BY <3>1, <3>2 DEF CountsFit
  <2>9. LocksFit(g)
    <3>1. \A o : N(g.val, WritePins, o) = N(h.val, WritePins, o) /\ N(g.val, ReadPins, o) = N(h.val, ReadPins, o)
      BY <2>3, <2>7 DEF WritePins, ReadPins
    <3> QED
      BY <3>1, <2>5, <1>0 DEF LocksFit
  <2>10. FlagsFit(g, e, L)
    <3>1. g.val[v] = x /\ \A u \in Vars \ {v} : g.val[u] = h.val[u]
      BY <1>0, <2>5
    <3>2. ASSUME NEW o \in Objects, o # old PROVE (o \in L \ g.garbage) <=> Refers(g, e, o)
      <4>1. (o \in L \ g.garbage) <=> (o \in L \ h.garbage)
        BY <1>1, <2>5, <3>2
      <4>2. CASE o = x
        BY <4>1, <4>2, <3>1, <1>0 DEF Refers, Usable
      <4>3. CASE o # x
        <5>1. Refers(g, e, o) <=> Refers(h, e, o)
          BY <4>3, <3>1, <3>2, <1>1 DEF Refers
        <5> QED
          BY <4>1, <5>1, <1>0 DEF FlagsFit
      <4> QED
        BY <4>2, <4>3
    <3>3. ASSUME old \in Objects PROVE (old \in L \ g.garbage) <=> Refers(g, e, old)
      <4>1. old \in L \ h.garbage
        BY <1>0, <1>1, <3>3 DEF FlagsFit, Refers
      <4>2. g.count[old] = 0 /\ g.refs[old] = NoRefs <=> ~Refers(g, e, old)
        BY <1>0, <2>5, <2>8, <3>3, Uncounted
      <4>3. old # Null
        BY <3>3, <1>0
      <4> QED
        BY <4>1, <4>2, <4>3, <2>5, <1>1
    <3>4. g.garbage \subseteq L
      <4>1. old # Null => old \in L
        BY <1>0, <1>1 DEF FlagsFit, Refers, Values0
      <4> QED
        BY <4>1, <1>0, <1>1, <2>5 DEF FlagsFit
    <3> QED
      BY <3>2, <3>3, <3>4 DEF FlagsFit
  <2> QED
    BY <1>0, <2>5, <2>8, <2>9, <2>10 DEF Agrees
<1> QED
  BY <1>2, <1>3

\* A variable that is null is given a value.
LEMMA RootFill ==
    ASSUME NEW h, NEW e, NEW L, Agrees(h, e, L), NEW x \in Values0, Usable(h, L, x),
           NEW v \in Vars, PlainRoot(v), h.val[v] = Null,
           NEW g, g = Put(Copy(h, x, "root"), v, x), ~g.stuck
    PROVE  Agrees(g, e, L) /\ g.val = [h.val EXCEPT ![v] = x] /\ g.lock = h.lock
           /\ g.threw = h.threw /\ ~h.stuck
<1>1. g = Destroy(Put(Copy(h, x, "root"), v, x), h.val[v], "root")
  BY DEF Destroy
<1> QED
  BY <1>1, RootSet

\* A variable lets go of its value and becomes null.
LEMMA RootClear ==
    ASSUME NEW h, NEW e, NEW L, Agrees(h, e, L), NEW v \in Vars, PlainRoot(v),
           NEW g, g = Put(Destroy(h, h.val[v], "root"), v, Null), ~g.stuck
    PROVE  Agrees(g, e, L) /\ g.val = [h.val EXCEPT ![v] = Null] /\ g.lock = h.lock
           /\ g.threw = h.threw /\ ~h.stuck
<1>0. h \in Heaps /\ h.val[v] \in Values0
  BY DEF Agrees, Heaps
<1>1. h \in Heaps /\ h.val[v] \in Values0 /\ Null \in Values0 /\ Usable(h, L, Null)
  <2>1. Null \in Values0
    BY DEF Values0
  <2>2. Usable(h, L, Null)
    BY DEF Usable
  <2> QED
    BY <1>0, <2>1, <2>2
<1>2. PICK old \in Values0 : old = h.val[v]
  BY <1>1
<1>3. g = Destroy(Put(h, v, Null), old, "root")
  BY <1>1, <1>2, DestroyPut
<1>4. Copy(h, Null, "root") = h
  BY DEF Copy
<1>5. g = Destroy(Put(Copy(h, Null, "root"), v, Null), h.val[v], "root")
  BY <1>2, <1>3, <1>4
<1>6. PICK z \in Values0 : z = Null
  BY <1>1
<1> QED
  BY <1>1, <1>5, <1>6, RootSet

\* Two variables exchange their values.
LEMMA SwapAgrees ==
    ASSUME NEW h, NEW e, NEW L, Agrees(h, e, L), NEW v \in Vars, NEW w \in Vars, v # w,
           PlainRoot(v), PlainRoot(w),
           NEW g, g = Put(Put(h, v, h.val[w]), w, h.val[v])
    PROVE  Agrees(g, e, L) /\ g.val = [[h.val EXCEPT ![v] = h.val[w]] EXCEPT ![w] = h.val[v]]
<1>0. h \in Heaps /\ h.val \in [Vars -> Values0] /\ CountsFit(h, e) /\ LocksFit(h) /\ FlagsFit(h, e, L)
  BY DEF Agrees, Heaps
<1>1. PICK x \in Values0, y \in Values0 : x = h.val[v] /\ y = h.val[w]
  BY <1>0
<1>2. PICK k : k = Put(h, v, y)
  OBVIOUS
<1>3. k \in Heaps /\ k.val = [h.val EXCEPT ![v] = y] /\ k.count = h.count /\ k.refs = h.refs
      /\ k.garbage = h.garbage /\ k.lock = h.lock
  BY <1>0, <1>2, PutFields
<1>4. g = Put(k, w, x)
  BY <1>1, <1>2
<1>5. g \in Heaps /\ g.val = [k.val EXCEPT ![w] = x] /\ g.count = k.count /\ g.refs = k.refs
      /\ g.garbage = k.garbage /\ g.lock = k.lock
  BY <1>3, <1>4, PutFields
<1>6. ASSUME NEW C \in SUBSET Vars, NEW o, v \in C <=> w \in C
      PROVE  N(g.val, C, o) = N(h.val, C, o)
  <2>1. PICK a \in [Vars -> Values0], b \in [Vars -> Values0], c \in [Vars -> Values0] :
           a = h.val /\ b = k.val /\ c = g.val
    BY <1>0, <1>3, <1>5 DEF Heaps
  <2>2. b = Changed(a, v, y) /\ c = Changed(b, w, x)
    BY <1>3, <1>5, <2>1 DEF Changed
  <2>3. N(b, C, o) + One(v \in C /\ a[v] = o) = N(a, C, o) + One(v \in C /\ y = o)
    BY <2>2, CountingPut
  <2>4. N(c, C, o) + One(w \in C /\ b[w] = o) = N(b, C, o) + One(w \in C /\ x = o)
    BY <2>2, CountingPut
  <2>5. a[v] = x /\ b[w] = y
    BY <1>1, <1>3, <2>1
  <2>6. /\ N(a, C, o) \in Nat /\ N(b, C, o) \in Nat /\ N(c, C, o) \in Nat
    BY CountingType
  <2>7. One(v \in C /\ a[v] = o) = One(w \in C /\ x = o) /\ One(v \in C /\ y = o) = One(w \in C /\ b[w] = o)
        /\ One(w \in C /\ x = o) \in Nat /\ One(w \in C /\ b[w] = o) \in Nat
    BY <1>6, <2>5 DEF One
  <2>8. N(c, C, o) = N(a, C, o)
    BY <2>3, <2>4, <2>6, <2>7
  <2> QED
    BY <2>1, <2>8
<1>7. /\ v \in Rooted /\ w \in Rooted
      /\ v \notin WritePins /\ w \notin WritePins /\ v \notin ReadPins /\ w \notin ReadPins
  BY DEF PlainRoot, WritePins, ReadPins, Pins
<1>8. CountsFit(g, e)
  <2>1. ASSUME NEW o \in Objects PROVE N(g.val, Rooted, o) = N(h.val, Rooted, o)
    BY <1>6, <1>7, Classes
  <2>2. ASSUME NEW o \in Objects, NEW p \in Objects PROVE N(g.val, FieldsOf(p), o) = N(h.val, FieldsOf(p), o)
    <3>1. PICK C \in SUBSET Vars : C = FieldsOf(p)
      BY Classes
    <3>2. v \notin C /\ w \notin C
      BY <3>1, <1>7, Classes
    <3> QED
      BY <3>1, <3>2, <1>6
  <2> QED
    BY <2>1, <2>2, <1>0, <1>3, <1>5 DEF CountsFit
<1>9. LocksFit(g)
  <2>1. ASSUME NEW o \in Objects
        PROVE N(g.val, WritePins, o) = N(h.val, WritePins, o) /\ N(g.val, ReadPins, o) = N(h.val, ReadPins, o)
    BY <1>6, <1>7, Classes
  <2> QED
    BY <2>1, <1>0, <1>3, <1>5 DEF LocksFit
<1>10. FlagsFit(g, e, L)
  <2>1. g.val[v] = y /\ g.val[w] = x /\ \A u \in Vars \ {v, w} : g.val[u] = h.val[u]
    BY <1>0, <1>1, <1>3, <1>5
  <2>2. \A o \in Objects : Refers(g, e, o) <=> Refers(h, e, o)
    BY <2>1, <1>1 DEF Refers
  <2> QED
    BY <2>2, <1>0, <1>3, <1>5 DEF FlagsFit
<1> QED
  BY <1>1, <1>3, <1>5, <1>8, <1>9, <1>10 DEF Agrees

\* The object that v is a field of, if it is one, has a pin, and the old value can be let go.
Ready(h, v) ==
    \/ Owner[v] = Null
    \/ /\ \E u \in Vars : Kind[u] \in Pins /\ h.val[u] = Owner[v]
       /\ h.val[v] # Null => h.lock[h.val[v]] # Written

IsField(v) == Kind[v] \in {"field", "dynField"}

LEMMA ReadyOwner ==
    ASSUME NEW h, NEW e, NEW L, Agrees(h, e, L), NEW v \in Vars, IsField(v), Ready(h, v)
    PROVE  \/ Owner[v] = Null /\ PlainRoot(v)
           \/ /\ Owner[v] \in Objects /\ Owner[v] # Null /\ Owner[v] \notin h.garbage
              /\ h.val[v] # Null => h.lock[h.val[v]] # Written
<1>1. Owner[v] \in Objects \cup {Null} /\ Kind[v] \notin Pins /\ Null \notin Objects
  BY HandleAssumption DEF IsField, Pins, Readers, Writers
<1>2. CASE Owner[v] = Null
  BY <1>1, <1>2 DEF PlainRoot, Rooted
<1>3. CASE Owner[v] \in Objects
  BY <1>1, <1>3 DEF Ready, Agrees, FlagsFit, Refers
<1> QED
  BY <1>1, <1>2, <1>3

LEMMA SetAgrees ==
    ASSUME NEW h, NEW e, NEW L, Agrees(h, e, L), NEW v \in Vars, IsField(v), Ready(h, v),
           NEW x \in Values0, Usable(h, L, x), ~h.threw,
           NEW role, NEW g, g = Set(h, v, x, role), ~g.stuck
    PROVE  Agrees(g, e, L) /\ g.val = [h.val EXCEPT ![v] = x] /\ g.lock = h.lock
           /\ ~g.threw /\ ~h.stuck
<1>1. CASE Owner[v] # Null
  <2>1. PICK p \in Objects : p = Owner[v]
    BY <1>1, ReadyOwner
  <2>2. /\ x # Null => p \notin h.garbage
        /\ h.val[v] # Null => h.lock[h.val[v]] # Written
    BY <1>1, <2>1, ReadyOwner
  <2>3. g = SetField(h, p, v, x, role)
    BY <1>1, <2>1 DEF Set
  <2> QED
    BY <2>1, <2>2, <2>3, SetFieldAgrees
<1>2. CASE Owner[v] = Null /\ h.val[v] = x
  <2>1. g = h
    BY <1>2 DEF Set
  <2>2. h.val \in [Vars -> Values0]
    BY DEF Agrees, Heaps
  <2> QED
    BY <1>2, <2>1, <2>2
<1>3. CASE Owner[v] = Null /\ h.val[v] # x
  <2>1. g = Destroy(Put(Copy(h, x, "root"), v, x), h.val[v], "root")
    BY <1>3 DEF Set
  <2>2. PlainRoot(v)
    BY <1>3, ReadyOwner, HandleAssumption
  <2>3. Agrees(g, e, L) /\ g.val = [h.val EXCEPT ![v] = x] /\ g.lock = h.lock
        /\ g.threw = h.threw /\ ~h.stuck
    BY <2>1, <2>2, RootSet
  <2> QED
    BY <2>3
<1> QED
  BY <1>1, <1>2, <1>3

\* A call on a heap that has got stuck leaves it stuck.
Waiting(h)  == "stuck" \in DOMAIN h
After(k, h) == Waiting(k) /\ (~k.stuck => ~h.stuck)

LEMMA CallsWait ==
    ASSUME NEW h, Waiting(h), NEW x, NEW role, NEW p, NEW v
    PROVE  /\ After(Copy(h, x, role), h) /\ After(Destroy(h, x, role), h)
           /\ After(Unlink(h, p, x), h) /\ After(Put(h, v, x), h)
<1>1. After(Copy(h, x, role), h)
  BY DEF Copy, Waiting, After
<1>2. After(Destroy(h, x, role), h)
  BY DEF Destroy, Waiting, After
<1>3. After(Unlink(h, p, x), h)
  BY DEF Unlink, Waiting, After
<1>4. After(Put(h, v, x), h)
  BY DEF Put, Waiting, After
<1> QED
  BY <1>1, <1>2, <1>3, <1>4

LEMMA SetFieldWaits ==
    ASSUME NEW h, Waiting(h), NEW p, NEW v, NEW x, NEW role
    PROVE  After(SetField(h, p, v, x, role), h)
<1>1. CASE h.val[v] = x
  BY <1>1 DEF SetField, Waiting, After
<1>2. CASE h.val[v] # x /\ x = Null
  <2>1. After(Put(Unlink(h, p, h.val[v]), v, x), Unlink(h, p, h.val[v])) /\ After(Unlink(h, p, h.val[v]), h)
    BY CallsWait DEF After
  <2> QED
    BY <1>2, <2>1 DEF SetField, After
<1>3. CASE h.val[v] # x /\ x # Null /\ {p, x} \cap h.garbage # {}
  BY <1>3 DEF SetField, Waiting, After
<1>4. CASE h.val[v] # x /\ x # Null /\ ~({p, x} \cap h.garbage # {})
  <2>1. PICK b : b = (x # Null /\ h.lock[x] > (IF role \in Readers THEN 1 ELSE 0))
    OBVIOUS
  <2>2. PICK k : k = Linked(h, p, x, b)
    OBVIOUS
  <2>3. After(k, h)
    BY <2>2 DEF Linked, Waiting, After
  <2>4. After(Put(Unlink(k, p, h.val[v]), v, x), Unlink(k, p, h.val[v])) /\ After(Unlink(k, p, h.val[v]), k)
    BY <2>3, CallsWait DEF After
  <2>5. SetField(h, p, v, x, role) = Put(Unlink(k, p, h.val[v]), v, x)
    <3>1. ~(h.val[v] = x) /\ ~(x = Null)
      BY <1>4
    <3> QED
      BY <1>4, <2>1, <2>2, <3>1 DEF SetField, Linked
  <2> QED
    BY <2>3, <2>4, <2>5 DEF After
<1> QED
  BY <1>1, <1>2, <1>3, <1>4

LEMMA SetWaits ==
    ASSUME NEW h, Waiting(h), NEW v, NEW x, NEW role
    PROVE  /\ After(Set(h, v, x, role), h)
           /\ After(DynSet(h, v, x, role), h)
           /\ After(Assign(h, v, x), h)
           /\ After(SetFrom(h, v, x), h)
<1>1. ASSUME NEW k, Waiting(k), NEW y, NEW z, NEW r
      PROVE  After(Put(Copy(k, y, r), v, y), k) /\ After(Destroy(Put(Copy(k, y, r), v, y), z, r), k)
  <2>1. PICK a, b : a = Copy(k, y, r) /\ b = Put(a, v, y)
    OBVIOUS
  <2>2. After(a, k) /\ After(b, a) /\ After(Destroy(b, z, r), b)
    BY <1>1, <2>1, CallsWait DEF After
  <2> QED
    BY <2>1, <2>2 DEF After
<1>2. ASSUME NEW k, Waiting(k), NEW r PROVE After(Set(k, v, x, r), k)
  BY <1>1, <1>2, SetFieldWaits DEF Set, After
<1>3. After(DynSet(h, v, x, role), h)
  BY <1>1, SetFieldWaits DEF DynSet
<1>4. After(Assign(h, v, x), h)
  BY <1>1 DEF Assign, After
<1>5. After(SetFrom(h, v, x), h)
  <2>1. PICK a, b : a = Copy(h, x, "root") /\ b = Set(a, v, x, "root")
    OBVIOUS
  <2>2. After(a, h) /\ After(b, a) /\ After(Destroy(b, x, "root"), b)
    BY <1>2, <2>1, CallsWait DEF After
  <2> QED
    BY <2>1, <2>2 DEF After, SetFrom
<1> QED
  BY <1>2, <1>3, <1>4, <1>5

LEMMA SetFromAgrees ==
    ASSUME NEW h, NEW e, NEW L, Agrees(h, e, L), NEW v \in Vars, IsField(v), Ready(h, v),
           NEW x \in Values0, Usable(h, L, x), ~h.threw,
           NEW g, g = SetFrom(h, v, x), ~g.stuck
    PROVE  Agrees(g, e, L) /\ g.val = [h.val EXCEPT ![v] = x] /\ g.lock = h.lock
           /\ ~g.threw /\ ~h.stuck
<1>0. "root" \notin Pins /\ e \in Temporaries
  BY DEF Pins, Readers, Writers, Agrees
<1>1. PICK h1 : h1 = Copy(h, x, "root")
  OBVIOUS
<1>2. PICK e1 : e1 = More(e, x)
  OBVIOUS
<1>3. /\ Agrees(h1, e1, L) /\ h1.val = h.val /\ h1.lock = h.lock
      /\ h1.garbage = h.garbage /\ ~h1.threw /\ h1.stuck = h.stuck
  BY <1>0, <1>1, <1>2, CopyRootAgrees
<1>4. Ready(h1, v) /\ Usable(h1, L, x)
  BY <1>3 DEF Ready, Usable
<1>5. PICK h2 : h2 = Set(h1, v, x, "root")
  OBVIOUS
<1>6. g = Destroy(h2, x, "root")
  BY <1>1, <1>5 DEF SetFrom
<1>7. ~h2.stuck => Agrees(h2, e1, L) /\ h2.val = [h1.val EXCEPT ![v] = x] /\ h2.lock = h1.lock
                   /\ ~h2.threw /\ ~h1.stuck
  BY <1>3, <1>4, <1>5, SetAgrees
<1>8. \A o \in Objects : e[o] \in Nat /\ e1[o] = e[o] + One(o = x)
  BY <1>0, <1>2 DEF More, Temporaries
<1>9. x # Null => e1[x] > 0
  BY <1>8 DEF Values0, One
<1>10. ~h2.stuck
  <2>1. Waiting(h1)
    BY <1>3 DEF Agrees, Heaps, Waiting
  <2>2. After(h2, h1)
    BY <1>5, <2>1, SetWaits
  <2>3. After(g, h2)
    BY <1>6, <2>2, CallsWait DEF After
  <2> QED
    BY <2>3 DEF After
<1>11. /\ Agrees(g, Less(e1, x), L) /\ g.val = h2.val /\ g.lock = h2.lock /\ g.threw = h2.threw
  BY <1>0, <1>6, <1>7, <1>9, <1>10, DestroyRootAgrees
<1>12. Less(e1, x) = e
  <2>1. \A o \in Objects : e1[o] - One(o = x) = e[o]
    BY <1>8 DEF One
  <2> QED
    BY <2>1, <1>0 DEF Less, Temporaries
<1> QED
  BY <1>3, <1>7, <1>10, <1>11, <1>12

\* dyn::root_handle::Assign.
LEMMA AssignAgrees ==
    ASSUME NEW h, NEW e, NEW L, Agrees(h, e, L), NEW v \in Vars, PlainRoot(v),
           NEW x \in Values0, Usable(h, L, x), NEW g, g = Assign(h, v, x), ~g.stuck
    PROVE  /\ Agrees(g, e, L) /\ ~h.stuck
           /\ g.val = IF x = h.val[v] THEN h.val ELSE [h.val EXCEPT ![v] = Cast(v, x)]
<1>1. PICK y : y = Cast(v, x)
  OBVIOUS
<1>2. y \in Values0 /\ Usable(h, L, y)
  BY <1>1 DEF Cast, Values0, Usable
<1>3. CASE x # h.val[v]
  <2>1. g = Destroy(Put(Copy(h, y, "root"), v, y), h.val[v], "root")
    BY <1>1, <1>3 DEF Assign
  <2>2. Agrees(g, e, L) /\ g.val = [h.val EXCEPT ![v] = y] /\ ~h.stuck
    BY <1>2, <2>1, RootSet
  <2> QED
    BY <2>2, <1>1, <1>3
<1> QED
  BY <1>3 DEF Assign

\* dyn::field::Assign.
LEMMA DynSetAgrees ==
    ASSUME NEW h, NEW e, NEW L, Agrees(h, e, L), NEW v \in Vars, IsField(v), Ready(h, v),
           Owner[v] # Null \/ h.val[v] = Null, NEW x \in Values0, Usable(h, L, x),
           NEW role, NEW g, g = DynSet(h, v, x, role), ~g.stuck
    PROVE  Agrees(g, e, L) /\ g.val = [h.val EXCEPT ![v] = x] /\ g.lock = h.lock /\ ~h.stuck
<1>1. CASE Owner[v] # Null
  <2>1. PICK p \in Objects : p = Owner[v]
    BY <1>1, ReadyOwner
  <2>2. /\ x # Null => p \notin h.garbage
        /\ h.val[v] # Null => h.lock[h.val[v]] # Written
    BY <1>1, <2>1, ReadyOwner
  <2>3. g = SetField(h, p, v, x, role)
    BY <1>1, <2>1 DEF DynSet
  <2> QED
    BY <2>1, <2>2, <2>3, SetFieldAgrees
<1>2. CASE Owner[v] = Null
  <2>1. g = Put(Copy(h, x, "root"), v, x)
    BY <1>2 DEF DynSet
  <2>2. PlainRoot(v) /\ h.val[v] = Null
    BY <1>2, ReadyOwner, HandleAssumption
  <2> QED
    BY <2>1, <2>2, RootFill
<1> QED
  BY <1>1, <1>2

\* A pin is constructed.
LEMMA PinCopyFields ==
    ASSUME NEW h \in Heaps, NEW x \in Objects, NEW role \in Pins, NEW v \in Vars,
           NEW g, g = Put(Copy(h, x, role), v, x), ~g.stuck
    PROVE  /\ g \in Heaps /\ g.val = [h.val EXCEPT ![v] = x] /\ g.refs = h.refs
           /\ g.garbage = h.garbage /\ g.count = [h.count EXCEPT ![x] = @ + 1]
           /\ role \in Readers => h.lock[x] # Written /\ g.lock = [h.lock EXCEPT ![x] = @ + 1]
           /\ role \in Writers => h.lock[x] = 0 /\ g.lock = [h.lock EXCEPT ![x] = Written]
           /\ ~h.stuck
<1>1. x # Null /\ (role \in Readers => role \notin Writers) /\ (role \in Readers \/ role \in Writers)
  BY HandleAssumption DEF Pins, Readers, Writers
<1>2. /\ h.lock \in [Objects -> Nat \cup {Written}] /\ h.count \in [Objects -> Nat]
      /\ h.stuck \in BOOLEAN /\ h.val \in [Vars -> Values0]
  BY DEF Heaps
<1>3. PICK word : word = IF role \in Readers THEN h.lock[x] + 1 ELSE Written
  OBVIOUS
<1>4. PICK waits \in BOOLEAN : waits <=> IF role \in Readers THEN h.lock[x] = Written ELSE h.lock[x] # 0
  OBVIOUS
<1>5. waits = (IF role \in Readers THEN h.lock[x] = Written ELSE h.lock[x] # 0)
  BY <1>4
<1>6. PICK stuck \in BOOLEAN : stuck <=> h.stuck \/ waits
  OBVIOUS
<1>7. stuck = (h.stuck \/ waits)
  BY <1>2, <1>6, Zenon
<1>8. PICK counts, locks, vals : /\ counts = [h.count EXCEPT ![x] = @ + 1]
                                 /\ locks = [h.lock EXCEPT ![x] = word]
                                 /\ vals = [h.val EXCEPT ![v] = x]
  OBVIOUS
<1>9. Copy(h, x, role) = [val |-> h.val, count |-> counts, refs |-> h.refs, garbage |-> h.garbage,
                          lock |-> locks, stuck |-> stuck, threw |-> h.threw]
  <2>1. CASE role \in Readers
    <3>1. word = h.lock[x] + 1 /\ waits = (h.lock[x] = Written)
      BY <2>1, <1>3, <1>5
    <3>2. Copy(h, x, role) = [h EXCEPT !.count = counts, !.lock = locks, !.stuck = h.stuck \/ waits]
      BY <2>1, <3>1, <1>1, <1>8 DEF Copy
    <3> QED
      BY <3>2, <1>7 DEF Heaps
  <2>2. CASE role \in Writers
    <3>1. word = Written /\ waits = (h.lock[x] # 0) /\ role \notin Readers
      BY <2>2, <1>1, <1>3, <1>5
    <3>2. Copy(h, x, role) = [h EXCEPT !.count = counts, !.lock = locks, !.stuck = h.stuck \/ waits]
      BY <2>2, <3>1, <1>1, <1>8 DEF Copy
    <3> QED
      BY <3>2, <1>7 DEF Heaps
  <2> QED
    BY <1>1, <2>1, <2>2
<1>10. g = [val |-> vals, count |-> counts, refs |-> h.refs, garbage |-> h.garbage,
            lock |-> locks, stuck |-> stuck, threw |-> h.threw]
  BY <1>8, <1>9 DEF Put
<1>11. ~stuck
  BY <1>10
<1>12. ~h.stuck /\ ~waits
  BY <1>6, <1>11
<1>13. word \in Nat \cup {Written}
  BY <1>2, <1>3, <1>4, <1>12
<1>14. /\ counts \in [Objects -> Nat] /\ locks \in [Objects -> Nat \cup {Written}]
       /\ vals \in [Vars -> Values0]
  BY <1>2, <1>8, <1>13 DEF Values0
<1>15. g \in Heaps
  BY <1>10, <1>14 DEF Heaps
<1>16. g.val = vals /\ g.count = counts /\ g.refs = h.refs /\ g.garbage = h.garbage /\ g.lock = locks
  BY <1>10
<1> QED
  BY <1>1, <1>3, <1>4, <1>8, <1>12, <1>15, <1>16

LEMMA PinNewAgrees ==
    ASSUME NEW h, NEW e, NEW L, Agrees(h, e, L), NEW v \in Vars, Kind[v] \in Pins, h.val[v] = Null,
           NEW x \in Values0, Usable(h, L, x),
           NEW g, g = Put(Copy(h, x, Kind[v]), v, x), ~g.stuck
    PROVE  Agrees(g, e, L) /\ g.val = [h.val EXCEPT ![v] = x]
<1>0. h \in Heaps /\ h.val \in [Vars -> Values0] /\ e \in Temporaries /\ Null \notin Objects
      /\ CountsFit(h, e) /\ LocksFit(h) /\ FlagsFit(h, e, L)
  BY HandleAssumption DEF Agrees, Heaps
<1>1. CASE x = Null
  <2>1. g = Put(h, v, x)
    BY <1>1 DEF Copy
  <2>2. /\ g \in Heaps /\ g.val = [h.val EXCEPT ![v] = x] /\ g.count = h.count /\ g.refs = h.refs
        /\ g.garbage = h.garbage /\ g.lock = h.lock
    BY <1>0, <2>1, PutFields
  <2>3. [h.val EXCEPT ![v] = x] = h.val
    BY <1>0, <1>1
  <2> QED
    BY <1>0, <2>2, <2>3 DEF Agrees, CountsFit, LocksFit, FlagsFit, Refers
<1>2. CASE x \in Objects
  <2>1. PICK role \in Pins : role = Kind[v]
    OBVIOUS
  <2>2. /\ g \in Heaps /\ g.val = [h.val EXCEPT ![v] = x] /\ g.refs = h.refs
        /\ g.garbage = h.garbage /\ g.count = [h.count EXCEPT ![x] = @ + 1]
        /\ role \in Readers => h.lock[x] # Written /\ g.lock = [h.lock EXCEPT ![x] = @ + 1]
        /\ role \in Writers => h.lock[x] = 0 /\ g.lock = [h.lock EXCEPT ![x] = Written]
    BY <1>0, <1>2, <2>1, PinCopyFields
  <2>3. /\ v \in Rooted /\ (v \in ReadPins <=> role \in Readers) /\ (v \in WritePins <=> role \in Writers)
        /\ (role \in Readers <=> role \notin Writers)
    BY <2>1, Classes DEF ReadPins, WritePins, Pins, Readers, Writers
  <2>4. \A C \in SUBSET Vars : \A o \in Objects :
           /\ N(g.val, C, o) = N(h.val, C, o) + One(v \in C /\ x = o)
           /\ N(g.val, C, o) \in Nat /\ N(h.val, C, o) \in Nat
    <3>1. ASSUME NEW C \in SUBSET Vars, NEW o \in Objects
          PROVE  /\ N(g.val, C, o) = N(h.val, C, o) + One(v \in C /\ x = o)
                 /\ N(g.val, C, o) \in Nat /\ N(h.val, C, o) \in Nat
      <4>1. /\ N(g.val, C, o) + One(v \in C /\ h.val[v] = o) = N(h.val, C, o) + One(v \in C /\ x = o)
            /\ N(g.val, C, o) \in Nat /\ N(h.val, C, o) \in Nat
        <5>1. g.val = Changed(h.val, v, x)
          BY <2>2 DEF Changed
        <5>2. PICK k : k = g.val
          OBVIOUS
        <5>3. PICK f \in [Vars -> Values0] : f = h.val
          BY <1>0
        <5>4. N(k, C, o) + One(v \in C /\ f[v] = o) = N(f, C, o) + One(v \in C /\ x = o)
          BY <5>1, <5>2, <5>3, CountingPut
        <5> QED
          BY <5>2, <5>3, <5>4, CountingType
      <4>2. One(v \in C /\ h.val[v] = o) = 0
        BY <1>0 DEF One
      <4> QED
        BY <4>1, <4>2
    <3> QED
      BY <3>1
  <2>5. CountsFit(g, e)
    <3>1. ASSUME NEW o \in Objects PROVE g.count[o] = N(g.val, Rooted, o) + e[o]
      <4>1. /\ N(g.val, Rooted, o) = N(h.val, Rooted, o) + One(x = o) /\ N(h.val, Rooted, o) \in Nat
        BY <2>3, <2>4, Classes DEF One
      <4>2. h.count[o] = N(h.val, Rooted, o) + e[o] /\ e[o] \in Nat
        BY <1>0 DEF CountsFit, Temporaries
      <4>3. g.count[o] = h.count[o] + One(x = o)
        BY <1>0, <2>2 DEF Heaps, One
      <4>4. One(x = o) \in Nat
        BY DEF One
      <4> QED
        BY <4>1, <4>2, <4>3, <4>4
    <3>2. ASSUME NEW o \in Objects, NEW q \in Objects PROVE g.refs[o][q] = N(g.val, FieldsOf(q), o)
      <4>1. PICK C \in SUBSET Vars : C = FieldsOf(q)
        BY Classes
      <4>2. v \notin C
        BY <2>3, <4>1, Classes
      <4>3. N(g.val, C, o) = N(h.val, C, o)
        BY <2>4, <4>2 DEF One
      <4> QED
        BY <1>0, <2>2, <4>1, <4>3 DEF CountsFit
    <3> QED
      BY <3>1, <3>2 DEF CountsFit
  <2>6. LocksFit(g)
    <3>1. ASSUME NEW o \in Objects
          PROVE  /\ g.lock[o] = IF N(g.val, WritePins, o) > 0 THEN Written ELSE N(g.val, ReadPins, o)
                 /\ N(g.val, WritePins, o) > 0 => N(g.val, WritePins, o) = 1 /\ N(g.val, ReadPins, o) = 0
      <4>1. PICK w \in Nat, r \in Nat : w = N(h.val, WritePins, o) /\ r = N(h.val, ReadPins, o)
        BY <2>4, Classes
      <4>2. PICK w1 \in Nat, r1 \in Nat : w1 = N(g.val, WritePins, o) /\ r1 = N(g.val, ReadPins, o)
        BY <2>4, Classes
      <4>3. w1 = w + One(v \in WritePins /\ x = o) /\ r1 = r + One(v \in ReadPins /\ x = o)
        BY <2>4, <4>1, <4>2, Classes
      <4>4. h.lock[o] = (IF w > 0 THEN Written ELSE r) /\ (w > 0 => w = 1 /\ r = 0)
        BY <1>0, <4>1 DEF LocksFit
      <4>5. CASE o # x
        <5>1. w1 = w /\ r1 = r
          BY <4>3, <4>5 DEF One
        <5>2. g.lock[o] = h.lock[o]
          BY <1>0, <2>2, <2>3, <4>5, <2>1 DEF Heaps, Pins
        <5> QED
          BY <5>1, <5>2, <4>2, <4>4
      <4>6. CASE o = x /\ role \in Readers
        <5>1. w1 = w /\ r1 = r + 1
          BY <4>3, <4>6, <2>3 DEF One
        <5>2. w = 0 /\ h.lock[o] = r
          BY <4>4, <4>6, <2>2
        <5>3. g.lock[o] = r + 1
          BY <5>2, <1>0, <2>2, <4>6 DEF Heaps
        <5> QED
          BY <5>1, <5>2, <5>3, <4>2
      <4>7. CASE o = x /\ role \in Writers
        <5>1. w1 = w + 1 /\ r1 = r
          BY <4>3, <4>7, <2>3 DEF One
        <5>2. w = 0 /\ r = 0
          BY <4>4, <4>7, <2>2 DEF Written
        <5>3. g.lock[o] = Written
          BY <1>0, <2>2, <4>7 DEF Heaps
        <5> QED
          BY <5>1, <5>2, <5>3, <4>2
      <4> QED
        BY <4>5, <4>6, <4>7, <2>3
    <3> QED
      BY <3>1 DEF LocksFit
  <2>7. FlagsFit(g, e, L)
    <3>1. g.val[v] = x /\ \A u \in Vars \ {v} : g.val[u] = h.val[u]
      BY <1>0, <2>2
    <3>2. Refers(h, e, x)
      BY <1>0, <1>2 DEF Usable, FlagsFit
    <3>3. \A o \in Objects : Refers(g, e, o) <=> Refers(h, e, o)
      BY <1>0, <3>1, <3>2 DEF Refers
    <3> QED
      BY <1>0, <2>2, <3>3 DEF FlagsFit
  <2> QED
    BY <1>0, <2>2, <2>5, <2>6, <2>7 DEF Agrees
<1> QED
  BY <1>1, <1>2 DEF Values0

\* A pin is destroyed.
LEMMA PinDestroyFields ==
    ASSUME NEW h \in Heaps, NEW x \in Objects, NEW role \in Pins, NEW v \in Vars, h.count[x] > 0,
           NEW g, g = Put(Destroy(h, x, role), v, Null), ~g.stuck
    PROVE  /\ g \in Heaps /\ g.val = [h.val EXCEPT ![v] = Null] /\ g.refs = h.refs
           /\ g.count = [h.count EXCEPT ![x] = @ - 1]
           /\ g.lock = [h.lock EXCEPT ![x] = Unlocked(h.lock[x])]
           /\ g.garbage = IF h.count[x] = 1 /\ h.refs[x] = NoRefs /\ Unlocked(h.lock[x]) = 0
                          THEN h.garbage \cup {x} ELSE h.garbage
<1>1. x # Null
  BY HandleAssumption
<1>2. /\ h.lock \in [Objects -> Nat \cup {Written}] /\ h.count \in [Objects -> Nat]
      /\ h.stuck \in BOOLEAN /\ h.garbage \in SUBSET Objects /\ h.val \in [Vars -> Values0]
  BY DEF Heaps
<1>3. PICK word : word = Unlocked(h.lock[x])
  OBVIOUS
<1>4. word \in Nat
  BY <1>2, <1>3 DEF Unlocked, Written
<1>5. PICK flags : flags = IF h.count[x] = 1 /\ h.refs[x] = NoRefs /\ word = 0
                           THEN h.garbage \cup {x} ELSE h.garbage
  OBVIOUS
<1>6. PICK counts, locks, vals : /\ counts = [h.count EXCEPT ![x] = @ - 1]
                                 /\ locks = [h.lock EXCEPT ![x] = word]
                                 /\ vals = [h.val EXCEPT ![v] = Null]
  OBVIOUS
<1>7. PICK waits \in BOOLEAN : waits = (h.count[x] = 1 /\ word = Written)
  OBVIOUS
<1>8. Destroy(h, x, role) = [h EXCEPT !.count = counts, !.lock = locks, !.garbage = flags,
                                      !.stuck = h.stuck \/ waits]
  BY <1>1, <1>3, <1>5, <1>6, <1>7 DEF Destroy
<1>9. PICK stuck : stuck = (h.stuck \/ waits)
  OBVIOUS
<1>10. g = [val |-> vals, count |-> counts, refs |-> h.refs, garbage |-> flags,
            lock |-> locks, stuck |-> stuck, threw |-> h.threw]
  <2>1. Destroy(h, x, role) = [val |-> h.val, count |-> counts, refs |-> h.refs, garbage |-> flags,
                               lock |-> locks, stuck |-> stuck, threw |-> h.threw]
    BY <1>8, <1>9 DEF Heaps
  <2> QED
    BY <2>1, <1>6 DEF Put
<1>11. stuck \in BOOLEAN
  BY <1>2, <1>9
<1>12. /\ counts \in [Objects -> Nat] /\ locks \in [Objects -> Nat \cup {Written}]
       /\ vals \in [Vars -> Values0] /\ flags \in SUBSET Objects
  BY <1>2, <1>4, <1>5, <1>6 DEF Values0
<1>13. g \in Heaps
  BY <1>10, <1>11, <1>12 DEF Heaps
<1>14. g.val = vals /\ g.count = counts /\ g.refs = h.refs /\ g.garbage = flags /\ g.lock = locks
  BY <1>10
<1> QED
  BY <1>3, <1>5, <1>6, <1>13, <1>14

LEMMA PinEndAgrees ==
    ASSUME NEW h, NEW e, NEW L, Agrees(h, e, L), NEW v \in Vars, Kind[v] \in Pins,
           NEW g, g = Put(Destroy(h, h.val[v], Kind[v]), v, Null), ~g.stuck
    PROVE  Agrees(g, e, L) /\ g.val = [h.val EXCEPT ![v] = Null]
<1>0. h \in Heaps /\ h.val \in [Vars -> Values0] /\ e \in Temporaries /\ Null \notin Objects
      /\ CountsFit(h, e) /\ LocksFit(h) /\ FlagsFit(h, e, L)
  BY HandleAssumption DEF Agrees, Heaps
<1>1. PICK x \in Values0 : x = h.val[v]
  BY <1>0
<1>2. Null \in Values0
  BY DEF Values0
<1>3. CASE x = Null
  <2>1. g = Put(h, v, Null)
    BY <1>1, <1>3 DEF Destroy
  <2>2. /\ g \in Heaps /\ g.val = [h.val EXCEPT ![v] = Null] /\ g.count = h.count /\ g.refs = h.refs
        /\ g.garbage = h.garbage /\ g.lock = h.lock
    BY <1>0, <1>2, <2>1, PutFields
  <2>3. [h.val EXCEPT ![v] = Null] = h.val
    BY <1>0, <1>1, <1>3
  <2> QED
    BY <1>0, <2>2, <2>3 DEF Agrees, CountsFit, LocksFit, FlagsFit, Refers
<1>4. CASE x \in Objects
  <2>1. PICK role \in Pins : role = Kind[v]
    OBVIOUS
  <2>2. /\ v \in Rooted /\ (v \in ReadPins <=> role \in Readers) /\ (v \in WritePins <=> role \in Writers)
        /\ (role \in Readers <=> role \notin Writers)
    BY <2>1, Classes DEF ReadPins, WritePins, Pins, Readers, Writers
  <2>3. h.count[x] > 0
    <3>1. N(h.val, Rooted, x) \in Nat /\ N(h.val, Rooted, x) # 0
      <4>1. N(h.val, Rooted, x) \in Nat /\ (N(h.val, Rooted, x) = 0 <=> \A u \in Rooted : h.val[u] # x)
        BY CountingType, Classes
      <4> QED
        BY <4>1, <1>1, <2>2
    <3>2. h.count[x] = N(h.val, Rooted, x) + e[x] /\ e[x] \in Nat
      BY <1>0, <1>4 DEF CountsFit, Temporaries
    <3> QED
      BY <3>1, <3>2
  <2>4. g = Put(Destroy(h, x, role), v, Null)
    BY <1>1, <2>1
  <2>5. /\ g \in Heaps /\ g.val = [h.val EXCEPT ![v] = Null] /\ g.refs = h.refs
        /\ g.count = [h.count EXCEPT ![x] = @ - 1]
        /\ g.lock = [h.lock EXCEPT ![x] = Unlocked(h.lock[x])]
        /\ g.garbage = IF h.count[x] = 1 /\ h.refs[x] = NoRefs /\ Unlocked(h.lock[x]) = 0
                       THEN h.garbage \cup {x} ELSE h.garbage
    <3>1. PICK k : k = g
      OBVIOUS
    <3>2. ~k.stuck /\ k = Put(Destroy(h, x, role), v, Null)
      BY <2>4, <3>1
    <3>3. /\ k \in Heaps /\ k.val = [h.val EXCEPT ![v] = Null] /\ k.refs = h.refs
          /\ k.count = [h.count EXCEPT ![x] = @ - 1]
          /\ k.lock = [h.lock EXCEPT ![x] = Unlocked(h.lock[x])]
          /\ k.garbage = IF h.count[x] = 1 /\ h.refs[x] = NoRefs /\ Unlocked(h.lock[x]) = 0
                         THEN h.garbage \cup {x} ELSE h.garbage
      BY <1>0, <1>4, <2>3, <3>2, PinDestroyFields, SMTT(20)
    <3> QED
      BY <3>1, <3>3
  <2>6. \A C \in SUBSET Vars : \A o \in Objects :
           /\ N(g.val, C, o) + One(v \in C /\ x = o) = N(h.val, C, o)
           /\ N(g.val, C, o) \in Nat /\ N(h.val, C, o) \in Nat
    <3>1. ASSUME NEW C \in SUBSET Vars, NEW o \in Objects
          PROVE  /\ N(g.val, C, o) + One(v \in C /\ x = o) = N(h.val, C, o)
                 /\ N(g.val, C, o) \in Nat /\ N(h.val, C, o) \in Nat
      <4>1. g.val = Changed(h.val, v, Null)
        BY <2>5 DEF Changed
      <4>2. PICK k : k = g.val
        OBVIOUS
      <4>3. PICK f \in [Vars -> Values0] : f = h.val
        BY <1>0
      <4>4. PICK z \in Values0 : z = Null
        BY <1>2
      <4>5. N(k, C, o) + One(v \in C /\ f[v] = o) = N(f, C, o) + One(v \in C /\ z = o)
        BY <4>1, <4>2, <4>3, <4>4, CountingPut
      <4>6. One(v \in C /\ z = o) = 0 /\ One(v \in C /\ f[v] = o) = One(v \in C /\ x = o)
        BY <1>0, <1>1, <4>3, <4>4 DEF One
      <4>7. N(k, C, o) \in Nat /\ N(f, C, o) \in Nat
        BY CountingType
      <4>8. N(k, C, o) + One(v \in C /\ x = o) = N(f, C, o)
        BY <4>5, <4>6, <4>7
      <4> QED
        BY <4>2, <4>3, <4>7, <4>8
    <3> QED
      BY <3>1
  <2>7. CountsFit(g, e)
    <3>1. ASSUME NEW o \in Objects PROVE g.count[o] = N(g.val, Rooted, o) + e[o]
      <4>1. /\ N(g.val, Rooted, o) + One(x = o) = N(h.val, Rooted, o) /\ N(g.val, Rooted, o) \in Nat
        BY <2>2, <2>6, Classes DEF One
      <4>2. h.count[o] = N(h.val, Rooted, o) + e[o] /\ e[o] \in Nat
        BY <1>0 DEF CountsFit, Temporaries
      <4>3. g.count[o] = h.count[o] - One(x = o)
        BY <1>0, <2>5 DEF Heaps, One
      <4>4. One(x = o) \in Nat
        BY DEF One
      <4> QED
        BY <4>1, <4>2, <4>3, <4>4
    <3>2. ASSUME NEW o \in Objects, NEW q \in Objects PROVE g.refs[o][q] = N(g.val, FieldsOf(q), o)
      <4>1. PICK C \in SUBSET Vars : C = FieldsOf(q)
        BY Classes
      <4>2. v \notin C
        BY <2>2, <4>1, Classes
      <4>3. N(g.val, C, o) = N(h.val, C, o)
        BY <2>6, <4>2 DEF One
      <4> QED
        BY <1>0, <2>5, <4>1, <4>3 DEF CountsFit
    <3> QED
      BY <3>1, <3>2 DEF CountsFit
  <2>8. LocksFit(g)
    <3>1. ASSUME NEW o \in Objects
          PROVE  /\ g.lock[o] = IF N(g.val, WritePins, o) > 0 THEN Written ELSE N(g.val, ReadPins, o)
                 /\ N(g.val, WritePins, o) > 0 => N(g.val, WritePins, o) = 1 /\ N(g.val, ReadPins, o) = 0
      <4>1. PICK w \in Nat, r \in Nat : w = N(h.val, WritePins, o) /\ r = N(h.val, ReadPins, o)
        BY <2>6, Classes
      <4>2. PICK w1 \in Nat, r1 \in Nat : w1 = N(g.val, WritePins, o) /\ r1 = N(g.val, ReadPins, o)
        BY <2>6, Classes
      <4>3. w1 + One(v \in WritePins /\ x = o) = w /\ r1 + One(v \in ReadPins /\ x = o) = r
        BY <2>6, <4>1, <4>2, Classes
      <4>4. h.lock[o] = (IF w > 0 THEN Written ELSE r) /\ (w > 0 => w = 1 /\ r = 0)
        BY <1>0, <4>1 DEF LocksFit
      <4>5. CASE o # x
        <5>1. w1 = w /\ r1 = r
          BY <4>3, <4>5 DEF One
        <5>2. g.lock[o] = h.lock[o]
          BY <1>0, <2>5, <4>5 DEF Heaps
        <5> QED
          BY <5>1, <5>2, <4>2, <4>4
      <4>6. CASE o = x /\ role \in Readers
        <5>1. w1 = w /\ r1 + 1 = r
          BY <4>3, <4>6, <2>2 DEF One
        <5>2. w = 0 /\ h.lock[o] = r /\ r > 0
          BY <4>4, <5>1
        <5>3. g.lock[o] = r - 1
          BY <5>2, <1>0, <2>5, <4>6 DEF Heaps, Unlocked
        <5> QED
          BY <5>1, <5>2, <5>3, <4>2
      <4>7. CASE o = x /\ role \in Writers
        <5>1. w1 + 1 = w /\ r1 = r
          BY <4>3, <4>7, <2>2 DEF One
        <5>2. w1 = 0 /\ r1 = 0 /\ h.lock[o] = Written
          BY <4>4, <5>1
        <5>3. g.lock[o] = 0
          BY <5>2, <1>0, <2>5, <4>7 DEF Heaps, Unlocked, Written
        <5> QED
          BY <5>2, <5>3, <4>2
      <4> QED
        BY <4>5, <4>6, <4>7, <2>2
    <3> QED
      BY <3>1 DEF LocksFit
  <2>9. g.val[v] = Null /\ \A u \in Vars \ {v} : g.val[u] = h.val[u]
    BY <1>0, <2>5
  <2>10. x \in L \ h.garbage
    BY <1>0, <1>1, <1>4 DEF FlagsFit, Refers
  <2>11. Refers(g, e, x) <=> ~(h.count[x] = 1 /\ h.refs[x] = NoRefs /\ Unlocked(h.lock[x]) = 0)
    <3>1. g.count[x] = 0 /\ g.refs[x] = NoRefs <=> ~Refers(g, e, x)
      <4>1. g \in Heaps /\ e \in Temporaries /\ CountsFit(g, e) /\ x \in Objects
        BY <1>0, <1>4, <2>5, <2>7
      <4> QED
        BY <4>1, Uncounted, Zenon
    <3>2. g.count[x] = h.count[x] - 1 /\ h.count[x] \in Nat /\ g.refs[x] = h.refs[x]
          /\ g.lock[x] = Unlocked(h.lock[x])
      BY <1>0, <1>4, <2>5 DEF Heaps
    <3>3. ASSUME g.count[x] = 0 PROVE g.lock[x] = 0
      <4>1. N(g.val, Rooted, x) = 0
        <5>1. g.count[x] = N(g.val, Rooted, x) + e[x] /\ N(g.val, Rooted, x) \in Nat /\ e[x] \in Nat
          BY <1>0, <1>4, <2>6, <2>7, Classes DEF CountsFit, Temporaries
        <5> QED
          BY <3>3, <5>1
      <4>2. \A u \in Rooted : g.val[u] # x
        BY <4>1, CountingType, Classes
      <4>3. N(g.val, WritePins, x) = 0 /\ N(g.val, ReadPins, x) = 0
        BY <4>2, CountingType, Classes
      <4> QED
        BY <1>4, <2>8, <4>3 DEF LocksFit
    <3>4. g.count[x] = 0 <=> h.count[x] = 1
      BY <3>2
    <3> QED
      BY <3>1, <3>2, <3>3, <3>4
  <2>12. FlagsFit(g, e, L)
    <3>1. ASSUME NEW o \in Objects, o # x PROVE (o \in L \ g.garbage) <=> Refers(g, e, o)
      <4>1. Refers(g, e, o) <=> Refers(h, e, o)
        BY <1>0, <1>1, <2>9, <3>1 DEF Refers
      <4> QED
        BY <1>0, <2>5, <3>1, <4>1 DEF FlagsFit
    <3>2. (x \in L \ g.garbage) <=> Refers(g, e, x)
      BY <2>5, <2>10, <2>11
    <3>3. g.garbage \subseteq L
      BY <1>0, <2>5, <2>10 DEF FlagsFit
    <3> QED
      BY <3>1, <3>2, <3>3 DEF FlagsFit
  <2> QED
    BY <1>0, <2>5, <2>7, <2>8, <2>12 DEF Agrees
<1> QED
  BY <1>3, <1>4 DEF Values0

-------------------------------------------------------------------------------
(* Objects come and go *)

Grown(h, v, o) == [Put(h, v, o) EXCEPT !.count[o] = 1, !.refs[o] = NoRefs, !.lock[o] = 0]

LEMMA NewAgrees ==
    ASSUME NEW h, NEW e, NEW L, Agrees(h, e, L), NEW v \in Vars, PlainRoot(v), h.val[v] = Null,
           NEW o \in Objects, o \notin L, NEW g, g = Grown(h, v, o)
    PROVE  Agrees(g, e, L \cup {o}) /\ g.val = [h.val EXCEPT ![v] = o]
<1>0. h \in Heaps /\ h.val \in [Vars -> Values0] /\ e \in Temporaries /\ Null \notin Objects
      /\ CountsFit(h, e) /\ LocksFit(h) /\ FlagsFit(h, e, L)
      /\ h.count \in [Objects -> Nat] /\ h.refs \in [Objects -> [Objects -> Nat]]
      /\ h.lock \in [Objects -> Nat \cup {Written}]
  BY HandleAssumption DEF Agrees, Heaps
<1>1. ~Refers(h, e, o) /\ o \notin h.garbage
  BY <1>0 DEF FlagsFit
<1>2. h.count[o] = 0 /\ h.refs[o] = NoRefs /\ h.lock[o] = 0
  <2>1. h.count[o] = 0 /\ h.refs[o] = NoRefs
    BY <1>0, <1>1, Uncounted
  <2>2. \A u \in Rooted : h.val[u] # o
    BY <1>1, Classes DEF Refers
  <2> QED
    BY <2>1, <2>2, UnpinnedIsFree
<1>3. PICK k : k = Put(h, v, o)
  OBVIOUS
<1>4. o \in Values0
  BY DEF Values0
<1>5. k \in Heaps /\ k.val = [h.val EXCEPT ![v] = o] /\ k.count = h.count /\ k.refs = h.refs
      /\ k.garbage = h.garbage /\ k.lock = h.lock
  BY <1>0, <1>3, <1>4, PutFields
<1>6. PICK counts : counts = [h.count EXCEPT ![o] = 1]
  OBVIOUS
<1>7. g = [val |-> k.val, count |-> counts, refs |-> h.refs, garbage |-> h.garbage, lock |-> h.lock,
           stuck |-> k.stuck, threw |-> k.threw]
  <2>1. [h.refs EXCEPT ![o] = NoRefs] = h.refs /\ [h.lock EXCEPT ![o] = 0] = h.lock
    BY <1>0, <1>2
  <2>2. g = [k EXCEPT !.count[o] = 1, !.refs[o] = NoRefs, !.lock[o] = 0]
    BY <1>3 DEF Grown
  <2>3. g = [k EXCEPT !.count = counts, !.refs = h.refs, !.lock = h.lock]
    <3>1. g = [k EXCEPT !.count = [k.count EXCEPT ![o] = 1], !.refs = [k.refs EXCEPT ![o] = NoRefs],
                        !.lock = [k.lock EXCEPT ![o] = 0]]
      BY <1>5, <2>2 DEF Heaps
    <3> QED
      BY <1>5, <1>6, <2>1, <3>1
  <2> QED
    BY <1>5, <2>3 DEF Heaps
<1>8. g.val = [h.val EXCEPT ![v] = o] /\ g.count = counts /\ g.refs = h.refs /\ g.garbage = h.garbage
      /\ g.lock = h.lock
  BY <1>5, <1>7
<1>9. g \in Heaps
  <2>1. counts \in [Objects -> Nat]
    BY <1>0, <1>6
  <2> QED
    BY <1>0, <1>5, <1>7, <2>1 DEF Heaps
<1>10. \A C \in SUBSET Vars : \A x \in Objects :
          /\ N(g.val, C, x) = N(h.val, C, x) + One(v \in C /\ o = x)
          /\ N(g.val, C, x) \in Nat /\ N(h.val, C, x) \in Nat
  <2>1. ASSUME NEW C \in SUBSET Vars, NEW x \in Objects
        PROVE  /\ N(g.val, C, x) = N(h.val, C, x) + One(v \in C /\ o = x)
               /\ N(g.val, C, x) \in Nat /\ N(h.val, C, x) \in Nat
    <3>1. g.val = Changed(h.val, v, o)
      BY <1>8 DEF Changed
    <3>2. PICK c : c = g.val
      OBVIOUS
    <3>3. PICK f \in [Vars -> Values0] : f = h.val
      BY <1>0
    <3>4. N(c, C, x) + One(v \in C /\ f[v] = x) = N(f, C, x) + One(v \in C /\ o = x)
      BY <1>4, <3>1, <3>2, <3>3, CountingPut
    <3>5. One(v \in C /\ f[v] = x) = 0
      BY <1>0, <3>3 DEF One
    <3>6. N(c, C, x) \in Nat /\ N(f, C, x) \in Nat
      BY CountingType
    <3>7. N(c, C, x) = N(f, C, x) + One(v \in C /\ o = x)
      BY <3>4, <3>5, <3>6
    <3> QED
      BY <3>2, <3>3, <3>6, <3>7
  <2> QED
    BY <2>1
<1>11. v \in Rooted /\ v \notin WritePins /\ v \notin ReadPins
  BY DEF PlainRoot, WritePins, ReadPins, Pins
<1>12. CountsFit(g, e)
  <2>1. ASSUME NEW x \in Objects PROVE g.count[x] = N(g.val, Rooted, x) + e[x]
    <3>1. N(g.val, Rooted, x) = N(h.val, Rooted, x) + One(o = x) /\ N(h.val, Rooted, x) \in Nat
      BY <1>10, <1>11, Classes DEF One
    <3>2. h.count[x] = N(h.val, Rooted, x) + e[x] /\ e[x] \in Nat
      BY <1>0 DEF CountsFit, Temporaries
    <3>3. g.count[x] = h.count[x] + One(o = x)
      BY <1>0, <1>2, <1>6, <1>8 DEF One
    <3>4. One(o = x) \in Nat
      BY DEF One
    <3> QED
      BY <3>1, <3>2, <3>3, <3>4
  <2>2. ASSUME NEW x \in Objects, NEW q \in Objects PROVE g.refs[x][q] = N(g.val, FieldsOf(q), x)
    <3>1. PICK C \in SUBSET Vars : C = FieldsOf(q)
      BY Classes
    <3>2. v \notin C
      BY <1>11, <3>1, Classes
    <3>3. N(g.val, C, x) = N(h.val, C, x)
      BY <1>10, <3>2 DEF One
    <3> QED
      BY <1>0, <1>8, <3>1, <3>3 DEF CountsFit
  <2> QED
    BY <2>1, <2>2 DEF CountsFit
<1>13. LocksFit(g)
  <2>1. \A x \in Objects : N(g.val, WritePins, x) = N(h.val, WritePins, x)
                           /\ N(g.val, ReadPins, x) = N(h.val, ReadPins, x)
    BY <1>10, <1>11, Classes DEF One
  <2> QED
    BY <1>0, <1>8, <2>1 DEF LocksFit
<1>14. FlagsFit(g, e, L \cup {o})
  <2>1. g.val[v] = o /\ \A u \in Vars \ {v} : g.val[u] = h.val[u]
    BY <1>0, <1>8
  <2>2. ASSUME NEW x \in Objects, x # o PROVE Refers(g, e, x) <=> Refers(h, e, x)
    BY <1>0, <2>1, <2>2 DEF Refers
  <2>3. Refers(g, e, o)
    BY <2>1 DEF Refers
  <2> QED
    BY <1>0, <1>1, <1>8, <2>2, <2>3 DEF FlagsFit
<1> QED
  BY <1>0, <1>8, <1>9, <1>12, <1>13, <1>14 DEF Agrees

Shrunken(h, o) == [Emptied(h, o) EXCEPT !.garbage = @ \ {o}]
Cleared(f, o)  == [v \in Vars |-> IF Owner[v] = o THEN Null ELSE f[v]]

LEMMA CollectAgrees ==
    ASSUME NEW h, NEW e, NEW L, Agrees(h, e, L), NEW o \in Objects, o \in h.garbage,
           NEW g, g = Shrunken(h, o)
    PROVE  Agrees(g, e, L \ {o}) /\ g.val = Cleared(h.val, o)
<1>0. h \in Heaps /\ h.val \in [Vars -> Values0] /\ e \in Temporaries /\ Null \notin Objects
      /\ CountsFit(h, e) /\ LocksFit(h) /\ FlagsFit(h, e, L)
      /\ h.count \in [Objects -> Nat] /\ h.refs \in [Objects -> [Objects -> Nat]]
      /\ h.lock \in [Objects -> Nat \cup {Written}] /\ h.garbage \in SUBSET Objects
  BY HandleAssumption DEF Agrees, Heaps
<1>1. PICK held : held = [x \in Objects |-> {v \in FieldsOf(o) : h.val[v] = x}]
  OBVIOUS
<1>2. PICK rest : rest = [x \in Objects |-> [h.refs[x] EXCEPT ![o] = @ - Cardinality(held[x])]]
  OBVIOUS
<1>3. PICK flags : flags = h.garbage \cup {x \in Objects : held[x] # {} /\ rest[x] = NoRefs /\ h.count[x] = 0}
  OBVIOUS
<1>4. PICK f : f = Cleared(h.val, o)
  OBVIOUS
<1>5. /\ f \in [Vars -> Values0]
      /\ \A v \in Vars : f[v] = IF Owner[v] = o THEN Null ELSE h.val[v]
  BY <1>0, <1>4 DEF Cleared, Values0
<1>6. \A x \in Objects : Cardinality(held[x]) = N(h.val, FieldsOf(o), x)
  BY <1>1 DEF N
<1>7. \A x, q \in Objects : rest[x][q] = IF q = o THEN 0 ELSE h.refs[x][q]
  <2>1. ASSUME NEW x \in Objects PROVE rest[x] = [h.refs[x] EXCEPT ![o] = 0]
    <3>1. h.refs[x][o] = N(h.val, FieldsOf(o), x) /\ h.refs[x][o] \in Nat
      BY <1>0 DEF CountsFit
    <3>2. h.refs[x][o] - Cardinality(held[x]) = 0
      BY <3>1, <1>6
    <3> QED
      BY <1>2, <3>2
  <2>2. ASSUME NEW x \in Objects, NEW q \in Objects PROVE rest[x][q] = IF q = o THEN 0 ELSE h.refs[x][q]
    <3>1. PICK a \in [Objects -> Nat] : a = h.refs[x]
      BY <1>0
    <3>2. rest[x] = [a EXCEPT ![o] = 0]
      BY <2>1, <3>1
    <3> QED
      BY <3>1, <3>2
  <2> QED
    BY <2>2
<1>8. rest \in [Objects -> [Objects -> Nat]]
  <2>1. \A x \in Objects : rest[x] \in [Objects -> Nat]
    BY <1>0, <1>2, <1>7
  <2> QED
    BY <2>1, <1>2
<1>9. g = [val |-> f, count |-> h.count, refs |-> rest, garbage |-> flags \ {o}, lock |-> h.lock,
           stuck |-> h.stuck, threw |-> h.threw]
  <2>1. f = [v \in Vars |-> IF Owner[v] = o THEN Null ELSE h.val[v]]
    BY <1>4 DEF Cleared
  <2>2. rest = [x \in Objects |-> [h.refs[x] EXCEPT ![o] = @ - Cardinality({v \in FieldsOf(o) : h.val[v] = x})]]
    BY <1>1, <1>2
  <2>3. flags = h.garbage \cup {x \in Objects : /\ {v \in FieldsOf(o) : h.val[v] = x} # {}
                                               /\ rest[x] = NoRefs /\ h.count[x] = 0}
    BY <1>1, <1>3
  <2>4. Emptied(h, o) = [h EXCEPT !.val = f, !.refs = rest, !.garbage = flags]
    BY <2>1, <2>2, <2>3 DEF Emptied
  <2>5. Emptied(h, o) = [val |-> f, count |-> h.count, refs |-> rest, garbage |-> flags, lock |-> h.lock,
                         stuck |-> h.stuck, threw |-> h.threw]
    BY <1>0, <2>4 DEF Heaps
  <2> QED
    BY <2>5 DEF Shrunken
<1>10. g.val = f /\ g.count = h.count /\ g.refs = rest /\ g.garbage = flags \ {o} /\ g.lock = h.lock
  BY <1>9
<1>11. g \in Heaps
  BY <1>0, <1>3, <1>5, <1>8, <1>9 DEF Heaps
<1>12. ASSUME NEW C \in SUBSET Vars, NEW x \in Objects, \A v \in C : Owner[v] # o
       PROVE  N(g.val, C, x) = N(h.val, C, x)
  <2>1. {v \in C : g.val[v] = x} = {v \in C : h.val[v] = x}
    BY <1>5, <1>10, <1>12
  <2> QED
    BY <2>1 DEF N
<1>13. CountsFit(g, e)
  <2>1. ASSUME NEW x \in Objects PROVE g.count[x] = N(g.val, Rooted, x) + e[x]
    <3>1. N(g.val, Rooted, x) = N(h.val, Rooted, x)
      BY <1>0, <1>12 DEF Rooted
    <3> QED
      BY <1>0, <1>10, <3>1 DEF CountsFit
  <2>2. ASSUME NEW x \in Objects, NEW q \in Objects PROVE g.refs[x][q] = N(g.val, FieldsOf(q), x)
    <3>1. CASE q = o
      <4>1. \A v \in FieldsOf(q) : g.val[v] # x
        BY <1>0, <1>5, <1>10, <3>1 DEF FieldsOf
      <4>2. N(g.val, FieldsOf(q), x) = 0
        BY <4>1, CountingType, Classes
      <4> QED
        BY <1>7, <1>10, <3>1, <4>2
    <3>2. CASE q # o
      <4>1. N(g.val, FieldsOf(q), x) = N(h.val, FieldsOf(q), x)
        BY <3>2, <1>12 DEF FieldsOf
      <4> QED
        BY <1>0, <1>7, <1>10, <3>2, <4>1 DEF CountsFit
    <3> QED
      BY <3>1, <3>2
  <2> QED
    BY <2>1, <2>2 DEF CountsFit
<1>14. LocksFit(g)
  <2>1. ASSUME NEW x \in Objects
        PROVE  N(g.val, WritePins, x) = N(h.val, WritePins, x) /\ N(g.val, ReadPins, x) = N(h.val, ReadPins, x)
    <3>1. \A v \in WritePins \cup ReadPins : Owner[v] # o
      BY <1>0, Classes DEF Rooted
    <3> QED
      BY <3>1, <1>12, Classes
  <2> QED
    BY <1>0, <1>10, <2>1 DEF LocksFit
<1>15. ASSUME NEW x \in Objects, Refers(g, e, x) PROVE Refers(h, e, x)
  BY <1>0, <1>5, <1>10, <1>15 DEF Refers
<1>16. ASSUME NEW x \in Objects
       PROVE  held[x] # {} => Refers(h, e, x)
  BY <1>1, Classes DEF Refers
<1>17. FlagsFit(g, e, L \ {o})
  <2>1. ~Refers(h, e, o) /\ ~Refers(g, e, o)
    BY <1>0, <1>15 DEF FlagsFit
  <2>2. ASSUME NEW x \in Objects, x # o, ~Refers(h, e, x)
        PROVE  x \notin L \ g.garbage /\ ~Refers(g, e, x)
    BY <1>0, <1>3, <1>10, <1>15, <2>2 DEF FlagsFit
  <2>3. ASSUME NEW x \in Objects, x # o, Refers(h, e, x), held[x] = {}
        PROVE  x \in L \ g.garbage /\ Refers(g, e, x)
    <3>1. \A v \in FieldsOf(o) : h.val[v] # x
      BY <1>1, <2>3
    <3>2. Refers(g, e, x)
      BY <1>5, <1>10, <2>3, <3>1 DEF Refers, FieldsOf
    <3> QED
      BY <1>0, <1>3, <1>10, <2>3, <3>2 DEF FlagsFit
  <2>4. ASSUME NEW x \in Objects, x # o, Refers(h, e, x), held[x] # {}
        PROVE  x \in L \ g.garbage <=> Refers(g, e, x)
    <3>1. g.count[x] = 0 /\ g.refs[x] = NoRefs <=> ~Refers(g, e, x)
      BY <1>0, <1>11, <1>13, Uncounted
    <3>2. x \in L \ h.garbage
      BY <1>0, <2>4 DEF FlagsFit
    <3> QED
      BY <1>3, <1>10, <2>4, <3>1, <3>2
  <2>5. g.garbage \subseteq L \ {o}
    BY <1>0, <1>3, <1>10, <1>16 DEF FlagsFit
  <2> QED
    BY <2>1, <2>2, <2>3, <2>4, <2>5 DEF FlagsFit
<1> QED
  BY <1>0, <1>4, <1>10, <1>11, <1>13, <1>14, <1>17 DEF Agrees

-------------------------------------------------------------------------------
(* The invariant and the statements *)

HandleInv == live \subseteq Objects /\ Agrees(Heap, NoTemporary, live)

\* What a programmer can do without getting counts and locks wrong: the casts that
\* fail only lose a reference.
Careful == {"castMove", "castField"}

LEMMA HeapFields ==
    /\ Heap.val = val /\ Heap.count = count /\ Heap.refs = refs /\ Heap.garbage = garbage
    /\ Heap.lock = lock /\ Heap.stuck = FALSE /\ Heap.threw = FALSE
BY DEF Heap

\* A statement that ends in a heap which agrees with the variables.
LEMMA Executed ==
    ASSUME NEW op, NEW v, NEW w, NEW g, Execute(op, v, w, g),
           live' \subseteq Objects, Agrees(g, NoTemporary, live')
    PROVE  HandleInv' /\ val' = g.val
<1>1. /\ val' = g.val /\ count' = g.count /\ refs' = g.refs /\ garbage' = g.garbage /\ lock' = g.lock
  BY DEF Execute
<1>2. PICK k : k = [val |-> g.val, count |-> g.count, refs |-> g.refs, garbage |-> g.garbage,
                    lock |-> g.lock, stuck |-> FALSE, threw |-> FALSE]
  OBVIOUS
<1>3. Heap' = k
  BY <1>1, <1>2 DEF Heap
<1>4. /\ k.val = g.val /\ k.count = g.count /\ k.refs = g.refs /\ k.garbage = g.garbage
      /\ k.lock = g.lock
  BY <1>2
<1>5. k \in Heaps
  BY <1>2 DEF Agrees, Heaps
<1>6. Agrees(k, NoTemporary, live')
  BY <1>4, <1>5 DEF Agrees, CountsFit, LocksFit, FlagsFit, Refers
<1> QED
  BY <1>1, <1>3, <1>6 DEF HandleInv

\* What a variable refers to is in use.
LEMMA Referenced ==
    ASSUME NEW h, NEW e, NEW L, Agrees(h, e, L), NEW w \in Vars
    PROVE  h.val[w] \in Values0 /\ Usable(h, L, h.val[w])
<1>1. h.val[w] \in Values0
  BY DEF Agrees, Heaps
<1> QED
  BY <1>1 DEF Agrees, FlagsFit, Refers, Usable, Values0

LEMMA NullIsUsable == Null \in Values0 /\ \A h, L : Usable(h, L, Null)
<1>1. Null \in Values0
  BY DEF Values0
<1>2. \A h, L : Usable(h, L, Null)
  BY DEF Usable
<1> QED
  BY <1>1, <1>2

LEMMA RootKinds ==
    ASSUME NEW v \in Vars, Kind[v] \in {"root", "dynRoot"} \/ (IsField(v) /\ Owner[v] = Null)
    PROVE  PlainRoot(v)
BY HandleAssumption DEF PlainRoot, Rooted, Pins, Readers, Writers, IsField

LEMMA WritableIsReady ==
    ASSUME NEW v, Writable(v), "overPinned" \notin Program
    PROVE  Ready(Heap, v)
BY HeapFields DEF Writable, Ready, Pins

\* Writing another variable leaves v as ready as it was.
LEMMA StillReady ==
    ASSUME NEW h, NEW v \in Vars, Ready(h, v), NEW u \in Vars, Kind[u] \notin Pins, NEW x,
           h.val \in [Vars -> Values0], u # v \/ x = h.val[v],
           NEW g, g.val = Changed(h.val, u, x), g.lock = h.lock
    PROVE  Ready(g, v)
<1>1. \A w \in Vars \ {u} : g.val[w] = h.val[w]
  BY DEF Changed
<1>2. g.val[v] = h.val[v]
  BY DEF Changed
<1> QED
  BY <1>1, <1>2 DEF Ready

\* root_handle: copies and conversions.
LEMMA RootNewStep ==
    ASSUME HandleInv, live' = live, NEW v \in Vars, NEW w \in Vars, RootNew(v, w)
    PROVE  HandleInv' /\ val' = [val EXCEPT ![v] = val[w]]
<1>1. PICK h : h = Heap
  OBVIOUS
<1>2. Agrees(h, NoTemporary, live) /\ h.val = val /\ ~h.threw /\ live \subseteq Objects
  BY <1>1, HeapFields DEF HandleInv
<1>3. PICK x \in Values0 : x = val[w] /\ Usable(h, live, x)
  BY <1>2, Referenced
<1>4. PICK g : g = Put(Copy(h, x, "root"), v, x)
  OBVIOUS
<1>5. Execute("copy", v, w, g)
  BY <1>1, <1>2, <1>3, <1>4 DEF RootNew
<1>6. ~g.stuck
  BY <1>5 DEF Execute
<1>7. PlainRoot(v)
  BY RootKinds DEF RootNew, Is
<1>8. Agrees(g, NoTemporary, live) /\ g.val = [val EXCEPT ![v] = x]
  <2>1. h.val[v] = Null
    BY <1>2 DEF RootNew
  <2> QED
    BY <1>2, <1>3, <1>4, <1>6, <1>7, <2>1, RootFill
<1> QED
  BY <1>2, <1>3, <1>5, <1>8, Executed

LEMMA RootConvertStep ==
    ASSUME HandleInv, live' = live, NEW v \in Vars, NEW w \in Vars, RootConvert(v, w)
    PROVE  HandleInv' /\ val' = [val EXCEPT ![v] = val[w]]
<1>1. PICK h : h = Heap
  OBVIOUS
<1>2. Agrees(h, NoTemporary, live) /\ h.val = val /\ ~h.threw /\ live \subseteq Objects
  BY <1>1, HeapFields DEF HandleInv
<1>3. PICK x \in Values0 : x = val[w] /\ Usable(h, live, x)
  BY <1>2, Referenced
<1>4. PICK g : g = Destroy(Put(Copy(h, x, "root"), v, x), h.val[v], "root")
  OBVIOUS
<1>5. Execute("copy", v, w, g)
  BY <1>1, <1>2, <1>3, <1>4 DEF RootConvert
<1>6. ~g.stuck
  BY <1>5 DEF Execute
<1>7. PlainRoot(v)
  BY RootKinds DEF RootConvert, Is
<1>8. Agrees(g, NoTemporary, live) /\ g.val = [val EXCEPT ![v] = x]
  BY <1>2, <1>3, <1>4, <1>6, <1>7, RootSet
<1> QED
  BY <1>2, <1>3, <1>5, <1>8, Executed

LEMMA RootResetStep ==
    ASSUME HandleInv, live' = live, NEW v \in Vars, RootReset(v)
    PROVE  HandleInv' /\ val' = [val EXCEPT ![v] = Null]
<1>1. PICK h : h = Heap
  OBVIOUS
<1>2. Agrees(h, NoTemporary, live) /\ h.val = val /\ ~h.threw /\ live \subseteq Objects
  BY <1>1, HeapFields DEF HandleInv
<1>3. Null \in Values0 /\ Usable(h, live, Null)
  BY NullIsUsable
<1>4. PICK g : g = Put(Destroy(h, h.val[v], "root"), v, Null)
  OBVIOUS
<1>5. Execute("reset", v, Null, g)
  BY <1>1, <1>2, <1>3, <1>4 DEF RootReset
<1>6. ~g.stuck
  BY <1>5 DEF Execute
<1>7. PlainRoot(v)
  BY RootKinds DEF RootReset, Is
<1>8. Agrees(g, NoTemporary, live) /\ g.val = [val EXCEPT ![v] = Null]
  BY <1>2, <1>4, <1>6, <1>7, RootClear
<1> QED
  BY <1>2, <1>3, <1>5, <1>8, Executed

LEMMA DynFieldEndStep ==
    ASSUME HandleInv, live' = live, NEW v \in Vars, DynFieldEnd(v)
    PROVE  HandleInv' /\ val' = [val EXCEPT ![v] = Null]
<1>1. PICK h : h = Heap
  OBVIOUS
<1>2. Agrees(h, NoTemporary, live) /\ h.val = val /\ ~h.threw /\ live \subseteq Objects
  BY <1>1, HeapFields DEF HandleInv
<1>3. Null \in Values0 /\ Usable(h, live, Null)
  BY NullIsUsable
<1>4. PICK g : g = Put(Destroy(h, h.val[v], "root"), v, Null)
  OBVIOUS
<1>5. Execute("reset", v, Null, g)
  BY <1>1, <1>2, <1>3, <1>4 DEF DynFieldEnd
<1>6. ~g.stuck
  BY <1>5 DEF Execute
<1>7. PlainRoot(v)
  BY RootKinds DEF DynFieldEnd, Is, IsField
<1>8. Agrees(g, NoTemporary, live) /\ g.val = [val EXCEPT ![v] = Null]
  BY <1>2, <1>4, <1>6, <1>7, RootClear
<1> QED
  BY <1>2, <1>3, <1>5, <1>8, Executed

LEMMA RootMoveStep ==
    ASSUME HandleInv, live' = live, NEW v \in Vars, NEW w \in Vars, RootMove(v, w)
    PROVE  HandleInv' /\ val' = [[val EXCEPT ![v] = val[w]] EXCEPT ![w] = val[v]]
<1>1. PICK h : h = Heap
  OBVIOUS
<1>2. Agrees(h, NoTemporary, live) /\ h.val = val /\ ~h.threw /\ live \subseteq Objects
  BY <1>1, HeapFields DEF HandleInv
<1>3. Null \in Values0 /\ Usable(h, live, Null)
  BY NullIsUsable
<1>4. PICK g : g = Put(Put(h, v, h.val[w]), w, h.val[v])
  OBVIOUS
<1>5. Execute("move", v, w, g)
  BY <1>1, <1>2, <1>3, <1>4 DEF RootMove
<1>6. ~g.stuck
  BY <1>5 DEF Execute
<1>7. PlainRoot(v) /\ PlainRoot(w) /\ v # w
  BY RootKinds DEF RootMove, Is
<1>8. Agrees(g, NoTemporary, live) /\ g.val = [[val EXCEPT ![v] = val[w]] EXCEPT ![w] = val[v]]
  BY <1>2, <1>4, <1>7, SwapAgrees
<1> QED
  BY <1>2, <1>3, <1>5, <1>8, Executed

\* Pins.
LEMMA PinNewStep ==
    ASSUME HandleInv, live' = live, NEW v \in Vars, NEW w \in Vars, PinNew(v, w)
    PROVE  HandleInv' /\ val' = [val EXCEPT ![v] = val[w]]
<1>1. PICK h : h = Heap
  OBVIOUS
<1>2. Agrees(h, NoTemporary, live) /\ h.val = val /\ ~h.threw /\ live \subseteq Objects
  BY <1>1, HeapFields DEF HandleInv
<1>3. PICK x \in Values0 : x = val[w] /\ Usable(h, live, x)
  BY <1>2, Referenced
<1>4. PICK g : g = Put(Copy(h, x, Kind[v]), v, x)
  OBVIOUS
<1>5. Execute("copy", v, w, g)
  BY <1>1, <1>2, <1>3, <1>4 DEF PinNew
<1>6. ~g.stuck
  BY <1>5 DEF Execute
<1>7. Kind[v] \in Pins /\ h.val[v] = Null
  BY <1>2 DEF PinNew, Is, Pins, Readers, Writers
<1>8. Agrees(g, NoTemporary, live) /\ g.val = [val EXCEPT ![v] = x]
  BY <1>2, <1>3, <1>4, <1>6, <1>7, PinNewAgrees
<1> QED
  BY <1>2, <1>3, <1>5, <1>8, Executed

LEMMA DynPinNewStep ==
    ASSUME HandleInv, live' = live, NEW v \in Vars, NEW w \in Vars, DynPinNew(v, w)
    PROVE  HandleInv' /\ val' = [val EXCEPT ![v] = Cast(v, val[w])]
<1>1. PICK h : h = Heap
  OBVIOUS
<1>2. Agrees(h, NoTemporary, live) /\ h.val = val /\ ~h.threw /\ live \subseteq Objects
  BY <1>1, HeapFields DEF HandleInv
<1>3. PICK x \in Values0 : x = Cast(v, val[w]) /\ Usable(h, live, x)
  BY <1>2, Referenced, NullIsUsable DEF Cast
<1>4. PICK g : g = Put(Copy(h, x, Kind[v]), v, x)
  OBVIOUS
<1>5. Execute("copy", v, w, g)
  BY <1>1, <1>2, <1>3, <1>4 DEF DynPinNew
<1>6. ~g.stuck
  BY <1>5 DEF Execute
<1>7. Kind[v] \in Pins /\ h.val[v] = Null
  BY <1>2 DEF DynPinNew, Is, Pins, Readers, Writers
<1>8. Agrees(g, NoTemporary, live) /\ g.val = [val EXCEPT ![v] = x]
  BY <1>2, <1>3, <1>4, <1>6, <1>7, PinNewAgrees
<1> QED
  BY <1>2, <1>3, <1>5, <1>8, Executed

LEMMA PinEndStep ==
    ASSUME HandleInv, live' = live, NEW v \in Vars, PinEnd(v)
    PROVE  HandleInv' /\ val' = [val EXCEPT ![v] = Null]
<1>1. PICK h : h = Heap
  OBVIOUS
<1>2. Agrees(h, NoTemporary, live) /\ h.val = val /\ ~h.threw /\ live \subseteq Objects
  BY <1>1, HeapFields DEF HandleInv
<1>3. Null \in Values0 /\ Usable(h, live, Null)
  BY NullIsUsable
<1>4. PICK g : g = Put(Destroy(h, h.val[v], Kind[v]), v, Null)
  OBVIOUS
<1>5. Execute("reset", v, Null, g)
  BY <1>1, <1>2, <1>3, <1>4 DEF PinEnd
<1>6. ~g.stuck
  BY <1>5 DEF Execute
<1>7. Kind[v] \in Pins
  BY DEF PinEnd, Is
<1>8. Agrees(g, NoTemporary, live) /\ g.val = [val EXCEPT ![v] = Null]
  BY <1>2, <1>4, <1>6, <1>7, PinEndAgrees
<1> QED
  BY <1>2, <1>3, <1>5, <1>8, Executed

\* field: one call of Set each.
LEMMA FieldAssignStep ==
    ASSUME HandleInv, live' = live, "overPinned" \notin Program, NEW v \in Vars, NEW w \in Vars, FieldAssign(v, w)
    PROVE  HandleInv' /\ val' = [val EXCEPT ![v] = val[w]]
<1>1. PICK h : h = Heap
  OBVIOUS
<1>2. Agrees(h, NoTemporary, live) /\ h.val = val /\ ~h.threw /\ live \subseteq Objects
  BY <1>1, HeapFields DEF HandleInv
<1>3. PICK x \in Values0 : x = val[w] /\ Usable(h, live, x)
  BY <1>2, Referenced
<1>4. PICK g : g = Set(h, v, x, Kind[w])
  OBVIOUS
<1>5. Execute("copy", v, w, g)
  BY <1>1, <1>2, <1>3, <1>4 DEF FieldAssign
<1>6. ~g.stuck
  BY <1>5 DEF Execute
<1>7. IsField(v) /\ Ready(h, v)
  BY <1>1, WritableIsReady DEF FieldAssign, Is, IsField
<1>8. Agrees(g, NoTemporary, live) /\ g.val = [val EXCEPT ![v] = x]
  BY <1>2, <1>3, <1>4, <1>6, <1>7, SetAgrees
<1> QED
  BY <1>2, <1>3, <1>5, <1>8, Executed

LEMMA FieldCopyStep ==
    ASSUME HandleInv, live' = live, "overPinned" \notin Program, NEW v \in Vars, NEW w \in Vars, FieldCopy(v, w)
    PROVE  HandleInv' /\ val' = [val EXCEPT ![v] = val[w]]
<1>1. PICK h : h = Heap
  OBVIOUS
<1>2. Agrees(h, NoTemporary, live) /\ h.val = val /\ ~h.threw /\ live \subseteq Objects
  BY <1>1, HeapFields DEF HandleInv
<1>3. PICK x \in Values0 : x = val[w] /\ Usable(h, live, x)
  BY <1>2, Referenced
<1>4. PICK g : g = SetFrom(h, v, x)
  OBVIOUS
<1>5. Execute("copy", v, w, g)
  BY <1>1, <1>2, <1>3, <1>4 DEF FieldCopy
<1>6. ~g.stuck
  BY <1>5 DEF Execute
<1>7. IsField(v) /\ Ready(h, v)
  BY <1>1, WritableIsReady DEF FieldCopy, Is, IsField
<1>8. Agrees(g, NoTemporary, live) /\ g.val = [val EXCEPT ![v] = x]
  BY <1>2, <1>3, <1>4, <1>6, <1>7, SetFromAgrees
<1> QED
  BY <1>2, <1>3, <1>5, <1>8, Executed

LEMMA FieldResetStep ==
    ASSUME HandleInv, live' = live, "overPinned" \notin Program, NEW v \in Vars, FieldReset(v)
    PROVE  HandleInv' /\ val' = [val EXCEPT ![v] = Null]
<1>1. PICK h : h = Heap
  OBVIOUS
<1>2. Agrees(h, NoTemporary, live) /\ h.val = val /\ ~h.threw /\ live \subseteq Objects
  BY <1>1, HeapFields DEF HandleInv
<1>3. PICK x \in Values0 : x = Null /\ Usable(h, live, x)
  BY NullIsUsable
<1>4. PICK g : g = Set(h, v, x, "root")
  OBVIOUS
<1>5. Execute("reset", v, Null, g)
  BY <1>1, <1>2, <1>3, <1>4 DEF FieldReset
<1>6. ~g.stuck
  BY <1>5 DEF Execute
<1>7. IsField(v) /\ Ready(h, v)
  BY <1>1, WritableIsReady DEF FieldReset, Is, IsField
<1>8. Agrees(g, NoTemporary, live) /\ g.val = [val EXCEPT ![v] = x]
  BY <1>2, <1>3, <1>4, <1>6, <1>7, SetAgrees
<1> QED
  BY <1>2, <1>3, <1>5, <1>8, Executed

\* dyn::root_handle and dyn::field: one call of Assign each.
LEMMA DynRootAssignStep ==
    ASSUME HandleInv, live' = live, NEW v \in Vars, NEW w \in Vars, DynRootAssign(v, w)
    PROVE  HandleInv' /\ val' = IF val[w] = val[v] THEN val ELSE [val EXCEPT ![v] = Cast(v, val[w])]
<1>1. PICK h : h = Heap
  OBVIOUS
<1>2. Agrees(h, NoTemporary, live) /\ h.val = val /\ ~h.threw /\ live \subseteq Objects
  BY <1>1, HeapFields DEF HandleInv
<1>3. PICK x \in Values0 : x = val[w] /\ Usable(h, live, x)
  BY <1>2, Referenced
<1>4. PICK g : g = Assign(h, v, x)
  OBVIOUS
<1>5. Execute("copy", v, w, g)
  BY <1>1, <1>2, <1>3, <1>4 DEF DynRootAssign
<1>6. ~g.stuck
  BY <1>5 DEF Execute
<1>7. PlainRoot(v)
  BY RootKinds DEF DynRootAssign, Is
<1>8. Agrees(g, NoTemporary, live) /\ g.val = IF x = val[v] THEN val ELSE [val EXCEPT ![v] = Cast(v, x)]
  BY <1>2, <1>3, <1>4, <1>6, <1>7, AssignAgrees
<1> QED
  BY <1>2, <1>3, <1>5, <1>8, Executed

LEMMA DynRootResetStep ==
    ASSUME HandleInv, live' = live, NEW v \in Vars, DynRootReset(v)
    PROVE  HandleInv' /\ val' = [val EXCEPT ![v] = Null]
<1>1. PICK h : h = Heap
  OBVIOUS
<1>2. Agrees(h, NoTemporary, live) /\ h.val = val /\ ~h.threw /\ live \subseteq Objects
  BY <1>1, HeapFields DEF HandleInv
<1>3. PICK x \in Values0 : x = Null /\ Usable(h, live, x)
  BY NullIsUsable
<1>4. PICK g : g = Assign(h, v, x)
  OBVIOUS
<1>5. Execute("reset", v, Null, g)
  BY <1>1, <1>2, <1>3, <1>4 DEF DynRootReset
<1>6. ~g.stuck
  BY <1>5 DEF Execute
<1>7. PlainRoot(v)
  BY RootKinds DEF DynRootReset, Is
<1>8. Agrees(g, NoTemporary, live) /\ g.val = [val EXCEPT ![v] = x]
  <2>1. Agrees(g, NoTemporary, live) /\ g.val = IF x = val[v] THEN val ELSE [val EXCEPT ![v] = Cast(v, x)]
    BY <1>2, <1>3, <1>4, <1>6, <1>7, AssignAgrees
  <2>2. Cast(v, x) = x
    BY <1>3 DEF Cast
  <2>3. val \in [Vars -> Values0]
    BY <1>2 DEF Agrees, Heaps
  <2> QED
    BY <2>1, <2>2, <2>3
<1> QED
  BY <1>2, <1>3, <1>5, <1>8, Executed

LEMMA DynFieldAssignStep ==
    ASSUME HandleInv, live' = live, "overPinned" \notin Program, "reuse" \notin Program, NEW v \in Vars, NEW w \in Vars, DynFieldAssign(v, w)
    PROVE  HandleInv' /\ val' = [val EXCEPT ![v] = val[w]]
<1>1. PICK h : h = Heap
  OBVIOUS
<1>2. Agrees(h, NoTemporary, live) /\ h.val = val /\ ~h.threw /\ live \subseteq Objects
  BY <1>1, HeapFields DEF HandleInv
<1>3. PICK x \in Values0 : x = val[w] /\ Usable(h, live, x)
  BY <1>2, Referenced
<1>4. PICK g : g = DynSet(h, v, x, Kind[w])
  OBVIOUS
<1>5. Execute("copy", v, w, g)
  BY <1>1, <1>2, <1>3, <1>4 DEF DynFieldAssign
<1>6. ~g.stuck
  BY <1>5 DEF Execute
<1>7. IsField(v) /\ Ready(h, v) /\ (Owner[v] # Null \/ h.val[v] = Null)
  BY <1>1, <1>2, WritableIsReady DEF DynFieldAssign, Is, IsField, Reusable
<1>8. Agrees(g, NoTemporary, live) /\ g.val = [val EXCEPT ![v] = x]
  BY <1>2, <1>3, <1>4, <1>6, <1>7, DynSetAgrees
<1> QED
  BY <1>2, <1>3, <1>5, <1>8, Executed

LEMMA DynFieldResetStep ==
    ASSUME HandleInv, live' = live, "overPinned" \notin Program, "reuse" \notin Program, NEW v \in Vars, DynFieldReset(v)
    PROVE  HandleInv' /\ val' = [val EXCEPT ![v] = Null]
<1>1. PICK h : h = Heap
  OBVIOUS
<1>2. Agrees(h, NoTemporary, live) /\ h.val = val /\ ~h.threw /\ live \subseteq Objects
  BY <1>1, HeapFields DEF HandleInv
<1>3. PICK x \in Values0 : x = Null /\ Usable(h, live, x)
  BY NullIsUsable
<1>4. PICK g : g = DynSet(h, v, x, "field")
  OBVIOUS
<1>5. Execute("reset", v, Null, g)
  BY <1>1, <1>2, <1>3, <1>4 DEF DynFieldReset
<1>6. ~g.stuck
  BY <1>5 DEF Execute
<1>7. IsField(v) /\ Ready(h, v) /\ (Owner[v] # Null \/ h.val[v] = Null)
  BY <1>1, <1>2, WritableIsReady DEF DynFieldReset, Is, IsField, Reusable
<1>8. Agrees(g, NoTemporary, live) /\ g.val = [val EXCEPT ![v] = x]
  BY <1>2, <1>3, <1>4, <1>6, <1>7, DynSetAgrees
<1> QED
  BY <1>2, <1>3, <1>5, <1>8, Executed


\* The moves are two calls, the second on the heap that the first one leaves.
LEMMA FieldPairAgrees ==
    ASSUME NEW h, NEW e, NEW L, Agrees(h, e, L), ~h.threw, NEW v \in Vars, NEW w \in Vars, v # w,
           IsField(v), IsField(w), Ready(h, v), Ready(h, w), NEW x, x = h.val[w],
           NEW y, y = Null \/ y = x,
           NEW role, NEW g, g = Set(SetFrom(h, v, x), w, y, role), ~g.stuck
    PROVE  Agrees(g, e, L) /\ g.val = [[h.val EXCEPT ![v] = x] EXCEPT ![w] = y]
<1>1. x \in Values0 /\ Usable(h, L, x)
  BY Referenced
<1>2. PICK k : k = SetFrom(h, v, x)
  OBVIOUS
<1>3. Waiting(h) /\ h.val \in [Vars -> Values0]
  BY DEF Agrees, Heaps, Waiting
<1>4. After(k, h)
  BY <1>2, <1>3, SetWaits
<1>5. g = Set(k, w, y, role)
  BY <1>2
<1>6. ~k.stuck
  <2>1. After(g, k)
    BY <1>4, <1>5, SetWaits DEF After
  <2> QED
    BY <2>1 DEF After
<1>7. Agrees(k, e, L) /\ k.val = [h.val EXCEPT ![v] = x] /\ k.lock = h.lock /\ ~k.threw
  BY <1>1, <1>2, <1>6, SetFromAgrees
<1>8. Ready(k, w)
  <2>1. k.val = Changed(h.val, v, x)
    BY <1>7 DEF Changed
  <2>2. Kind[v] \notin Pins
    BY DEF IsField, Pins, Readers, Writers
  <2> QED
    BY <2>1, <2>2, <1>3, <1>7, StillReady
<1>9. y \in Values0 /\ Usable(k, L, y)
  <2>1. CASE y = Null
    BY <2>1, NullIsUsable
  <2>2. CASE y = x
    <3>1. k.val[v] = x
      BY <1>1, <1>3, <1>7
    <3>2. Usable(k, L, k.val[v])
      BY <1>7, Referenced
    <3> QED
      BY <1>1, <2>2, <3>1, <3>2
  <2> QED
    BY <2>1, <2>2
<1>10. Agrees(g, e, L) /\ g.val = [k.val EXCEPT ![w] = y]
  BY <1>5, <1>7, <1>8, <1>9, SetAgrees
<1> QED
  BY <1>1, <1>7, <1>10

LEMMA FieldMoveStep ==
    ASSUME HandleInv, live' = live, "overPinned" \notin Program, "swapFields" \notin Program,
           NEW v \in Vars, NEW w \in Vars, FieldMove(v, w) \/ FieldMoveNew(v, w)
    PROVE  /\ HandleInv'
           /\ \E y \in {Null, val[v]} : val' = [[val EXCEPT ![v] = val[w]] EXCEPT ![w] = y]
<1>1. PICK h : h = Heap
  OBVIOUS
<1>2. Agrees(h, NoTemporary, live) /\ h.val = val /\ ~h.threw /\ live \subseteq Objects
  BY <1>1, HeapFields DEF HandleInv
<1>3. IsField(v) /\ IsField(w) /\ Ready(h, v) /\ Ready(h, w) /\ v # w
  BY <1>1, WritableIsReady DEF FieldMove, FieldMoveNew, Is, IsField
<1>4. PICK y \in {Null, val[v]} : y \in {Null, val[w]} /\
         Execute("move", v, w, Set(SetFrom(h, v, val[w]), w, y, "field"))
  <2>1. CASE FieldMove(v, w)
    <3>1. val[v] \in {Null, val[w]} /\ Execute("move", v, w, Set(SetFrom(h, v, val[w]), w, val[v], "field"))
      BY <2>1, <1>1, <1>2 DEF FieldMove
    <3> QED
      BY <3>1
  <2>2. CASE FieldMoveNew(v, w)
    BY <2>2, <1>1, <1>2 DEF FieldMoveNew
  <2> QED
    BY <2>1, <2>2
<1>5. PICK x, g : x = val[w] /\ g = Set(SetFrom(h, v, x), w, y, "field")
  OBVIOUS
<1>6. Execute("move", v, w, g) /\ ~g.stuck
  BY <1>4, <1>5 DEF Execute
<1>7. Agrees(g, NoTemporary, live) /\ g.val = [[val EXCEPT ![v] = val[w]] EXCEPT ![w] = y]
  <2>1. x = h.val[w] /\ (y = Null \/ y = x)
    BY <1>2, <1>4, <1>5
  <2>2. Agrees(g, NoTemporary, live) /\ g.val = [[h.val EXCEPT ![v] = x] EXCEPT ![w] = y]
    BY <1>2, <1>3, <1>5, <1>6, <2>1, FieldPairAgrees
  <2> QED
    BY <1>2, <1>5, <2>2
<1>8. HandleInv' /\ val' = g.val
  BY <1>2, <1>6, <1>7, Executed
<1> QED
  BY <1>7, <1>8

LEMMA DynRootMoveStep ==
    ASSUME HandleInv, live' = live, NEW v \in Vars, NEW w \in Vars, DynRootMove(v, w)
    PROVE  /\ HandleInv'
           /\ \E f \in [Vars -> Values0] :
                 /\ f = IF val[w] = val[v] THEN val ELSE [val EXCEPT ![v] = Cast(v, val[w])]
                 /\ val' = [f EXCEPT ![w] = Null]
<1>1. PICK h : h = Heap
  OBVIOUS
<1>2. Agrees(h, NoTemporary, live) /\ h.val = val /\ live \subseteq Objects
  BY <1>1, HeapFields DEF HandleInv
<1>3. PICK x \in Values0 : x = val[w] /\ Usable(h, live, x)
  BY <1>2, Referenced
<1>4. PICK k : k = Assign(h, v, x)
  OBVIOUS
<1>5. PICK z \in Values0 : z = Null
  BY NullIsUsable
<1>6. PICK g : g = Assign(k, w, z)
  OBVIOUS
<1>7. Execute("move", v, w, g)
  BY <1>1, <1>2, <1>3, <1>4, <1>5, <1>6 DEF DynRootMove
<1>8. ~g.stuck /\ ~k.stuck
  <2>1. Waiting(h)
    BY <1>2 DEF Agrees, Heaps, Waiting
  <2>2. After(k, h)
    BY <1>4, <2>1, SetWaits
  <2>3. After(g, k)
    BY <1>6, <2>2, SetWaits DEF After
  <2> QED
    BY <1>7, <2>3 DEF After, Execute
<1>9. PlainRoot(v) /\ PlainRoot(w)
  BY RootKinds DEF DynRootMove, Is
<1>10. Agrees(k, NoTemporary, live) /\ k.val = IF x = val[v] THEN val ELSE [val EXCEPT ![v] = Cast(v, x)]
  BY <1>2, <1>3, <1>4, <1>8, <1>9, AssignAgrees
<1>11. Agrees(g, NoTemporary, live) /\ g.val = IF z = k.val[w] THEN k.val ELSE [k.val EXCEPT ![w] = Cast(w, z)]
  <2>1. Usable(k, live, z)
    BY <1>5, NullIsUsable
  <2>2. Agrees(k, NoTemporary, live)
    BY <1>10
  <2> QED
    BY <1>6, <1>8, <1>9, <2>1, <2>2, AssignAgrees
<1>12. k.val \in [Vars -> Values0]
  BY <1>10 DEF Agrees, Heaps
<1>13. g.val = [k.val EXCEPT ![w] = Null]
  <2>1. Cast(w, z) = Null
    BY <1>5 DEF Cast
  <2> QED
    BY <1>5, <1>11, <1>12, <2>1
<1>14. HandleInv' /\ val' = g.val
  BY <1>2, <1>7, <1>11, Executed
<1> QED
  BY <1>3, <1>10, <1>12, <1>13, <1>14

LEMMA DynFieldMoveStep ==
    ASSUME HandleInv, live' = live, "overPinned" \notin Program, "reuse" \notin Program,
           NEW v \in Vars, NEW w \in Vars, DynFieldMove(v, w)
    PROVE  HandleInv' /\ val' = [[val EXCEPT ![v] = val[w]] EXCEPT ![w] = Null]
<1>1. PICK h : h = Heap
  OBVIOUS
<1>2. Agrees(h, NoTemporary, live) /\ h.val = val /\ live \subseteq Objects
  BY <1>1, HeapFields DEF HandleInv
<1>3. PICK x \in Values0 : x = h.val[w] /\ Usable(h, live, x)
  BY <1>2, Referenced
<1>4. PICK k : k = DynSet(h, v, x, "field")
  OBVIOUS
<1>5. PICK z \in Values0 : z = Null
  BY NullIsUsable
<1>6. PICK g : g = DynSet(k, w, z, "field")
  OBVIOUS
<1>7. Execute("move", v, w, g)
  BY <1>1, <1>2, <1>3, <1>4, <1>5, <1>6 DEF DynFieldMove
<1>8. ~g.stuck /\ ~k.stuck /\ h.val \in [Vars -> Values0]
  <2>1. Waiting(h)
    BY <1>2 DEF Agrees, Heaps, Waiting
  <2>2. After(k, h)
    BY <1>4, <2>1, SetWaits
  <2>3. After(g, k)
    BY <1>6, <2>2, SetWaits DEF After
  <2>4. h.val \in [Vars -> Values0]
    BY <1>2 DEF Agrees, Heaps
  <2> QED
    BY <1>7, <2>3, <2>4 DEF After, Execute
<1>9. /\ IsField(v) /\ IsField(w) /\ Ready(h, v) /\ Ready(h, w)
      /\ Owner[v] # Null \/ h.val[v] = Null
      /\ Owner[w] # Null \/ h.val[w] = Null
  BY <1>1, <1>2, WritableIsReady DEF DynFieldMove, Is, IsField, Reusable
<1>10. Agrees(k, NoTemporary, live) /\ k.val = [h.val EXCEPT ![v] = x] /\ k.lock = h.lock
  <2>1. Agrees(h, NoTemporary, live) /\ IsField(v) /\ Ready(h, v) /\ (Owner[v] # Null \/ h.val[v] = Null)
    BY <1>2, <1>9
  <2> QED
    BY <2>1, <1>3, <1>4, <1>8, DynSetAgrees
<1>11. Ready(k, w)
  <2>1. k.val = Changed(h.val, v, x)
    BY <1>10 DEF Changed
  <2>2. Kind[v] \notin Pins
    BY <1>9 DEF IsField, Pins, Readers, Writers
  <2> QED
    BY <2>1, <2>2, <1>3, <1>8, <1>9, <1>10, StillReady
<1>12. Owner[w] # Null \/ k.val[w] = Null
  BY <1>3, <1>8, <1>9, <1>10
<1>13. Usable(k, live, z)
  BY <1>5, NullIsUsable
<1>14. Agrees(g, NoTemporary, live) /\ g.val = [k.val EXCEPT ![w] = z]
  BY <1>6, <1>8, <1>9, <1>10, <1>11, <1>12, <1>13, DynSetAgrees
<1>15. HandleInv' /\ val' = g.val
  BY <1>2, <1>7, <1>14, Executed
<1> QED
  BY <1>2, <1>3, <1>5, <1>10, <1>14, <1>15

LEMMA NewStep ==
    ASSUME HandleInv, NEW v \in Vars, NEW o \in Objects, New(v, o)
    PROVE  HandleInv' /\ val' = [val EXCEPT ![v] = o] /\ \A u \in Vars : val[u] # o
<1>1. PICK h : h = Heap
  OBVIOUS
<1>2. Agrees(h, NoTemporary, live) /\ h.val = val /\ live \subseteq Objects
  BY <1>1, HeapFields DEF HandleInv
<1>3. PICK g : g = Grown(h, v, o)
  OBVIOUS
<1>4. Execute("new", v, Null, g) /\ o \notin live /\ live' = live \cup {o}
  BY <1>1, <1>3 DEF New, Grown
<1>5. PlainRoot(v) /\ h.val[v] = Null
  BY <1>2, RootKinds DEF New, Is
<1>6. Agrees(g, NoTemporary, live') /\ g.val = [val EXCEPT ![v] = o]
  <2>1. PICK L : L = live \cup {o}
    OBVIOUS
  <2>2. Agrees(g, NoTemporary, L) /\ g.val = [val EXCEPT ![v] = o]
    BY <1>2, <1>3, <1>4, <1>5, <2>1, NewAgrees
  <2> QED
    BY <1>4, <2>1, <2>2
<1>7. HandleInv' /\ val' = g.val
  <2>1. live' \subseteq Objects
    BY <1>2, <1>4
  <2> QED
    BY <1>4, <1>6, <2>1, Executed
<1>8. \A u \in Vars : val[u] # o
  BY <1>2, <1>4 DEF Agrees, FlagsFit, Refers
<1> QED
  BY <1>6, <1>7, <1>8

LEMMA CollectStep ==
    ASSUME HandleInv, NEW o \in Objects, Collect(o)
    PROVE  HandleInv' /\ val' = Cleared(val, o) /\ \A u \in Vars : val[u] # o
<1>1. PICK h : h = Heap
  OBVIOUS
<1>2. Agrees(h, NoTemporary, live) /\ h.val = val /\ h.garbage = garbage /\ live \subseteq Objects
  BY <1>1, HeapFields DEF HandleInv
<1>3. PICK g : g = Shrunken(h, o)
  OBVIOUS
<1>4. Execute("collect", Null, Null, g) /\ o \in h.garbage /\ live' = live \ {o}
  BY <1>1, <1>2, <1>3 DEF Collect, Shrunken
<1>5. Agrees(g, NoTemporary, live') /\ g.val = Cleared(val, o)
  <2>1. PICK L : L = live \ {o}
    OBVIOUS
  <2>2. Agrees(g, NoTemporary, L) /\ g.val = Cleared(val, o)
    BY <1>2, <1>3, <1>4, <2>1, CollectAgrees
  <2> QED
    BY <1>4, <2>1, <2>2
<1>6. HandleInv' /\ val' = g.val
  <2>1. live' \subseteq Objects
    BY <1>2, <1>4
  <2> QED
    BY <1>4, <1>5, <2>1, Executed
<1>7. \A u \in Vars : val[u] # o
  BY <1>2, <1>4 DEF Agrees, FlagsFit, Refers
<1> QED
  BY <1>5, <1>6, <1>7

-------------------------------------------------------------------------------
(* The invariant holds *)

CarefulProgram == Program \subseteq Careful

LEMMA InitHandleInv == Init => HandleInv
<1> SUFFICES ASSUME Init PROVE HandleInv
  OBVIOUS
<1>1. PICK h : h = Heap
  OBVIOUS
<1>2. h = [val |-> [v \in Vars |-> Null], count |-> [o \in Objects |-> 0],
           refs |-> [o \in Objects |-> NoRefs], garbage |-> {}, lock |-> [o \in Objects |-> 0],
           stuck |-> FALSE, threw |-> FALSE]
  BY <1>1 DEF Init, Heap
<1>3. h \in Heaps /\ NoTemporary \in Temporaries
  BY <1>2 DEF Heaps, Values0, NoRefs, Temporaries, NoTemporary
<1>4. \A v \in Vars, o \in Objects : h.val[v] # o
  BY <1>2, HandleAssumption
<1>5. \A C \in SUBSET Vars : \A o \in Objects : N(h.val, C, o) = 0
  <2>1. ASSUME NEW C \in SUBSET Vars, NEW o \in Objects PROVE N(h.val, C, o) = 0
    BY <1>4, CountingType
  <2> QED
    BY <2>1
<1>6. CountsFit(h, NoTemporary)
  BY <1>2, <1>5, Classes DEF CountsFit, NoTemporary, NoRefs
<1>7. LocksFit(h)
  BY <1>2, <1>5, Classes DEF LocksFit
<1>8. FlagsFit(h, NoTemporary, live)
  BY <1>2, <1>4 DEF FlagsFit, Refers, NoTemporary, Init
<1> QED
  BY <1>1, <1>3, <1>6, <1>7, <1>8 DEF HandleInv, Agrees, Init

LEMMA NextHandleInv == CarefulProgram /\ HandleInv /\ [Next]_vars => HandleInv'
<1> SUFFICES ASSUME CarefulProgram, HandleInv, [Next]_vars PROVE HandleInv'
  OBVIOUS
<1>1. /\ "overPinned" \notin Program /\ "swapFields" \notin Program
      /\ "reuse" \notin Program /\ "copyAssign" \notin Program
  BY DEF CarefulProgram, Careful
<1>2. CASE live' = live /\ \E v, w \in Vars :
              \/ RootNew(v, w) \/ RootConvert(v, w) \/ RootAssign(v, w) \/ RootMove(v, w)
              \/ PinNew(v, w) \/ DynPinNew(v, w)
  <2>1. PICK v \in Vars, w \in Vars :
           \/ RootNew(v, w) \/ RootConvert(v, w) \/ RootAssign(v, w) \/ RootMove(v, w)
           \/ PinNew(v, w) \/ DynPinNew(v, w)
    BY <1>2
  <2>2. ~RootAssign(v, w)
    BY <1>1 DEF RootAssign
  <2> QED
    BY <1>2, <2>1, <2>2, RootNewStep, RootConvertStep, RootMoveStep, PinNewStep, DynPinNewStep
<1>3. CASE live' = live /\ \E v, w \in Vars :
              \/ FieldAssign(v, w) \/ FieldCopy(v, w) \/ FieldMoveNew(v, w) \/ FieldMove(v, w)
  BY <1>1, <1>3, FieldAssignStep, FieldCopyStep, FieldMoveStep
<1>4. CASE live' = live /\ \E v, w \in Vars :
              \/ DynRootAssign(v, w) \/ DynRootMove(v, w)
              \/ DynFieldAssign(v, w) \/ DynFieldMove(v, w)
  BY <1>1, <1>4, DynRootAssignStep, DynRootMoveStep, DynFieldAssignStep, DynFieldMoveStep
<1>5. CASE live' = live /\ \E v \in Vars :
              \/ RootReset(v) \/ PinEnd(v) \/ FieldReset(v)
              \/ DynRootReset(v) \/ DynFieldReset(v) \/ DynFieldEnd(v)
  BY <1>1, <1>5, RootResetStep, PinEndStep, FieldResetStep, DynRootResetStep, DynFieldResetStep,
     DynFieldEndStep
<1>6. CASE \E v \in Vars, o \in Objects : New(v, o)
  BY <1>6, NewStep
<1>7. CASE \E o \in Objects : Collect(o)
  BY <1>7, CollectStep
<1>8. CASE UNCHANGED vars
  <2>1. Heap' = Heap /\ live' = live
    BY <1>8 DEF vars, Heap
  <2> QED
    BY <2>1 DEF HandleInv
<1> QED
  BY <1>2, <1>3, <1>4, <1>5, <1>6, <1>7, <1>8 DEF Next, Statement

LEMMA HandleInvHolds == CarefulProgram => (Spec => []HandleInv)
<1> SUFFICES ASSUME CarefulProgram PROVE Spec => []HandleInv
  OBVIOUS
<1>1. HandleInv /\ [Next]_vars => HandleInv'
  BY NextHandleInv
<1> QED
  BY <1>1, InitHandleInv, PTL DEF Spec

LEMMA CountsFollow == HandleInv => CountsAgree
<1> SUFFICES ASSUME HandleInv, NEW o \in live PROVE
       /\ count[o] = Cardinality({v \in Referring(o) : Owner[v] = Null})
       /\ \A p \in Objects : refs[o][p] = Cardinality({v \in Referring(o) : Owner[v] = p})
  BY DEF CountsAgree
<1>1. o \in Objects
  BY DEF HandleInv
<1>2. /\ count[o] = N(val, Rooted, o) + NoTemporary[o]
      /\ \A p \in Objects : refs[o][p] = N(val, FieldsOf(p), o)
  BY <1>1, HeapFields DEF HandleInv, Agrees, CountsFit
<1>3. N(val, Rooted, o) \in Nat
  BY CountingType, Classes
<1>4. count[o] = N(val, Rooted, o)
  BY <1>1, <1>2, <1>3 DEF NoTemporary
<1>5. {v \in Referring(o) : Owner[v] = Null} = {v \in Rooted : val[v] = o}
  BY DEF Referring, Rooted
<1>6. ASSUME NEW p \in Objects
      PROVE  {v \in Referring(o) : Owner[v] = p} = {v \in FieldsOf(p) : val[v] = o}
  BY DEF Referring, FieldsOf
<1> QED
  BY <1>2, <1>4, <1>5, <1>6 DEF N

LEMMA LocksFollow == HandleInv => LocksAgree
<1> SUFFICES ASSUME HandleInv, NEW o \in live PROVE
       lock[o] = IF \E v \in Referring(o) : Kind[v] \in Writers THEN Written
                 ELSE Cardinality({v \in Referring(o) : Kind[v] \in Readers})
  BY DEF LocksAgree
<1>1. o \in Objects
  BY DEF HandleInv
<1>2. lock[o] = IF N(val, WritePins, o) > 0 THEN Written ELSE N(val, ReadPins, o)
  BY <1>1, HeapFields DEF HandleInv, Agrees, LocksFit
<1>3. /\ N(val, WritePins, o) \in Nat
      /\ N(val, WritePins, o) = 0 <=> \A v \in WritePins : val[v] # o
  BY CountingType, Classes
<1>4. N(val, WritePins, o) > 0 <=> \E v \in Referring(o) : Kind[v] \in Writers
  BY <1>3 DEF WritePins, Referring
<1>5. {v \in Referring(o) : Kind[v] \in Readers} = {v \in ReadPins : val[v] = o}
  BY DEF Referring, ReadPins
<1> QED
  BY <1>2, <1>4, <1>5 DEF N

LEMMA GarbageFollows == HandleInv => GarbageIsUnreferenced
BY HeapFields DEF HandleInv, Agrees, FlagsFit, Refers, NoTemporary, GarbageIsUnreferenced, Referring

\* After every statement but those that CarefulProgram leaves out, whatever classes it
\* mixes, the root count of an object is the number of handles, pins and unmanaged
\* fields that refer to it, and it has one back reference for every field of another
\* object that does (gc.h:397-417).
THEOREM StatementsCount == CarefulProgram => (Spec => []CountsAgree)
BY HandleInvHolds, CountsFollow, PTL

\* Only the statement that drops an object's last reference sets its garbage flag,
\* and it always does (gc.h:399-417, gc.cpp:133).
THEOREM LastReferenceFlags == CarefulProgram => (Spec => []GarbageIsUnreferenced)
BY HandleInvHolds, GarbageFollows, PTL

\* Pins and nothing else keep an object locked, and a read-write pin is the only one
\* (gc.h:280-351, README.md:42-43).
THEOREM PinsLock == CarefulProgram => (Spec => []LocksAgree)
BY HandleInvHolds, LocksFollow, PTL

-------------------------------------------------------------------------------
(* The refinement: statements do to variables what they would do to pointers *)

\* The compiler has seen to it that what reaches a variable of a static type fits.
StaticTypesFit == \A v \in Vars, o \in Objects : Kind[v] \in {"root", "ro", "rw", "field"} => <<v, o>> \in Fits

\* No variable refers to an object that its type cannot refer to.
ValuesFit == \A v \in Vars : val[v] \in Values0 /\ Cast(v, val[v]) = val[v]

LEMMA ValuesCast == \A v, o : Values!Cast(v, o) = Cast(v, o)
BY DEF Values!Cast, Cast, Suits

LEMMA StaticCast ==
    ASSUME StaticTypesFit, NEW v \in Vars, Kind[v] \in {"root", "ro", "rw", "field"}, NEW x \in Values0
    PROVE  Cast(v, x) = x
BY DEF StaticTypesFit, Cast, Values0

LEMMA FitsKept ==
    ASSUME NEW f, NEW v, NEW x \in Values0, Cast(v, x) = x,
           \A u \in Vars : f[u] \in Values0 /\ Cast(u, f[u]) = f[u],
           NEW g, g = Changed(f, v, x), f \in [Vars -> Values0]
    PROVE  \A u \in Vars : g[u] \in Values0 /\ Cast(u, g[u]) = g[u]
BY DEF Changed

\* One step for each kind of statement.
LEMMA ValuesCopy ==
    ASSUME ValuesFit, val \in [Vars -> Values0], NEW v \in Vars, NEW w \in Vars, NEW g,
           Execute("copy", v, w, g), val' = Changed(val, v, Cast(v, val[w]))
    PROVE  Values!Next /\ ValuesFit'
<1>1. stmt'.op = "copy" /\ stmt'.to = v /\ stmt'.from = w
  BY DEF Execute
<1>2. Values!Copy(v, w)
  BY ValuesCast DEF Values!Copy, Changed
<1>3. Values!Next
  BY <1>1, <1>2 DEF Values!Next
<1>4. PICK x : x = Cast(v, val[w])
  OBVIOUS
<1>5. x \in Values0 /\ Cast(v, x) = x
  BY <1>4 DEF Cast, Values0, ValuesFit
<1>6. ValuesFit'
  BY <1>4, <1>5, FitsKept DEF ValuesFit
<1> QED
  BY <1>3, <1>6

LEMMA ValuesReset ==
    ASSUME ValuesFit, val \in [Vars -> Values0], NEW v \in Vars, NEW g,
           Execute("reset", v, Null, g), val' = Changed(val, v, Null)
    PROVE  Values!Next /\ ValuesFit'
<1>1. stmt'.op = "reset" /\ stmt'.to = v
  BY DEF Execute
<1>2. Values!Next
  BY <1>1 DEF Values!Next, Values!Reset, Changed
<1>3. Null \in Values0 /\ Cast(v, Null) = Null
  BY DEF Cast, Values0
<1>4. PICK z : z = Null
  OBVIOUS
<1>5. ValuesFit'
  BY <1>3, <1>4, FitsKept DEF ValuesFit
<1> QED
  BY <1>2, <1>5

LEMMA ValuesMove ==
    ASSUME ValuesFit, val \in [Vars -> Values0], NEW v \in Vars, NEW w \in Vars, NEW g,
           Execute("move", v, w, g), Cast(v, val[w]) = val[w],
           NEW y \in {Null, val[v]}, Cast(w, y) = y,
           val' = Changed(Changed(val, v, val[w]), w, y)
    PROVE  Values!Next /\ ValuesFit'
<1>1. stmt'.op = "move" /\ stmt'.to = v /\ stmt'.from = w
  BY DEF Execute
<1>2. val' = [val EXCEPT ![v] = Values!Cast(v, val[w]), ![w] = y]
  BY ValuesCast DEF Changed
<1>3. Values!Move(v, w)
  BY <1>2, ValuesCast DEF Values!Move, Values!Rest
<1>4. Values!Next
  BY <1>1, <1>3 DEF Values!Next
<1>5. PICK f : f = Changed(val, v, val[w])
  OBVIOUS
<1>6. PICK x \in Values0 : x = val[w]
  BY DEF ValuesFit
<1>7. \A u \in Vars : f[u] \in Values0 /\ Cast(u, f[u]) = f[u]
  BY <1>5, <1>6, FitsKept DEF ValuesFit
<1>8. f \in [Vars -> Values0]
  BY <1>5, <1>6 DEF Changed
<1>9. y \in Values0
  BY DEF ValuesFit, Values0
<1>10. PICK k : k = val'
  OBVIOUS
<1>11. k = Changed(f, w, y)
  BY <1>5, <1>10
<1>12. \A u \in Vars : k[u] \in Values0 /\ Cast(u, k[u]) = k[u]
  BY <1>7, <1>8, <1>9, <1>11, FitsKept
<1> QED
  BY <1>4, <1>10, <1>12 DEF ValuesFit

LEMMA ValTypes == HandleInv => val \in [Vars -> Values0]
BY HeapFields DEF HandleInv, Agrees, Heaps

LEMMA CopyStatements ==
    ASSUME HandleInv, ValuesFit, StaticTypesFit, Program = {}, live' = live, NEW v \in Vars, NEW w \in Vars,
           \/ RootNew(v, w) \/ RootConvert(v, w) \/ PinNew(v, w) \/ DynPinNew(v, w)
           \/ FieldAssign(v, w) \/ FieldCopy(v, w) \/ DynRootAssign(v, w) \/ DynFieldAssign(v, w)
    PROVE  (\E g : Execute("copy", v, w, g)) /\ val' = Changed(val, v, Cast(v, val[w]))
<1>1. /\ val \in [Vars -> Values0] /\ val[w] \in Values0
      /\ "overPinned" \notin Program /\ "reuse" \notin Program
  BY ValTypes
<1>2. \E g : Execute("copy", v, w, g)
  BY DEF RootNew, RootConvert, PinNew, DynPinNew, FieldAssign, FieldCopy, DynRootAssign, DynFieldAssign
<1>3. CASE RootNew(v, w) \/ RootConvert(v, w) \/ PinNew(v, w) \/ FieldAssign(v, w) \/ FieldCopy(v, w)
  <2>1. Kind[v] \in {"root", "ro", "rw", "field"}
    BY <1>3 DEF RootNew, RootConvert, PinNew, FieldAssign, FieldCopy, Is
  <2>2. Cast(v, val[w]) = val[w]
    BY <1>1, <2>1, StaticCast
  <2>3. val' = [val EXCEPT ![v] = val[w]]
    BY <1>1, <1>3, RootNewStep, RootConvertStep, PinNewStep, FieldAssignStep, FieldCopyStep
  <2> QED
    BY <1>2, <2>2, <2>3 DEF Changed
<1>4. CASE DynPinNew(v, w)
  BY <1>2, <1>4, DynPinNewStep DEF Changed
<1>5. CASE DynRootAssign(v, w)
  <2>1. val' = IF val[w] = val[v] THEN val ELSE [val EXCEPT ![v] = Cast(v, val[w])]
    BY <1>5, DynRootAssignStep
  <2>2. CASE val[w] = val[v]
    <3>1. Cast(v, val[w]) = val[v]
      BY <2>2 DEF ValuesFit
    <3> QED
      BY <1>1, <1>2, <2>1, <2>2, <3>1 DEF Changed
  <2> QED
    BY <1>2, <2>1, <2>2 DEF Changed
<1>6. CASE DynFieldAssign(v, w)
  <2>1. Cast(v, val[w]) = val[w]
    BY <1>6 DEF DynFieldAssign
  <2>2. val' = [val EXCEPT ![v] = val[w]]
    BY <1>1, <1>6, DynFieldAssignStep
  <2> QED
    BY <1>2, <2>1, <2>2 DEF Changed
<1> QED
  BY <1>3, <1>4, <1>5, <1>6

LEMMA MoveStatements ==
    ASSUME HandleInv, ValuesFit, StaticTypesFit, Program = {}, live' = live, NEW v \in Vars, NEW w \in Vars,
           RootMove(v, w) \/ FieldMoveNew(v, w) \/ FieldMove(v, w) \/ DynRootMove(v, w) \/ DynFieldMove(v, w)
    PROVE  /\ \E g : Execute("move", v, w, g)
           /\ Cast(v, val[w]) = val[w]
           /\ \E y \in {Null, val[v]} : Cast(w, y) = y /\ val' = Changed(Changed(val, v, val[w]), w, y)
<1>1. /\ val \in [Vars -> Values0] /\ val[w] \in Values0 /\ val[v] \in Values0
      /\ "overPinned" \notin Program /\ "reuse" \notin Program /\ "swapFields" \notin Program
      /\ "castMove" \notin Program /\ "castField" \notin Program
  BY ValTypes
<1>2. \E g : Execute("move", v, w, g)
  BY DEF RootMove, FieldMoveNew, FieldMove, DynRootMove, DynFieldMove
<1>3. Cast(w, Null) = Null
  BY DEF Cast
<1>4. CASE RootMove(v, w)
  <2>1. Kind[v] = "root" /\ Kind[w] = "root"
    BY <1>4 DEF RootMove, Is
  <2>2. Cast(v, val[w]) = val[w] /\ Cast(w, val[v]) = val[v]
    BY <1>1, <2>1, StaticCast
  <2>3. val' = [[val EXCEPT ![v] = val[w]] EXCEPT ![w] = val[v]]
    BY <1>4, RootMoveStep
  <2> QED
    BY <1>2, <2>2, <2>3 DEF Changed
<1>5. CASE FieldMoveNew(v, w) \/ FieldMove(v, w)
  <2>1. Kind[v] = "field" /\ Kind[w] = "field"
    BY <1>5 DEF FieldMoveNew, FieldMove, Is
  <2>2. Cast(v, val[w]) = val[w] /\ Cast(w, val[v]) = val[v]
    BY <1>1, <2>1, StaticCast
  <2>3. PICK y \in {Null, val[v]} : val' = [[val EXCEPT ![v] = val[w]] EXCEPT ![w] = y]
    BY <1>1, <1>5, FieldMoveStep
  <2>4. Cast(w, y) = y
    BY <1>3, <2>2
  <2> QED
    BY <1>2, <2>2, <2>3, <2>4 DEF Changed
<1>6. CASE DynRootMove(v, w)
  <2>1. Cast(v, val[w]) = val[w]
    BY <1>1, <1>6 DEF DynRootMove
  <2>2. PICK f \in [Vars -> Values0] :
           /\ f = IF val[w] = val[v] THEN val ELSE [val EXCEPT ![v] = Cast(v, val[w])]
           /\ val' = [f EXCEPT ![w] = Null]
    BY <1>6, DynRootMoveStep
  <2>3. f = [val EXCEPT ![v] = val[w]]
    BY <1>1, <2>1, <2>2
  <2> QED
    BY <1>2, <1>3, <2>1, <2>2, <2>3 DEF Changed
<1>7. CASE DynFieldMove(v, w)
  <2>1. Cast(v, val[w]) = val[w]
    BY <1>1, <1>7 DEF DynFieldMove
  <2>2. val' = [[val EXCEPT ![v] = val[w]] EXCEPT ![w] = Null]
    BY <1>1, <1>7, DynFieldMoveStep
  <2> QED
    BY <1>2, <1>3, <2>1, <2>2 DEF Changed
<1> QED
  BY <1>4, <1>5, <1>6, <1>7

LEMMA ResetStatements ==
    ASSUME HandleInv, Program = {}, live' = live, NEW v \in Vars,
           \/ RootReset(v) \/ PinEnd(v) \/ FieldReset(v)
           \/ DynRootReset(v) \/ DynFieldReset(v) \/ DynFieldEnd(v)
    PROVE  (\E g : Execute("reset", v, Null, g)) /\ val' = Changed(val, v, Null)
<1>1. "overPinned" \notin Program /\ "reuse" \notin Program
  OBVIOUS
<1>2. \E g : Execute("reset", v, Null, g)
  BY DEF RootReset, PinEnd, FieldReset, DynRootReset, DynFieldReset, DynFieldEnd
<1>3. val' = [val EXCEPT ![v] = Null]
  BY <1>1, RootResetStep, PinEndStep, FieldResetStep, DynRootResetStep, DynFieldResetStep,
     DynFieldEndStep
<1> QED
  BY <1>2, <1>3 DEF Changed

LEMMA ValuesNew ==
    ASSUME HandleInv, ValuesFit, StaticTypesFit, NEW v \in Vars, NEW o \in Objects, New(v, o)
    PROVE  Values!Next /\ ValuesFit'
<1>1. val \in [Vars -> Values0]
  BY ValTypes
<1>2. val' = [val EXCEPT ![v] = o] /\ \A u \in Vars : val[u] # o
  BY NewStep
<1>3. stmt'.op = "new" /\ stmt'.to = v
  BY DEF New, Execute
<1>4. Values!Fresh(v)
  BY <1>2 DEF Values!Fresh, Values!Unreferenced
<1>5. o \in Values0 /\ Cast(v, o) = o
  <2>1. o \in Values0 /\ Kind[v] = "root"
    BY DEF Values0, New, Is
  <2> QED
    BY <2>1, StaticCast
<1>6. ValuesFit'
  <2>1. PICK k : k = val'
    OBVIOUS
  <2>2. k = Changed(val, v, o)
    BY <1>2, <2>1 DEF Changed
  <2>3. \A u \in Vars : k[u] \in Values0 /\ Cast(u, k[u]) = k[u]
    BY <1>1, <1>5, <2>2, FitsKept DEF ValuesFit
  <2> QED
    BY <2>1, <2>3 DEF ValuesFit
<1> QED
  BY <1>3, <1>4, <1>6 DEF Values!Next

LEMMA ValuesCollect ==
    ASSUME HandleInv, ValuesFit, NEW o \in Objects, Collect(o)
    PROVE  Values!Next /\ ValuesFit'
<1>1. val' = [v \in Vars |-> IF Owner[v] = o THEN Null ELSE val[v]] /\ \A u \in Vars : val[u] # o
  BY CollectStep DEF Cleared
<1>2. stmt'.op = "collect"
  BY DEF Collect, Execute
<1>3. Values!Collect
  BY <1>1 DEF Values!Collect, Values!Unreferenced
<1>4. ValuesFit'
  <2>1. ASSUME NEW v \in Vars PROVE val'[v] \in Values0 /\ Cast(v, val'[v]) = val'[v]
    BY <1>1 DEF ValuesFit, Values0, Cast
  <2> QED
    BY <2>1 DEF ValuesFit
<1> QED
  BY <1>2, <1>3, <1>4 DEF Values!Next

\* Every statement maps to a statement about pointers.
LEMMA StatementsImplement ==
    ASSUME HandleInv, ValuesFit, StaticTypesFit, Program = {}, [Next]_vars
    PROVE  [Values!Next]_<<val, stmt>> /\ ValuesFit'
<1>0. val \in [Vars -> Values0]
  BY ValTypes
<1>1. CASE live' = live /\ \E v, w \in Vars :
              \/ RootNew(v, w) \/ RootConvert(v, w) \/ PinNew(v, w) \/ DynPinNew(v, w)
              \/ FieldAssign(v, w) \/ FieldCopy(v, w) \/ DynRootAssign(v, w) \/ DynFieldAssign(v, w)
  <2>1. PICK v \in Vars, w \in Vars :
           (\E g : Execute("copy", v, w, g)) /\ val' = Changed(val, v, Cast(v, val[w]))
    BY <1>1, CopyStatements
  <2> QED
    BY <1>0, <2>1, ValuesCopy
<1>2. CASE live' = live /\ \E v, w \in Vars :
              RootMove(v, w) \/ FieldMoveNew(v, w) \/ FieldMove(v, w) \/ DynRootMove(v, w) \/ DynFieldMove(v, w)
  <2>1. PICK v \in Vars, w \in Vars :
           /\ \E g : Execute("move", v, w, g)
           /\ Cast(v, val[w]) = val[w]
           /\ \E y \in {Null, val[v]} : Cast(w, y) = y /\ val' = Changed(Changed(val, v, val[w]), w, y)
    BY <1>2, MoveStatements
  <2> QED
    BY <1>0, <2>1, ValuesMove
<1>3. CASE live' = live /\ \E v \in Vars :
              \/ RootReset(v) \/ PinEnd(v) \/ FieldReset(v)
              \/ DynRootReset(v) \/ DynFieldReset(v) \/ DynFieldEnd(v)
  <2>1. PICK v \in Vars : (\E g : Execute("reset", v, Null, g)) /\ val' = Changed(val, v, Null)
    BY <1>3, ResetStatements
  <2> QED
    BY <1>0, <2>1, ValuesReset
<1>4. CASE \E v \in Vars, o \in Objects : New(v, o)
  BY <1>4, ValuesNew
<1>5. CASE \E o \in Objects : Collect(o)
  BY <1>5, ValuesCollect
<1>6. CASE UNCHANGED vars
  BY <1>6 DEF vars, ValuesFit
<1>7. ~\E v, w \in Vars : RootAssign(v, w)
  BY DEF RootAssign
<1> QED
  BY <1>1, <1>2, <1>3, <1>4, <1>5, <1>6, <1>7 DEF Next, Statement

\* Handles, pins and fields behave as pointers do: where the static types fit, every
\* statement of gc.h but the flawed ones (Program) has its meaning for the variables.
THEOREM StatementsAreOfPointers ==
    StaticTypesFit /\ Program = {} => (Spec => ImplementsValues)
<1> SUFFICES ASSUME StaticTypesFit, Program = {} PROVE Spec => ImplementsValues
  OBVIOUS
<1>1. Init => Values!Init /\ ValuesFit
  <2>1. Init => Values!Init
    BY DEF Init, Values!Init
  <2>2. Init => ValuesFit
    BY DEF Init, ValuesFit, Values0, Cast
  <2> QED
    BY <2>1, <2>2
<1>2. HandleInv /\ ValuesFit /\ [Next]_vars => [Values!Next]_<<val, stmt>> /\ ValuesFit'
  BY StatementsImplement
<1>3. CarefulProgram
  BY DEF CarefulProgram
<1>4. Spec => []HandleInv
  BY <1>3, HandleInvHolds
<1> QED
  BY <1>1, <1>2, <1>4, PTL DEF Spec, ImplementsValues, Values!Spec

===============================================================================
