-------------------------------- MODULE GCProofs --------------------------------
(***************************************************************************)
(* Proofs about GC.                                                        *)
(***************************************************************************)
EXTENDS GC, FiniteSetTheorems, SequenceTheorems, WellFoundedInduction, TLAPS

-------------------------------------------------------------------------------
(* Root counts, for every program and any number of threads *)

PinLabels  == {"pinLock", "pinCount"}
DropLabels == {"dropTest", "dropLock", "dropCount"}
ListLabels == {"colId", "colNext", "colTry", "colUntry", "colRead", "colFlag", "colRelease",
               "colUpgrade", "findEnter", "findFlag", "findScan", "findDescend", "findLock", "findReturn",
               "findRelease", "desUnregister", "desField", "desReacquire", "desClear", "desRelease",
               "fastNext", "tearLarge"}
Backs == {"colNext", "fastNext", "tearLarge"}

\* The handles that threads have let go of without having counted that yet.
Droppers(o) == {t \in Threads : pc[t] \in DropLabels /\ loc[t].obj = o}

\* The types of what the count is about.
HandleTypes ==
    /\ rootCount \in [Objects -> Nat]
    /\ roots \in [Threads -> [Objects -> 0 .. MaxRoots]]
    /\ roPins \in [Threads -> SUBSET Objects]
    /\ rwPins \in [Threads -> SUBSET Objects]
    /\ allocated \in 0 .. MaxObjects
    /\ pc = [t \in Threads |-> pc[t]]
    /\ loc = [t \in Threads |-> loc[t]]
    /\ col = [t \in Threads |-> col[t]]

\* What a thread's locals are while it pins, drops or walks over a list.
HandleLocals(t) ==
    /\ pc[t] \in PinLabels => /\ loc[t] \in [obj : Born, mode : {"ro", "rw"}]
                              /\ ~Pins(t, loc[t].obj)
    /\ pc[t] \in DropLabels => loc[t] \in [obj : Born, hold : BOOLEAN]
    /\ pc[t] \in ListLabels => "back" \in DOMAIN col[t] /\ col[t].back \in Backs

\* Nobody has a handle to an object that has not been allocated, and it is not registered.
NoHandlesAhead ==
    /\ \A o \in Objects \ Born :
          rootCount[o] = 0 /\ \A t \in Threads : roots[t][o] = 0 /\ ~Pins(t, o)
    /\ lookup \subseteq Born

\* The count is exact at every step once the drops under way are counted as well.
CountsExact ==
    \A o \in Objects :
       rootCount[o] = RootsTo(o) + Cardinality(Pinners(o)) + Cardinality(Droppers(o))

RootInv == HandleTypes /\ (\A t \in Threads : HandleLocals(t)) /\ NoHandlesAhead /\ CountsExact

\* The root handles of object o when the threads have as many as r says.
Held(r, o) == {h \in Threads \X (1 .. MaxRoots) : h[2] <= r[h[1]][o]}

LEMMA FiniteHandles ==
    ASSUME NEW o
    PROVE  /\ \A r : IsFiniteSet(Held(r, o)) /\ Cardinality(Held(r, o)) \in Nat
           /\ IsFiniteSet(Pinners(o)) /\ Cardinality(Pinners(o)) \in Nat
           /\ IsFiniteSet(Droppers(o)) /\ Cardinality(Droppers(o)) \in Nat
<1>1. IsFiniteSet(Threads \X (1 .. MaxRoots))
  <2>1. 1 \in Int /\ MaxRoots \in Int /\ IsFiniteSet(Threads)
    BY GraphAssumption
  <2>2. IsFiniteSet(1 .. MaxRoots)
    BY <2>1, FS_Interval
  <2> QED
    BY <2>1, <2>2, FS_Product
<1>2. \A r : Held(r, o) \in SUBSET (Threads \X (1 .. MaxRoots))
  BY DEF Held
<1>3. Pinners(o) \in SUBSET Threads /\ Droppers(o) \in SUBSET Threads
  BY DEF Pinners, Droppers
<1>4. (\A r : IsFiniteSet(Held(r, o))) /\ IsFiniteSet(Pinners(o)) /\ IsFiniteSet(Droppers(o))
  BY <1>1, <1>2, <1>3, GraphAssumption, FS_Subset
<1> QED
  BY <1>4, FS_CardinalityType

\* r with one more root handle of thread t to object o.
OneMore(r, t, o) == [r EXCEPT ![t][o] = @ + 1]

LEMMA OneMoreHandle ==
    ASSUME NEW r \in [Threads -> [Objects -> 0 .. MaxRoots]], NEW t \in Threads, NEW o \in Objects,
           r[t][o] < MaxRoots,
           NEW q, q = OneMore(r, t, o)
    PROVE  /\ q \in [Threads -> [Objects -> 0 .. MaxRoots]]
           /\ Cardinality(Held(q, o)) = Cardinality(Held(r, o)) + 1
           /\ \A x \in Objects \ {o} : Held(q, x) = Held(r, x)
           /\ q[t][o] = r[t][o] + 1
           /\ \A u \in Threads, x \in Objects : u # t \/ x # o => q[u][x] = r[u][x]
<1>1. r[t][o] \in 0 .. MaxRoots /\ MaxRoots \in Nat /\ r[t][o] + 1 \in 1 .. MaxRoots
  BY GraphAssumption
<1>2. q \in [Threads -> [Objects -> 0 .. MaxRoots]]
  BY <1>1 DEF OneMore
<1>3. /\ q[t][o] = r[t][o] + 1
      /\ \A u \in Threads, x \in Objects : u # t \/ x # o => q[u][x] = r[u][x]
  BY DEF OneMore
<1>4. Held(q, o) = Held(r, o) \cup {<<t, r[t][o] + 1>>}
  <2>1. ASSUME NEW h \in Threads \X (1 .. MaxRoots)
        PROVE  h[2] <= q[h[1]][o] <=> h[2] <= r[h[1]][o] \/ h = <<t, r[t][o] + 1>>
    <3> PICK u \in Threads, n \in 1 .. MaxRoots : h = <<u, n>>
      OBVIOUS
    <3>1. CASE h[1] = t
      <4>1. h[2] \in Nat /\ r[t][o] \in Nat /\ (h = <<t, r[t][o] + 1>> <=> h[2] = r[t][o] + 1)
        BY <3>1, <1>1
      <4>2. q[h[1]][o] = r[t][o] + 1 /\ r[h[1]][o] = r[t][o]
        BY <3>1, <1>3
      <4>3. h[2] <= r[t][o] + 1 <=> h[2] <= r[t][o] \/ h[2] = r[t][o] + 1
        BY <4>1, SMTT(15)
      <4> QED
        BY <4>1, <4>2, <4>3
    <3>2. CASE h[1] # t
      BY <3>2, <1>3
    <3> QED
      BY <3>1, <3>2
  <2>2. <<t, r[t][o] + 1>> \in Threads \X (1 .. MaxRoots)
    BY <1>1
  <2> QED
    BY <2>1, <2>2 DEF Held
<1>5. <<t, r[t][o] + 1>> \notin Held(r, o)
  BY <1>1 DEF Held
<1>6. \A x \in Objects \ {o} : Held(q, x) = Held(r, x)
  BY <1>3 DEF Held
<1>7. Cardinality(Held(q, o)) = Cardinality(Held(r, o)) + 1
  BY FiniteHandles, <1>4, <1>5, FS_AddElement, Zenon
<1> QED
  BY <1>2, <1>3, <1>6, <1>7

\* One more root handle of thread t.
LEMMA RootAdded ==
    ASSUME HandleTypes, NEW t \in Threads, NEW o \in Objects, roots[t][o] < MaxRoots, AddRoot(t, o)
    PROVE  /\ roots' \in [Threads -> [Objects -> 0 .. MaxRoots]]
           /\ RootsTo(o)' = RootsTo(o) + 1
           /\ \A x \in Objects \ {o} : RootsTo(x)' = RootsTo(x)
           /\ \A u \in Threads, x \in Objects : u # t \/ x # o => roots'[u][x] = roots[u][x]
<1>1. \A x : RootsTo(x) = Cardinality(Held(roots, x)) /\ RootsTo(x)' = Cardinality(Held(roots', x))
  BY DEF RootsTo, RootHandles, Held
<1>2. roots \in [Threads -> [Objects -> 0 .. MaxRoots]] /\ roots' = [roots EXCEPT ![t][o] = @ + 1]
  BY DEF HandleTypes, AddRoot
<1>3. PICK q : q = roots'
  OBVIOUS
<1>a. q = OneMore(roots, t, o)
  BY <1>2, <1>3 DEF OneMore
<1>4. /\ q \in [Threads -> [Objects -> 0 .. MaxRoots]]
      /\ Cardinality(Held(q, o)) = Cardinality(Held(roots, o)) + 1
      /\ \A x \in Objects \ {o} : Held(q, x) = Held(roots, x)
      /\ \A u \in Threads, x \in Objects : u # t \/ x # o => q[u][x] = roots[u][x]
  BY <1>2, <1>a, OneMoreHandle
<1> QED
  BY <1>1, <1>3, <1>4

LEMMA RootTakenAway ==
    ASSUME HandleTypes, NEW t \in Threads, NEW o \in Objects, DropRoot(t, o)
    PROVE  /\ roots' \in [Threads -> [Objects -> 0 .. MaxRoots]]
           /\ RootsTo(o) = RootsTo(o)' + 1
           /\ \A x \in Objects \ {o} : RootsTo(x)' = RootsTo(x)
           /\ \A u \in Threads, x \in Objects : u # t \/ x # o => roots'[u][x] = roots[u][x]
<1>0. Owns(t, o) /\ roots' = [roots EXCEPT ![t][o] = @ - 1]
  BY DEF DropRoot
<1>1. \A x : RootsTo(x) = Cardinality(Held(roots, x)) /\ RootsTo(x)' = Cardinality(Held(roots', x))
  BY DEF RootsTo, RootHandles, Held
<1>2. /\ roots \in [Threads -> [Objects -> 0 .. MaxRoots]]
      /\ roots[t][o] \in 1 .. MaxRoots /\ MaxRoots \in Nat
  BY <1>0, GraphAssumption DEF HandleTypes, Owns
<1>3. PICK q : q = roots'
  OBVIOUS
<1>4. q \in [Threads -> [Objects -> 0 .. MaxRoots]] /\ q[t][o] < MaxRoots
  BY <1>2, <1>0, <1>3
<1>5. roots = OneMore(q, t, o)
  <2>1. [q[t] EXCEPT ![o] = @ + 1] = roots[t]
    <3>1. roots[t] \in [Objects -> 0 .. MaxRoots] /\ q[t] = [roots[t] EXCEPT ![o] = @ - 1]
      BY <1>0, <1>2, <1>3
    <3>2. [q[t] EXCEPT ![o] = @ + 1] = [x \in Objects |-> IF x = o THEN roots[t][x] - 1 + 1 ELSE roots[t][x]]
      BY <3>1
    <3>3. \A x \in Objects : roots[t][x] \in Nat
      BY <3>1
    <3> QED
      BY <3>1, <3>2, <3>3
  <2>2. [q EXCEPT ![t][o] = @ + 1] = [q EXCEPT ![t] = roots[t]]
    BY <2>1, Zenon
  <2> QED
    BY <2>2, <1>0, <1>2, <1>3 DEF OneMore
<1>6. /\ Cardinality(Held(roots, o)) = Cardinality(Held(q, o)) + 1
      /\ \A x \in Objects \ {o} : Held(roots, x) = Held(q, x)
      /\ \A u \in Threads, x \in Objects : u # t \/ x # o => roots[u][x] = q[u][x]
  BY <1>4, <1>5, OneMoreHandle
<1> QED
  BY <1>1, <1>3, <1>4, <1>6

\* A root handle goes from one thread to another.
LEMMA RootMoved ==
    ASSUME HandleTypes, NEW t \in Threads, NEW u \in Threads, NEW o \in Objects, MoveRoot(t, u, o)
    PROVE  /\ roots' \in [Threads -> [Objects -> 0 .. MaxRoots]]
           /\ \A x \in Objects : RootsTo(x)' = RootsTo(x)
           /\ \A w \in Threads, x \in Objects \ {o} : roots'[w][x] = roots[w][x]
<1>0. /\ t # u /\ Owns(t, o) /\ roots[u][o] < MaxRoots
      /\ roots' = [roots EXCEPT ![t][o] = @ - 1, ![u][o] = @ + 1]
  BY DEF MoveRoot
<1>1. \A x : RootsTo(x) = Cardinality(Held(roots, x)) /\ RootsTo(x)' = Cardinality(Held(roots', x))
  BY DEF RootsTo, RootHandles, Held
<1>2. /\ roots \in [Threads -> [Objects -> 0 .. MaxRoots]]
      /\ roots[t][o] \in 1 .. MaxRoots /\ MaxRoots \in Nat
  BY <1>0, GraphAssumption DEF HandleTypes, Owns
<1>3. PICK q : q = [roots EXCEPT ![t][o] = @ - 1]
  BY Zenon
<1>4. q \in [Threads -> [Objects -> 0 .. MaxRoots]] /\ q[t][o] < MaxRoots
  BY <1>2, <1>3
<1>5. roots = OneMore(q, t, o)
  <2>1. [q[t] EXCEPT ![o] = @ + 1] = roots[t]
    <3>1. roots[t] \in [Objects -> 0 .. MaxRoots] /\ q[t] = [roots[t] EXCEPT ![o] = @ - 1]
      BY <1>2, <1>3
    <3>2. [q[t] EXCEPT ![o] = @ + 1] = [x \in Objects |-> IF x = o THEN roots[t][x] - 1 + 1 ELSE roots[t][x]]
      BY <3>1
    <3>3. \A x \in Objects : roots[t][x] \in Nat
      BY <3>1
    <3> QED
      BY <3>1, <3>2, <3>3
  <2>2. [q EXCEPT ![t][o] = @ + 1] = [q EXCEPT ![t] = roots[t]]
    BY <2>1, Zenon
  <2> QED
    BY <2>2, <1>2, <1>3 DEF OneMore
<1>6. /\ Cardinality(Held(roots, o)) = Cardinality(Held(q, o)) + 1
      /\ \A x \in Objects \ {o} : Held(roots, x) = Held(q, x)
      /\ \A w \in Threads, x \in Objects : w # t \/ x # o => roots[w][x] = q[w][x]
  BY <1>4, <1>5, OneMoreHandle
<1>7. PICK after : after = roots'
  OBVIOUS
<1>8. after = OneMore(q, u, o) /\ q[u][o] < MaxRoots
  BY <1>2, <1>3, <1>7, <1>0, Zenon DEF OneMore
<1>9. /\ after \in [Threads -> [Objects -> 0 .. MaxRoots]]
      /\ Cardinality(Held(after, o)) = Cardinality(Held(q, o)) + 1
      /\ \A x \in Objects \ {o} : Held(after, x) = Held(q, x)
      /\ \A w \in Threads, x \in Objects : w # u \/ x # o => after[w][x] = q[w][x]
  BY <1>4, <1>8, OneMoreHandle
<1>10. ASSUME NEW x \in Objects PROVE RootsTo(x)' = RootsTo(x)
  BY <1>1, <1>6, <1>7, <1>9
<1>11. \A w \in Threads, x \in Objects \ {o} : roots'[w][x] = roots[w][x]
  BY <1>6, <1>7, <1>9
<1> QED
  BY <1>7, <1>9, <1>10, <1>11

-------------------------------------------------------------------------------

\* A step of thread t leaves the other threads where they are.
Elsewhere(t) ==
    /\ pc' = [pc EXCEPT ![t] = pc'[t]]
    /\ loc' = [loc EXCEPT ![t] = loc'[t]]
    /\ col' = [col EXCEPT ![t] = col'[t]]

Untouched == UNCHANGED <<rootCount, roots, roPins, rwPins, allocated>> /\ lookup' \subseteq lookup

LEMMA OthersKeepLocals ==
    ASSUME RootInv, NEW t \in Threads, Elsewhere(t), NEW u \in Threads \ {t},
           roPins'[u] = roPins[u], rwPins'[u] = rwPins[u],
           allocated' \in Nat, allocated <= allocated'
    PROVE  HandleLocals(u)'
  BY GraphAssumption DEF RootInv, HandleTypes, Elsewhere, Born, HandleLocals, Pins

LEMMA TypesKept ==
    ASSUME RootInv, NEW t \in Threads, Elsewhere(t),
           rootCount' \in [Objects -> Nat], roots' \in [Threads -> [Objects -> 0 .. MaxRoots]],
           roPins' \in [Threads -> SUBSET Objects], rwPins' \in [Threads -> SUBSET Objects],
           allocated' \in 0 .. MaxObjects
    PROVE  HandleTypes'
  BY DEF RootInv, HandleTypes, Elsewhere

LEMMA SameDroppers ==
    ASSUME RootInv, NEW t \in Threads, Elsewhere(t),
           \/ pc[t] \notin DropLabels /\ pc'[t] \notin DropLabels
           \/ pc[t] \in DropLabels /\ pc'[t] \in DropLabels /\ loc'[t].obj = loc[t].obj
    PROVE  \A o : Droppers(o)' = Droppers(o)
  BY ZenonT(30) DEF RootInv, HandleTypes, Elsewhere, Droppers

\* A step that changes no count and no handle.
LEMMA UntrackedStep ==
    ASSUME RootInv, NEW t \in Threads, Elsewhere(t), Untouched, HandleLocals(t)',
           \/ pc[t] \notin DropLabels /\ pc'[t] \notin DropLabels
           \/ pc[t] \in DropLabels /\ pc'[t] \in DropLabels /\ loc'[t].obj = loc[t].obj
    PROVE  RootInv'
<1>1. HandleTypes'
  BY TypesKept, Zenon DEF RootInv, HandleTypes, Untouched
<1>2. ASSUME NEW u \in Threads PROVE HandleLocals(u)'
  BY GraphAssumption, OthersKeepLocals DEF RootInv, HandleTypes, Untouched
<1>3. NoHandlesAhead'
  BY DEF NoHandlesAhead, RootInv, Untouched, Pins, Born
<1>4. CountsExact'
  BY SameDroppers DEF RootsTo, RootHandles, Pinners, Untouched, CountsExact, RootInv
<1> QED
  BY <1>1, <1>2, <1>3, <1>4 DEF RootInv

\* What a step of a collection or of the teardown does to the thread's own place.
AmongLists(t) ==
    /\ Elsewhere(t) /\ Untouched /\ loc' = loc
    /\ pc[t] \in ListLabels \cup {Idle, "tearSever", "tearPages"}
    /\ pc'[t] \in ListLabels \cup {Idle, "tearSever", "tearPages", "down"}
    /\ pc'[t] \in ListLabels => "back" \in DOMAIN col'[t] /\ col'[t].back \in Backs

LEMMA ListStep ==
    ASSUME RootInv, NEW t \in Threads, AmongLists(t)
    PROVE  RootInv'
  BY UntrackedStep DEF AmongLists, ListLabels, DropLabels, PinLabels, Idle, HandleLocals

LEMMA CollectIsAmongLists ==
    ASSUME RootInv, NEW t \in Threads, Collect(t)
    PROVE  AmongLists(t)
<1> USE DEF AmongLists, Elsewhere, Untouched, ListLabels, Backs, Goto, Idle,
            headerVars, lockVars, heapVars, implVars, clientVars, opVars, colVars
<1>0. /\ pc = [u \in Threads |-> pc[u]] /\ loc = [u \in Threads |-> loc[u]]
      /\ col = [u \in Threads |-> col[u]]
      /\ pc[t] \in ListLabels => "back" \in DOMAIN col[t] /\ col[t].back \in Backs
  BY DEF RootInv, HandleTypes, HandleLocals
<1>1. CASE CollectId(t)
  BY <1>1, <1>0, Zenon DEF CollectId
<1>2. CASE CollectEnd(t)
  BY <1>2, <1>0, Zenon DEF CollectEnd, StartCol
<1>3. CASE CollectNext(t)
  <2>1. PICK o : o = allocations[col[t].page][col[t].i]
    OBVIOUS
  <2>2. CASE o \notin lookup /\ col[t].page # Large
    BY <2>1, <2>2, <1>3, <1>0, Zenon DEF CollectNext, StartCol, Abort
  <2>3. CASE (o \in lookup \/ col[t].page = Large) /\ rootCount[o] > 0
    <3>1. col' = [col EXCEPT ![t] = [col[t] EXCEPT !.i = @ + 1]]
      BY <2>1, <2>3, <1>3, Zenon DEF CollectNext
    <3>2. col'[t] = [col[t] EXCEPT !.i = @ + 1]
      BY <3>1, <1>0
    <3>3. "back" \in DOMAIN col[t] /\ col[t].back \in Backs
      BY <1>3, <1>0, Zenon DEF CollectNext
    <3>4. "back" \in DOMAIN col'[t] /\ col'[t].back \in Backs
      BY <3>2, <3>3
    <3>5. pc[t] = "colNext" /\ pc' = pc /\ col' = [col EXCEPT ![t] = col'[t]]
      BY <2>1, <2>3, <1>3, <3>1, <3>2, Zenon DEF CollectNext
    <3> QED
      BY <3>4, <3>5, <1>3, <1>0, Zenon DEF CollectNext
  <2>4. CASE (o \in lookup \/ col[t].page = Large) /\ ~(rootCount[o] > 0)
    <3>1. pc[t] = "colNext" /\ StartCol(t, "colTry", [col[t] EXCEPT !.obj = o]) /\ Untouched /\ loc' = loc
      BY <2>1, <2>4, <1>3, Zenon DEF CollectNext
    <3> QED
      BY <3>1, <1>0, Zenon DEF StartCol
  <2> QED
    BY <2>2, <2>3, <2>4
<1>4. CASE CollectTry(t)
  <2>1. CASE word[Candidate(t)] = Free
    BY <2>1, <1>4, <1>0, Zenon DEF CollectTry
  <2>2. CASE word[Candidate(t)] # Free
    <3>1. pc[t] = "colTry" /\ NextCandidate(t) /\ Untouched /\ loc' = loc
      BY <2>2, <1>4 DEF CollectTry
    <3> QED
      BY <3>1, <1>0, Zenon DEF StartCol, NextCandidate
  <2> QED
    BY <2>1, <2>2
<1>5. CASE CollectUntry(t)
  BY <1>5, <1>0, Zenon DEF CollectUntry
<1>6. CASE CollectRead(t)
  BY <1>6, <1>0, Zenon DEF CollectRead, StartCol, NextCandidate
<1>7. CASE CollectFlag(t)
  BY <1>7, <1>0, Zenon DEF CollectFlag
<1>8. CASE CollectRelease(t)
  BY <1>8, <1>0, Zenon DEF CollectRelease, StartCol, NextCandidate
<1>9. CASE CollectUpgrade(t)
  BY <1>9, <1>0, Zenon DEF CollectUpgrade, StartCol, Abort
<1>10. CASE FindEnter(t)
  BY <1>10, <1>0 DEF FindEnter, StartCol, FindReturns
<1>11. CASE FindFlag(t)
  BY <1>11, <1>0 DEF FindFlag, StartCol, FindReturns
<1>12. CASE FindScan(t)
  BY <1>12, <1>0 DEF FindScan, StartCol, FindReturns
<1>13. CASE FindDescend(t)
  BY <1>13, <1>0, Zenon DEF FindDescend
<1>14. CASE FindReturn(t)
  BY <1>14, <1>0, Zenon DEF FindReturn
<1>21. CASE FindLock(t)
  BY <1>21, <1>0 DEF FindLock, StartCol, FindReturns
<1>22. CASE FindRelease(t)
  BY <1>22, <1>0, Zenon DEF FindRelease
<1>15. CASE DestroyUnregister(t)
  BY <1>15, <1>0, Zenon DEF DestroyUnregister
<1>16. CASE DestroyField(t)
  BY <1>16, <1>0 DEF DestroyField
<1>17. CASE DestroyReacquire(t)
  BY <1>17, <1>0, Zenon DEF DestroyReacquire
<1>18. CASE DestroyClear(t)
  BY <1>18, <1>0, Zenon DEF DestroyClear, StartCol, Abort
<1>19. CASE DestroyRelease(t)
  BY <1>19, <1>0, Zenon DEF DestroyRelease, StartCol
<1>20. CASE DestroyFree(t)
  BY <1>20, <1>0, Zenon DEF DestroyFree, StartCol
<1> QED
  BY <1>1, <1>2, <1>3, <1>4, <1>5, <1>6, <1>7, <1>8, <1>9, <1>10, <1>11, <1>12,
     <1>13, <1>14, <1>15, <1>16, <1>17, <1>18, <1>19, <1>20, <1>21, <1>22
  DEF Collect, Find, DestroyObject

\* The other walks over lists, and the steps that begin one.
LEMMA WalkIsAmongLists ==
    ASSUME RootInv, NEW t \in Threads,
           \/ FastNext(t) \/ TearDown(t) \/ NewLarge(t) \/ Destroy(t)
           \/ FastEnd(t) /\ UNCHANGED <<rootCount, heapVars, roots>>
           \/ \E p \in Lists : CollectBegin(t, p)
    PROVE  AmongLists(t)
<1> USE DEF AmongLists, Elsewhere, Untouched, ListLabels, Backs, Goto, Idle, StartCol, Walk,
            headerVars, lockVars, heapVars, implVars, clientVars, opVars, colVars
<1>0. /\ pc = [u \in Threads |-> pc[u]] /\ loc = [u \in Threads |-> loc[u]]
      /\ col = [u \in Threads |-> col[u]]
      /\ pc[t] \in ListLabels => "back" \in DOMAIN col[t] /\ col[t].back \in Backs
  BY DEF RootInv, HandleTypes, HandleLocals
<1>1. CASE FastNext(t)
  <2>1. PICK o : o = allocations[Large][col[t].i]
    OBVIOUS
  <2>2. CASE o \notin garbage
    <3>1. /\ col'[t] = [col[t] EXCEPT !.i = @ + 1]
          /\ pc[t] = "fastNext" /\ pc' = pc /\ col' = [col EXCEPT ![t] = col'[t]]
      BY <2>1, <2>2, <1>1, <1>0 DEF FastNext
    <3>2. "back" \in DOMAIN col'[t] /\ col'[t].back \in Backs
      BY <3>1, <1>0
    <3> QED
      BY <3>1, <3>2, <1>1, <1>0, Zenon DEF FastNext
  <2>3. CASE o \in garbage
    <3>1. pc[t] = "fastNext" /\ Untouched /\ loc' = loc
      BY <2>1, <2>3, <1>1, Zenon DEF FastNext
    <3>2. StartCol(t, "desUnregister", [col[t] EXCEPT !.obj = o]) \/ StartCol(t, Idle, NoLocals)
      BY <2>1, <2>3, <1>1, Zenon DEF FastNext, Abort
    <3> QED
      BY <3>1, <3>2, <1>0
  <2> QED
    BY <2>2, <2>3
<1>2. CASE FastEnd(t) /\ UNCHANGED <<rootCount, heapVars, roots>>
  BY <1>2, <1>0, Zenon DEF FastEnd
<1>3. CASE TearSever(t)
  BY <1>3, <1>0, Zenon DEF TearSever
<1>4. CASE TearPages(t)
  BY <1>4, <1>0, Zenon DEF TearPages
<1>5. CASE TearPagesEnd(t)
  BY <1>5, <1>0 DEF TearPagesEnd
<1>6. CASE TearLarge(t)
  BY <1>6, <1>0 DEF TearLarge
<1>7. CASE NewLarge(t)
  BY <1>7, <1>0, Zenon DEF NewLarge
<1>8. CASE Destroy(t)
  BY <1>8, <1>0, Zenon DEF Destroy
<1>9. CASE \E p \in Lists : CollectBegin(t, p)
  <2>1. PICK p \in Lists : CollectBegin(t, p)
    BY <1>9
  <2> QED
    BY <2>1, <1>0, Zenon DEF CollectBegin
<1> QED
  BY <1>1, <1>2, <1>3, <1>4, <1>5, <1>6, <1>7, <1>8, <1>9 DEF TearDown

\* Assigning to a field, and what comes after a count: no handle and no count changes.
LEMMA PlainStep ==
    ASSUME RootInv, NEW t \in Threads,
           \/ Assign(t) \/ DropFlag(t) \/ DropRelease(t)
           \/ \E p \in Objects, s \in Slots, x \in {Null} \cup Objects : SetField(t, p, s, x)
    PROVE  RootInv'
<1> DEFINE Fine == /\ Elsewhere(t) /\ Untouched
                   /\ pc[t] \notin DropLabels
                   /\ pc'[t] \notin DropLabels \cup PinLabels \cup ListLabels
<1>0. /\ pc = [u \in Threads |-> pc[u]] /\ loc = [u \in Threads |-> loc[u]]
      /\ col = [u \in Threads |-> col[u]]
  BY DEF RootInv, HandleTypes
<1>1. SUFFICES Fine
  BY <1>1, UntrackedStep DEF HandleLocals
<1> USE DEF Elsewhere, Untouched, ListLabels, DropLabels, PinLabels, Goto, Idle, StartOp, EndOp,
            headerVars, lockVars, heapVars, implVars, clientVars, opVars, colVars
<1>2. CASE DropFlag(t)
  BY <1>2, <1>0 DEF DropFlag, AfterDrop
<1>3. CASE DropRelease(t)
  BY <1>3, <1>0 DEF DropRelease
<1>4. ASSUME NEW p \in Objects, NEW s \in Slots, NEW x \in {Null} \cup Objects, SetField(t, p, s, x)
      PROVE  Fine
  BY <1>4, <1>0 DEF SetField
<1>5. CASE SetUpgrade(t)
  BY <1>5, <1>0, Zenon DEF SetUpgrade
<1>6. CASE SetCheck(t)
  <2>1. PICK old : old = field[loc[t].obj][loc[t].slot]
    OBVIOUS
  <2>2. pc[t] = "setCheck" /\ Untouched /\ col' = col
    BY <1>6 DEF SetCheck
  <2>3. CASE old = loc[t].new \/ Refused(t)
    BY <2>1, <2>2, <2>3, <1>6, <1>0 DEF SetCheck, Leave
  <2>4. CASE ~(old = loc[t].new \/ Refused(t))
    BY <2>1, <2>4, <1>6, <2>2, <1>0 DEF SetCheck, OldValueLabel
  <2> QED
    BY <2>3, <2>4
<1>7. CASE SetNewLock(t)
  BY <1>7, <1>0 DEF SetNewLock
<1>8. CASE SetAdd(t)
  BY <1>8, <1>0 DEF SetAdd, OldValueLabel
<1>9. CASE SetOldLock(t)
  BY <1>9, <1>0 DEF SetOldLock
<1>10. CASE SetRemove(t)
  BY <1>10, <1>0, Zenon DEF SetRemove, Leave
<1>11. CASE SetOldRelease(t)
  BY <1>11, <1>0 DEF SetOldRelease
<1>12. CASE SetStore(t)
  BY <1>12, <1>0 DEF SetStore, Leave
<1>13. CASE SetDowngrade(t)
  BY <1>13, <1>0 DEF SetDowngrade
<1> QED
  BY <1>2, <1>3, <1>4, <1>5, <1>6, <1>7, <1>8, <1>9, <1>10, <1>11, <1>12, <1>13 DEF Assign

\* Taking a lock for a pin, and the tests and locks before a count.
LEMMA PinStep ==
    ASSUME RootInv, NEW t \in Threads,
           \/ PinLock(t) \/ DropTest(t) \/ DropLockObject(t)
           \/ \E o \in Born : Pin(t, o, "ro") \/ Pin(t, o, "rw")
    PROVE  RootInv'
<1> USE DEF Elsewhere, Untouched, ListLabels, DropLabels, PinLabels, Goto, Idle, StartOp,
            headerVars, lockVars, heapVars, implVars, clientVars, opVars, colVars
<1>0. /\ pc = [u \in Threads |-> pc[u]] /\ loc = [u \in Threads |-> loc[u]]
      /\ col = [u \in Threads |-> col[u]] /\ HandleLocals(t)
  BY DEF RootInv, HandleTypes
<1>1. CASE PinLock(t)
  BY <1>1, <1>0, UntrackedStep, Zenon DEF PinLock, HandleLocals, Born, Pins
<1>2. CASE DropTest(t)
  BY <1>2, <1>0, UntrackedStep, Zenon DEF DropTest, HandleLocals, Born, Pins
<1>3. CASE DropLockObject(t)
  BY <1>3, <1>0, UntrackedStep, Zenon DEF DropLockObject, HandleLocals, Born, Pins
<1>4. ASSUME NEW o \in Born, NEW mode \in {"ro", "rw"}, Pin(t, o, mode)
      PROVE  RootInv'
  BY <1>4, <1>0, UntrackedStep, Zenon DEF Pin, Pins, HandleLocals, Born
<1> QED
  BY <1>1, <1>2, <1>3, <1>4

\* An object is new: nobody had a handle to it, and now one thread has.
LEMMA NewObjectStep ==
    ASSUME RootInv, NEW t \in Threads, allocated + 1 \in Objects,
           allocated' = allocated + 1, RegisterObject(allocated + 1), AddRoot(t, allocated + 1),
           UNCHANGED <<roPins, rwPins>>, Elsewhere(t), HandleLocals(t)',
           pc[t] \notin DropLabels, pc'[t] \notin DropLabels
    PROVE  RootInv'
<1>1. PICK o \in Objects : o = allocated + 1
  OBVIOUS
<1>2. /\ HandleTypes /\ allocated \in Nat /\ o \notin Born /\ Born' = Born \cup {o}
      /\ allocated' \in 0 .. MaxObjects
  <2>1. HandleTypes /\ allocated \in 0 .. MaxObjects
    BY DEF RootInv, HandleTypes
  <2>2. allocated \in Nat /\ MaxObjects \in Nat /\ o \in 1 .. MaxObjects
    BY <2>1, GraphAssumption DEF Objects
  <2>3. o \notin 1 .. allocated /\ 1 .. allocated + 1 = (1 .. allocated) \cup {o}
    BY <1>1, <2>2
  <2>4. allocated' \in 0 .. MaxObjects
    BY <1>1, <2>2
  <2> QED
    BY <2>1, <2>2, <2>3, <2>4 DEF Born
<1>3. rootCount[o] = 0 /\ \A u \in Threads : roots[u][o] = 0 /\ ~Pins(u, o)
  BY <1>2 DEF RootInv, NoHandlesAhead
<1>4. /\ roots' \in [Threads -> [Objects -> 0 .. MaxRoots]]
      /\ RootsTo(o)' = RootsTo(o) + 1
      /\ \A x \in Objects \ {o} : RootsTo(x)' = RootsTo(x)
      /\ \A u \in Threads, x \in Objects : u # t \/ x # o => roots'[u][x] = roots[u][x]
  BY <1>3, GraphAssumption, <1>1, <1>2, RootAdded
<1>5. rootCount' \in [Objects -> Nat]
      /\ rootCount'[o] = 1 /\ \A x \in Objects \ {o} : rootCount'[x] = rootCount[x]
  BY <1>1, <1>2 DEF RegisterObject, HandleTypes
<1>6. HandleTypes'
  BY <1>2, <1>4, <1>5, TypesKept, Zenon DEF HandleTypes
<1>7. ASSUME NEW u \in Threads PROVE HandleLocals(u)'
  BY <1>2, OthersKeepLocals
<1>8. NoHandlesAhead'
  BY <1>1, <1>2, <1>4, <1>5 DEF RegisterObject, NoHandlesAhead, RootInv, Pins
<1>9. CountsExact'
  <2>1. \A x : Droppers(x)' = Droppers(x)
    BY SameDroppers
  <2>2. \A x : Pinners(x)' = Pinners(x)
    BY DEF Pinners
  <2>3. \A x \in Objects \ {o} : rootCount'[x] = RootsTo(x)' + Cardinality(Pinners(x)') + Cardinality(Droppers(x)')
    BY <2>1, <2>2, <1>4, <1>5 DEF RootInv, CountsExact
  <2>4. rootCount[o] = RootsTo(o) + Cardinality(Pinners(o)) + Cardinality(Droppers(o))
    BY DEF RootInv, CountsExact
  <2>5. RootsTo(o) \in Nat /\ Cardinality(Pinners(o)) \in Nat /\ Cardinality(Droppers(o)) \in Nat
    BY FiniteHandles, Zenon DEF RootsTo, RootHandles, Held
  <2>6. rootCount'[o] = RootsTo(o)' + Cardinality(Pinners(o)') + Cardinality(Droppers(o)')
    <3>1. RootsTo(o) = 0 /\ Cardinality(Pinners(o)) = 0 /\ Cardinality(Droppers(o)) = 0
      BY <2>4, <2>5, <1>3
    <3> QED
      BY <3>1, <2>1, <2>2, <1>4, <1>5
  <2> QED
    BY <2>3, <2>6 DEF CountsExact
<1> QED
  BY <1>6, <1>7, <1>8, <1>9 DEF RootInv

LEMMA NewStep ==
    ASSUME RootInv, NEW t \in Threads, New(t) \/ FastEnd(t)
    PROVE  RootInv'
<1> USE DEF ListLabels, DropLabels, PinLabels, Idle
<1>0. /\ pc = [u \in Threads |-> pc[u]] /\ loc = [u \in Threads |-> loc[u]]
      /\ col = [u \in Threads |-> col[u]] /\ allocated \in Nat
  BY DEF RootInv, HandleTypes
<1>1. CASE New(t)
  <2>1. /\ pc' = pc /\ loc' = loc /\ col' = col /\ pc[t] = Idle
        /\ allocated < MaxObjects /\ allocated' = allocated + 1
        /\ RegisterObject(allocated + 1) /\ AddRoot(t, allocated + 1) /\ UNCHANGED <<roPins, rwPins>>
    BY <1>1 DEF New, opVars, colVars
  <2>2. Elsewhere(t) /\ HandleLocals(t)'
    BY <2>1, <1>0, Zenon DEF Elsewhere, HandleLocals
  <2>3. allocated + 1 \in Objects
    BY <2>1, <1>0, GraphAssumption DEF Objects
  <2> QED
    BY <2>1, <2>2, <2>3, NewObjectStep
<1>2. CASE FastEnd(t) /\ UNCHANGED <<rootCount, heapVars, roots>>
  BY <1>2, WalkIsAmongLists, ListStep
<1>3. CASE FastEnd(t) /\ ~UNCHANGED <<rootCount, heapVars, roots>>
  BY <1>3, <1>0, GraphAssumption, NewObjectStep, Zenon
 DEF FastEnd, opVars, StartCol, Goto, Elsewhere, HandleLocals
<1> QED
  BY <1>1, <1>2, <1>3

\* The three parts of the count after a step, from those before it.
LEMMA CountsKept ==
    ASSUME RootInv, NEW o \in Objects, rootCount' \in [Objects -> Nat],
           \A x \in Objects \ {o} : /\ rootCount'[x] = rootCount[x] /\ RootsTo(x)' = RootsTo(x)
                                    /\ Pinners(x)' = Pinners(x) /\ Droppers(x)' = Droppers(x),
           rootCount'[o] + RootsTo(o) + Cardinality(Pinners(o)) + Cardinality(Droppers(o))
             = rootCount[o] + RootsTo(o)' + Cardinality(Pinners(o)') + Cardinality(Droppers(o)'),
           RootsTo(o)' \in Nat, Cardinality(Pinners(o)') \in Nat, Cardinality(Droppers(o)') \in Nat
    PROVE  CountsExact'
<1>1. ASSUME NEW x \in Objects \ {o}
      PROVE  rootCount'[x] = RootsTo(x)' + Cardinality(Pinners(x)') + Cardinality(Droppers(x)')
  BY DEF RootInv, CountsExact
<1>2. rootCount[o] = RootsTo(o) + Cardinality(Pinners(o)) + Cardinality(Droppers(o))
  BY DEF RootInv, CountsExact
<1>3. /\ RootsTo(o) \in Nat /\ Cardinality(Pinners(o)) \in Nat /\ Cardinality(Droppers(o)) \in Nat
  BY FiniteHandles, Zenon DEF RootsTo, RootHandles, Held
<1>4. rootCount'[o] \in Nat /\ rootCount[o] \in Nat
  BY DEF RootInv, HandleTypes
<1>5. PICK n \in Nat, a \in Nat, b \in Nat, c \in Nat : n = rootCount[o] /\ a = RootsTo(o)
              /\ b = Cardinality(Pinners(o)) /\ c = Cardinality(Droppers(o))
  BY <1>3, <1>4
<1>6. PICK m \in Nat, d \in Nat, e \in Nat, f \in Nat : m = rootCount'[o] /\ d = RootsTo(o)'
              /\ e = Cardinality(Pinners(o)') /\ f = Cardinality(Droppers(o)')
  BY <1>4
<1>7. n = a + b + c /\ m + a + b + c = n + d + e + f
  BY <1>2, <1>5, <1>6
<1>8. m = d + e + f
  BY <1>7
<1> QED
  BY <1>1, <1>6, <1>8, Zenon DEF CountsExact

LEMMA CopyRootStep ==
    ASSUME RootInv, NEW t \in Threads, NEW o \in Born, CopyRoot(t, o)
    PROVE  RootInv'
<1>1. /\ HandleTypes /\ o \in Objects /\ allocated \in Nat /\ rootCount[o] \in Nat
      /\ pc = [u \in Threads |-> pc[u]] /\ loc = [u \in Threads |-> loc[u]]
      /\ col = [u \in Threads |-> col[u]]
  BY GraphAssumption DEF RootInv, HandleTypes, Born, Objects
<1>2. /\ roots[t][o] < MaxRoots /\ CountRoot(o) /\ AddRoot(t, o) /\ allocated' = allocated /\ lookup' = lookup
      /\ roPins' = roPins /\ rwPins' = rwPins
      /\ pc' = pc /\ loc' = loc /\ col' = col /\ pc[t] = Idle
  BY DEF CopyRoot, heapVars, opVars, colVars
<1>3. Elsewhere(t) /\ HandleLocals(t)'
  BY <1>1, <1>2, Zenon DEF Elsewhere, HandleLocals, PinLabels, DropLabels, ListLabels, Idle
<1>4. /\ rootCount' \in [Objects -> Nat] /\ rootCount'[o] = rootCount[o] + 1
      /\ \A x \in Objects \ {o} : rootCount'[x] = rootCount[x]
  BY <1>1, <1>2 DEF CountRoot, HandleTypes
<1>5. /\ roots' \in [Threads -> [Objects -> 0 .. MaxRoots]]
      /\ RootsTo(o)' = RootsTo(o) + 1
      /\ \A x \in Objects \ {o} : RootsTo(x)' = RootsTo(x)
      /\ \A u \in Threads, x \in Objects : u # t \/ x # o => roots'[u][x] = roots[u][x]
  BY <1>1, <1>2, RootAdded
<1>6. HandleTypes'
  BY <1>1, <1>2, <1>3, <1>4, <1>5, TypesKept DEF HandleTypes
<1>7. ASSUME NEW u \in Threads PROVE HandleLocals(u)'
  BY <1>1, <1>2, <1>3, OthersKeepLocals
<1>8. NoHandlesAhead'
  BY <1>2, <1>4, <1>5 DEF NoHandlesAhead, RootInv, Pins, Born
<1>9. CountsExact'
  <2>1. (\A x : Pinners(x)' = Pinners(x)) /\ (\A x : Droppers(x)' = Droppers(x))
    BY <1>2 DEF Pinners, Droppers
  <2>2. /\ RootsTo(o) \in Nat /\ Cardinality(Pinners(o)) \in Nat /\ Cardinality(Droppers(o)) \in Nat
    BY FiniteHandles, Zenon DEF RootsTo, RootHandles, Held
  <2> QED
    <3>1. rootCount'[o] + RootsTo(o) + Cardinality(Pinners(o)) + Cardinality(Droppers(o))
            = rootCount[o] + RootsTo(o)' + Cardinality(Pinners(o)') + Cardinality(Droppers(o)')
      <4>1. PICK n \in Nat, a \in Nat, b \in Nat, c \in Nat :
               /\ n = rootCount[o] /\ a = RootsTo(o)
               /\ b = Cardinality(Pinners(o)) /\ c = Cardinality(Droppers(o))
        BY <2>2, <1>1
      <4>2. /\ rootCount'[o] = n + 1 /\ RootsTo(o)' = a + 1
            /\ Cardinality(Pinners(o)') = b /\ Cardinality(Droppers(o)') = c
        BY <4>1, <2>1, <1>4, <1>5
      <4> QED
        BY <4>1, <4>2
    <3>2. \A x \in Objects \ {o} : /\ rootCount'[x] = rootCount[x] /\ RootsTo(x)' = RootsTo(x)
                                  /\ Pinners(x)' = Pinners(x) /\ Droppers(x)' = Droppers(x)
      BY <2>1, <1>4, <1>5
    <3>3. /\ RootsTo(o)' \in Nat /\ Cardinality(Pinners(o)') \in Nat
          /\ Cardinality(Droppers(o)') \in Nat
      BY <2>1, <2>2, <1>5
    <3> QED
      BY <3>1, <3>2, <3>3, <1>1, <1>4, CountsKept
<1> QED
  BY <1>6, <1>7, <1>8, <1>9 DEF RootInv

LEMMA MoveRootStep ==
    ASSUME RootInv, NEW t \in Threads, NEW u \in Threads, NEW o \in Born, MoveRoot(t, u, o)
    PROVE  RootInv'
<1>1. /\ HandleTypes /\ o \in Objects /\ allocated \in Nat /\ rootCount[o] \in Nat
      /\ pc = [w \in Threads |-> pc[w]] /\ loc = [w \in Threads |-> loc[w]]
      /\ col = [w \in Threads |-> col[w]]
  BY GraphAssumption DEF RootInv, HandleTypes, Born, Objects
<1>2. /\ t # u /\ Owns(t, o) /\ roots[u][o] < MaxRoots
      /\ roots' = [roots EXCEPT ![t][o] = @ - 1, ![u][o] = @ + 1]
      /\ rootCount' = rootCount /\ allocated' = allocated /\ lookup' = lookup
      /\ roPins' = roPins /\ rwPins' = rwPins
      /\ pc' = pc /\ loc' = loc /\ col' = col /\ pc[t] = Idle
  BY DEF MoveRoot, heapVars, opVars, colVars, headerVars
<1>3. Elsewhere(t) /\ HandleLocals(t)'
  BY <1>1, <1>2, Zenon DEF Elsewhere, HandleLocals, PinLabels, DropLabels, ListLabels, Idle
<1>4. /\ roots' \in [Threads -> [Objects -> 0 .. MaxRoots]]
      /\ \A x \in Objects : RootsTo(x)' = RootsTo(x)
      /\ \A w \in Threads, x \in Objects \ {o} : roots'[w][x] = roots[w][x]
  BY <1>1, RootMoved
<1>5. HandleTypes'
  BY <1>1, <1>2, <1>3, <1>4, TypesKept, Zenon DEF HandleTypes
<1>6. ASSUME NEW w \in Threads PROVE HandleLocals(w)'
  BY <1>1, <1>2, <1>3, OthersKeepLocals
<1>7. NoHandlesAhead'
  <2>1. Born' = Born /\ lookup' \subseteq Born' /\ NoHandlesAhead
    BY <1>2 DEF NoHandlesAhead, RootInv, Born
  <2>2. ASSUME NEW x \in Objects \ Born
        PROVE  rootCount'[x] = 0 /\ \A w \in Threads : roots'[w][x] = 0 /\ ~Pins(w, x)'
    BY <2>1, <1>4, <1>2, Zenon DEF NoHandlesAhead, Pins
  <2> QED
    BY <2>1, <2>2 DEF NoHandlesAhead
<1>8. CountsExact'
  BY <1>2, <1>4 DEF Pinners, Droppers, CountsExact, RootInv
<1> QED
  BY <1>5, <1>6, <1>7, <1>8 DEF RootInv

LEMMA PinCountStep ==
    ASSUME RootInv, NEW t \in Threads, PinCount(t)
    PROVE  RootInv'
<1>1. /\ HandleTypes /\ HandleLocals(t) /\ allocated \in Nat
      /\ pc = [u \in Threads |-> pc[u]] /\ loc = [u \in Threads |-> loc[u]]
      /\ col = [u \in Threads |-> col[u]]
  BY DEF RootInv, HandleTypes
<1>2. PICK o \in Born : o = loc[t].obj /\ ~Pins(t, o)
  BY <1>1 DEF HandleLocals, PinCount, PinLabels
<1>3. o \in Objects
  BY <1>1, <1>2, GraphAssumption DEF HandleTypes, Born, Objects
<1>4. /\ CountRoot(o) /\ roots' = roots /\ allocated' = allocated /\ lookup' = lookup
      /\ pc' = [pc EXCEPT ![t] = Idle] /\ loc' = [loc EXCEPT ![t] = NoLocals]
      /\ col' = col /\ pc[t] = "pinCount"
      /\ \/ rwPins' = [rwPins EXCEPT ![t] = @ \cup {o}] /\ roPins' = roPins
         \/ roPins' = [roPins EXCEPT ![t] = @ \cup {o}] /\ rwPins' = rwPins
  BY <1>2 DEF PinCount, EndOp, StartOp, Goto, heapVars, colVars
<1>5. Elsewhere(t) /\ HandleLocals(t)' /\ pc'[t] = Idle
  BY <1>1, <1>4 DEF Elsewhere, HandleLocals, PinLabels, DropLabels, ListLabels, Idle
<1>6. /\ rootCount' \in [Objects -> Nat] /\ rootCount'[o] = rootCount[o] + 1
      /\ \A x \in Objects \ {o} : rootCount'[x] = rootCount[x]
  BY <1>1, <1>3, <1>4 DEF CountRoot, HandleTypes
<1>7. /\ roPins' \in [Threads -> SUBSET Objects] /\ rwPins' \in [Threads -> SUBSET Objects]
      /\ \A u \in Threads \ {t} : roPins'[u] = roPins[u] /\ rwPins'[u] = rwPins[u]
      /\ roPins'[t] \cup rwPins'[t] = roPins[t] \cup rwPins[t] \cup {o}
  <2>1. roPins \in [Threads -> SUBSET Objects] /\ rwPins \in [Threads -> SUBSET Objects]
    BY <1>1 DEF HandleTypes
  <2>2. CASE rwPins' = [rwPins EXCEPT ![t] = @ \cup {o}] /\ roPins' = roPins
    BY <2>1, <2>2, <1>3
  <2>3. CASE roPins' = [roPins EXCEPT ![t] = @ \cup {o}] /\ rwPins' = rwPins
    BY <2>1, <2>3, <1>3
  <2> QED
    BY <2>2, <2>3, <1>4
<1>8. HandleTypes'
  BY <1>1, <1>4, <1>5, <1>6, <1>7, TypesKept, Zenon DEF HandleTypes
<1>9. ASSUME NEW u \in Threads PROVE HandleLocals(u)'
  BY <1>1, <1>4, <1>5, <1>7, OthersKeepLocals
<1>10. NoHandlesAhead'
  BY <1>2, <1>4, <1>6, <1>7 DEF NoHandlesAhead, RootInv, Pins, Born
<1>11. CountsExact'
  <2>1. \A x : Droppers(x)' = Droppers(x)
    BY <1>4, <1>5, SameDroppers DEF DropLabels, Idle
  <2>2. \A x \in Objects \ {o} : Pinners(x)' = Pinners(x)
    BY <1>7 DEF Pinners
  <2>3. Pinners(o)' = Pinners(o) \cup {t} /\ t \notin Pinners(o)
    BY <1>2, <1>7 DEF Pinners, Pins
  <2>4. /\ RootsTo(o) \in Nat /\ IsFiniteSet(Pinners(o)) /\ Cardinality(Pinners(o)) \in Nat
        /\ Cardinality(Droppers(o)) \in Nat
    BY FiniteHandles, Zenon DEF RootsTo, RootHandles, Held
  <2>5. Cardinality(Pinners(o)') = Cardinality(Pinners(o)) + 1
    BY <2>3, <2>4, FS_AddElement, Zenon
  <2>6. \A x : RootsTo(x)' = RootsTo(x)
    BY <1>4 DEF RootsTo, RootHandles
  <2>7. rootCount[o] \in Nat
    BY <1>1, <1>3 DEF HandleTypes
  <2> QED
    BY <2>1, <2>2, <2>4, <2>5, <2>6, <2>7, <1>3, <1>6, CountsKept
<1> QED
  BY <1>8, <1>9, <1>10, <1>11 DEF RootInv

\* A handle, root handle or pin, becomes a drop.
LEMMA LetGoStep ==
    ASSUME RootInv, NEW t \in Threads, NEW o \in Born, DropRoot(t, o) \/ Unpin(t, o)
    PROVE  RootInv'
<1>1. /\ HandleTypes /\ o \in Objects /\ allocated \in Nat
      /\ pc = [u \in Threads |-> pc[u]] /\ loc = [u \in Threads |-> loc[u]]
      /\ col = [u \in Threads |-> col[u]]
      /\ roPins \in [Threads -> SUBSET Objects] /\ rwPins \in [Threads -> SUBSET Objects]
  BY GraphAssumption DEF RootInv, HandleTypes, Born, Objects
<1>2. /\ rootCount' = rootCount /\ allocated' = allocated /\ lookup' = lookup /\ pc[t] = Idle
      /\ pc' = [pc EXCEPT ![t] = "dropTest"]
      /\ loc' = [loc EXCEPT ![t] = [obj |-> o, hold |-> FALSE]] /\ col' = col
  BY DEF DropRoot, Unpin, StartOp, Goto, heapVars, headerVars, colVars
<1>3. Elsewhere(t) /\ HandleLocals(t)'
  BY <1>1, <1>2 DEF Elsewhere, HandleLocals, PinLabels, DropLabels, ListLabels, Born
<1>4. /\ Droppers(o)' = Droppers(o) \cup {t} /\ t \notin Droppers(o)
      /\ \A x \in Objects \ {o} : Droppers(x)' = Droppers(x)
  BY <1>1, <1>2 DEF DropLabels, Idle, Droppers
<1>5. /\ \A x : IsFiniteSet(Droppers(x)) /\ Cardinality(Droppers(x)) \in Nat
      /\ \A x : RootsTo(x) \in Nat /\ IsFiniteSet(Pinners(x)) /\ Cardinality(Pinners(x)) \in Nat
  BY FiniteHandles, Zenon DEF RootsTo, RootHandles, Held
<1>6. Cardinality(Droppers(o)') = Cardinality(Droppers(o)) + 1
  BY <1>4, <1>5, FS_AddElement, Zenon
<1>7. PICK n \in Nat, a \in Nat, b \in Nat, c \in Nat :
         /\ n = rootCount[o] /\ a = RootsTo(o)
         /\ b = Cardinality(Pinners(o)) /\ c = Cardinality(Droppers(o))
  BY <1>1, <1>5 DEF HandleTypes
<1>8. rootCount' \in [Objects -> Nat] /\ rootCount'[o] = n /\ Cardinality(Droppers(o)') = c + 1
  BY <1>1, <1>2, <1>6, <1>7 DEF HandleTypes
<1>9. CASE DropRoot(t, o)
  <2>1. roPins' = roPins /\ rwPins' = rwPins
    BY <1>9 DEF DropRoot
  <2>2. /\ roots' \in [Threads -> [Objects -> 0 .. MaxRoots]]
        /\ RootsTo(o) = RootsTo(o)' + 1
        /\ \A x \in Objects \ {o} : RootsTo(x)' = RootsTo(x)
        /\ \A u \in Threads, x \in Objects : u # t \/ x # o => roots'[u][x] = roots[u][x]
    BY <1>1, <1>9, RootTakenAway
  <2>3. HandleTypes'
    BY <1>1, <1>2, <1>3, <1>8, <2>1, <2>2, TypesKept, Zenon DEF HandleTypes
  <2>4. ASSUME NEW u \in Threads PROVE HandleLocals(u)'
    BY <1>1, <1>2, <1>3, <2>1, OthersKeepLocals
  <2>5. NoHandlesAhead'
    BY <1>2, <2>1, <2>2 DEF NoHandlesAhead, RootInv, Pins, Born
  <2>6. CountsExact'
    <3>1. \A x : Pinners(x)' = Pinners(x)
      BY <2>1 DEF Pinners
    <3>2. RootsTo(o)' \in Nat
      BY FiniteHandles, Zenon DEF RootsTo, RootHandles, Held
    <3>3. /\ \A x \in Objects \ {o} : /\ rootCount'[x] = rootCount[x] /\ RootsTo(x)' = RootsTo(x)
                                      /\ Pinners(x)' = Pinners(x) /\ Droppers(x)' = Droppers(x)
          /\ Cardinality(Pinners(o)') = b
      BY <3>1, <2>2, <1>2, <1>4, <1>7
    <3>4. rootCount'[o] + RootsTo(o) + Cardinality(Pinners(o)) + Cardinality(Droppers(o))
            = rootCount[o] + RootsTo(o)' + Cardinality(Pinners(o)') + Cardinality(Droppers(o)')
      BY <3>2, <3>3, <2>2, <1>7, <1>8, SMTT(15)
    <3>5. Cardinality(Pinners(o)') \in Nat /\ Cardinality(Droppers(o)') \in Nat
      BY <3>3, <1>8
    <3> QED
      BY <3>2, <3>3, <3>4, <3>5, <1>1, <1>8, CountsKept
  <2> QED
    BY <2>3, <2>4, <2>5, <2>6 DEF RootInv
<1>10. CASE Unpin(t, o)
  <2>1. /\ roots' = roots /\ Pins(t, o)
        /\ roPins' = [roPins EXCEPT ![t] = @ \ {o}] /\ rwPins' = [rwPins EXCEPT ![t] = @ \ {o}]
    BY <1>10 DEF Unpin
  <2>2. /\ roPins' \in [Threads -> SUBSET Objects] /\ rwPins' \in [Threads -> SUBSET Objects]
        /\ \A u \in Threads \ {t} : roPins'[u] = roPins[u] /\ rwPins'[u] = rwPins[u]
        /\ roPins'[t] \cup rwPins'[t] = (roPins[t] \cup rwPins[t]) \ {o}
    BY <1>1, <2>1
  <2>3. HandleTypes'
    BY <1>1, <1>2, <1>3, <1>8, <2>1, <2>2, TypesKept, Zenon DEF HandleTypes
  <2>4. ASSUME NEW u \in Threads PROVE HandleLocals(u)'
    BY <1>1, <1>2, <1>3, <2>2, OthersKeepLocals
  <2>5. NoHandlesAhead'
    BY <1>2, <2>1, <2>2 DEF NoHandlesAhead, RootInv, Pins, Born
  <2>6. CountsExact'
    <3>1. /\ \A x \in Objects \ {o} : Pinners(x)' = Pinners(x)
          /\ Pinners(o)' = Pinners(o) \ {t} /\ t \in Pinners(o)
      BY <2>1, <2>2 DEF Pinners, Pins
    <3>2. \A x : RootsTo(x)' = RootsTo(x)
      BY <2>1 DEF RootsTo, RootHandles
    <3>3. IsFiniteSet(Pinners(o)) /\ Cardinality(Pinners(o)') = b - 1 /\ IsFiniteSet(Pinners(o)')
      BY <3>1, <1>5, <1>7, FS_RemoveElement
    <3>4. Cardinality(Pinners(o)') \in Nat
      BY <3>3, FS_CardinalityType
    <3>5. rootCount'[o] + RootsTo(o) + Cardinality(Pinners(o)) + Cardinality(Droppers(o))
            = rootCount[o] + RootsTo(o)' + Cardinality(Pinners(o)') + Cardinality(Droppers(o)')
      BY <3>2, <3>3, <1>7, <1>8
    <3>6. \A x \in Objects \ {o} : /\ rootCount'[x] = rootCount[x] /\ RootsTo(x)' = RootsTo(x)
                                   /\ Pinners(x)' = Pinners(x) /\ Droppers(x)' = Droppers(x)
      BY <3>1, <3>2, <1>2, <1>4
    <3>7. RootsTo(o)' \in Nat /\ Cardinality(Droppers(o)') \in Nat
      BY <3>2, <1>5, <1>8
    <3> QED
      BY <3>4, <3>5, <3>6, <3>7, <1>1, <1>8, CountsKept
  <2> QED
    BY <2>3, <2>4, <2>5, <2>6 DEF RootInv
<1> QED
  BY <1>9, <1>10

\* A drop is counted.
LEMMA DropCountStep ==
    ASSUME RootInv, NEW t \in Threads, DropCount(t)
    PROVE  RootInv'
<1>1. /\ HandleTypes /\ HandleLocals(t) /\ allocated \in Nat
      /\ pc = [u \in Threads |-> pc[u]] /\ loc = [u \in Threads |-> loc[u]]
      /\ col = [u \in Threads |-> col[u]]
  BY DEF RootInv, HandleTypes
<1>2. PICK o \in Born : o = loc[t].obj
  BY <1>1 DEF HandleLocals, DropCount, DropLabels
<1>3. o \in Objects
  BY <1>1, <1>2, GraphAssumption DEF HandleTypes, Born, Objects
<1>4. /\ rootCount' = [rootCount EXCEPT ![o] = @ - 1] /\ roots' = roots /\ allocated' = allocated /\ lookup' = lookup
      /\ roPins' = roPins /\ rwPins' = rwPins /\ col' = col /\ pc[t] = "dropCount"
      /\ \/ pc' = [pc EXCEPT ![t] = "dropFlag"] /\ loc' = loc
         \/ pc' = [pc EXCEPT ![t] = "dropRelease"] /\ loc' = loc
         \/ pc' = [pc EXCEPT ![t] = Idle] /\ loc' = [loc EXCEPT ![t] = NoLocals]
  BY <1>2 DEF DropCount, AfterDrop, EndOp, StartOp, Goto, heapVars, clientVars, colVars
<1>5. Elsewhere(t) /\ HandleLocals(t)' /\ pc'[t] \notin DropLabels /\ pc[t] \in DropLabels
  BY <1>1, <1>4 DEF Elsewhere, HandleLocals, PinLabels, DropLabels, ListLabels, Idle
<1>6. /\ Droppers(o)' = Droppers(o) \ {t} /\ t \in Droppers(o)
      /\ \A x \in Objects \ {o} : Droppers(x)' = Droppers(x)
  BY <1>1, <1>4, <1>2, <1>5 DEF Droppers
<1>7. /\ IsFiniteSet(Droppers(o)) /\ Cardinality(Droppers(o)) \in Nat
      /\ RootsTo(o) \in Nat /\ Cardinality(Pinners(o)) \in Nat
  BY FiniteHandles, Zenon DEF RootsTo, RootHandles, Held
<1>8. PICK n \in Nat, a \in Nat, b \in Nat, c \in Nat :
         /\ n = rootCount[o] /\ a = RootsTo(o)
         /\ b = Cardinality(Pinners(o)) /\ c = Cardinality(Droppers(o)) /\ n = a + b + c
  BY <1>1, <1>3, <1>7 DEF HandleTypes, RootInv, CountsExact
<1>9. /\ Cardinality(Droppers(o)') = c - 1 /\ Cardinality(Droppers(o)') \in Nat
  BY <1>6, <1>7, FS_RemoveElement, FS_CardinalityType, <1>8
<1>10. /\ rootCount' \in [Objects -> Nat] /\ rootCount'[o] = n - 1
       /\ \A x \in Objects \ {o} : rootCount'[x] = rootCount[x]
  <2>1. n - 1 \in Nat
    BY <1>8, <1>9
  <2> QED
    BY <2>1, <1>1, <1>3, <1>4, <1>8 DEF HandleTypes
<1>11. HandleTypes'
  BY <1>1, <1>4, <1>5, <1>10, TypesKept DEF HandleTypes
<1>12. ASSUME NEW u \in Threads PROVE HandleLocals(u)'
  BY <1>1, <1>4, <1>5, OthersKeepLocals
<1>13. NoHandlesAhead'
  BY <1>2, <1>4, <1>10 DEF NoHandlesAhead, RootInv, Pins, Born
<1>14. CountsExact'
  <2>1. (\A x : Pinners(x)' = Pinners(x)) /\ (\A x : RootsTo(x)' = RootsTo(x))
    BY <1>4 DEF Pinners, RootsTo, RootHandles
  <2>2. rootCount'[o] + RootsTo(o) + Cardinality(Pinners(o)) + Cardinality(Droppers(o))
          = rootCount[o] + RootsTo(o)' + Cardinality(Pinners(o)') + Cardinality(Droppers(o)')
    BY <2>1, <1>8, <1>9, <1>10
  <2>3. \A x \in Objects \ {o} : /\ rootCount'[x] = rootCount[x] /\ RootsTo(x)' = RootsTo(x)
                                 /\ Pinners(x)' = Pinners(x) /\ Droppers(x)' = Droppers(x)
    BY <2>1, <1>6, <1>10
  <2>4. RootsTo(o)' \in Nat /\ Cardinality(Pinners(o)') \in Nat
    BY <2>1, <1>7
  <2> QED
    BY <2>2, <2>3, <2>4, <1>3, <1>9, <1>10, CountsKept
<1> QED
  BY <1>11, <1>12, <1>13, <1>14 DEF RootInv

LEMMA InitRootInv == Init => RootInv
<1> SUFFICES ASSUME Init PROVE RootInv
  OBVIOUS
<1>1. /\ rootCount = [o \in Objects |-> 0] /\ roots = [t \in Threads |-> [o \in Objects |-> 0]]
      /\ roPins = [t \in Threads |-> {}] /\ rwPins = [t \in Threads |-> {}]
      /\ allocated = 0 /\ pc = [t \in Threads |-> Idle]
      /\ loc = [t \in Threads |-> NoLocals] /\ col = [t \in Threads |-> NoLocals]
  BY DEF Init
<1>2. HandleTypes
  BY GraphAssumption, <1>1 DEF HandleTypes
<1>3. ASSUME NEW t \in Threads PROVE HandleLocals(t)
  BY <1>1 DEF HandleLocals, PinLabels, DropLabels, ListLabels, Idle
<1>4. NoHandlesAhead
  BY <1>1 DEF Init, NoHandlesAhead, Pins
<1>5. CountsExact
  <2>1. ASSUME NEW o \in Objects PROVE RootHandles(o) = {} /\ Pinners(o) = {} /\ Droppers(o) = {}
    BY <1>1, GraphAssumption DEF RootHandles, Pinners, Droppers, DropLabels, Idle
  <2>2. Cardinality({}) = 0
    BY FS_EmptySet
  <2>3. ASSUME NEW o \in Objects
        PROVE  rootCount[o] = RootsTo(o) + Cardinality(Pinners(o)) + Cardinality(Droppers(o))
    BY <2>1, <2>2, <1>1 DEF RootsTo
  <2> QED
    BY <2>3 DEF CountsExact
<1> QED
  BY <1>2, <1>3, <1>4, <1>5 DEF RootInv

LEMMA NextRootInv == RootInv /\ [Next]_vars => RootInv'
<1> SUFFICES ASSUME RootInv, [Next]_vars PROVE RootInv'
  OBVIOUS
<1>1. CASE UNCHANGED vars
  <2>1. /\ rootCount' = rootCount /\ roots' = roots /\ roPins' = roPins /\ rwPins' = rwPins
        /\ allocated' = allocated /\ lookup' = lookup /\ pc' = pc /\ loc' = loc /\ col' = col
    BY <1>1 DEF vars, headerVars, heapVars, clientVars, opVars, colVars
  <2> QED
    BY <2>1, Zenon DEF RootInv, HandleTypes, HandleLocals, NoHandlesAhead, CountsExact, RootsTo, RootHandles,
                Pinners, Droppers, Pins, Born
<1>2. ASSUME NEW t \in Threads, Step(t) PROVE RootInv'
  <2>1. CASE Collect(t)
    BY <2>1, CollectIsAmongLists, ListStep
  <2>2. CASE TearDown(t) \/ FastNext(t)
    BY <2>2, WalkIsAmongLists, ListStep
  <2>3. CASE FastEnd(t)
    BY <2>3, NewStep
  <2>4. CASE Assign(t) \/ DropFlag(t) \/ DropRelease(t)
    BY <2>4, PlainStep
  <2>5. CASE PinLock(t) \/ DropTest(t) \/ DropLockObject(t)
    BY <2>5, PinStep
  <2>6. CASE PinCount(t)
    BY <2>6, PinCountStep
  <2>7. CASE DropCount(t)
    BY <2>7, DropCountStep
  <2> QED
    BY <1>2, <2>1, <2>2, <2>3, <2>4, <2>5, <2>6, <2>7 DEF Step, Drop, AllocateLarge
<1>3. ASSUME NEW t \in Threads, Start(t) PROVE RootInv'
  <2>1. allocated \in Nat /\ Born \subseteq Objects
    BY GraphAssumption DEF RootInv, HandleTypes, Born, Objects
  <2>2. CASE New(t)
    BY <2>2, NewStep
  <2>3. CASE NewLarge(t) \/ Destroy(t)
    BY <2>3, WalkIsAmongLists, ListStep
  <2>4. ASSUME NEW p \in Lists, StartCollection(t, p) PROVE RootInv'
    BY <2>4, WalkIsAmongLists, ListStep DEF StartCollection
  <2>5. ASSUME NEW o \in Born, CopyRoot(t, o) PROVE RootInv'
    BY <2>5, CopyRootStep
  <2>6. ASSUME NEW o \in Born, DropRoot(t, o) \/ Unpin(t, o) PROVE RootInv'
    BY <2>6, LetGoStep
  <2>7. ASSUME NEW o \in Born, Pin(t, o, "ro") \/ Pin(t, o, "rw") PROVE RootInv'
    BY <2>7, PinStep
  <2>8. ASSUME NEW o \in Born, NEW u \in Threads, MoveRoot(t, u, o) PROVE RootInv'
    BY <2>8, MoveRootStep
  <2>9. ASSUME NEW o \in Born, NEW s \in Slots, NEW x \in {Null} \cup Objects, SetField(t, o, s, x)
        PROVE  RootInv'
    BY <2>1, <2>9, PlainStep
  <2> QED
    BY <1>3, <2>2, <2>3, <2>4, <2>5, <2>6, <2>7, <2>8, <2>9 DEF Start, Born
<1> QED
  BY <1>1, <1>2, <1>3 DEF Next

\* Whatever the threads do and however their steps interleave, an object's
\* rootHandleCount is the number of its root handles, pins and uncounted drops; with
\* no operation under way it is that of its root handles and pins (gc.cpp:1095-1223).
THEOREM CountsAreHandles == Spec => []RootCountsAgree
<1>1. RootInv => RootCountsAgree
  <2> SUFFICES ASSUME RootInv, Quiet, NEW o \in lookup
               PROVE  rootCount[o] = RootsTo(o) + Cardinality(Pinners(o))
    BY DEF RootCountsAgree
  <2>1. o \in Objects
    BY GraphAssumption DEF RootInv, NoHandlesAhead, HandleTypes, Born, Objects
  <2>2. Droppers(o) = {} /\ Cardinality({}) = 0
    BY FS_EmptySet DEF Droppers, Quiet, DropLabels, Idle
  <2>3. RootsTo(o) \in Nat /\ Cardinality(Pinners(o)) \in Nat
    BY FiniteHandles, Zenon DEF RootsTo, RootHandles, Held
  <2>4. rootCount[o] = RootsTo(o) + Cardinality(Pinners(o)) + Cardinality(Droppers(o))
    BY <2>1 DEF RootInv, CountsExact
  <2> QED
    BY <2>2, <2>3, <2>4
<1> QED
  BY <1>1, InitRootInv, NextRootInv, PTL DEF Spec

-------------------------------------------------------------------------------
(* Numbers, lists and sets that something is reached from *)

Below2 == {e \in Nat \X Nat : e[1] < e[2]}

\* A set of numbers that is not empty has a least member.
LEMMA LeastNumber ==
    ASSUME NEW S \in SUBSET Nat, S # {}
    PROVE  \E x \in S : \A y \in S : x <= y
<1>1. OpToRel(<, Nat) = Below2
  BY DEF OpToRel, Below2
<1>2. IsWellFoundedOn(Below2, Nat)
  BY <1>1, NatLessThanWellFounded, Zenon
<1>3. PICK x \in S : \A y \in S : <<y, x>> \notin Below2
  BY <1>2, WFMin, Zenon
<1>4. \A y \in S : ~(y < x)
  BY <1>3, Zenon DEF Below2
<1>5. x \in Nat /\ \A y \in S : y \in Nat
  OBVIOUS
<1> QED
  BY <1>3, <1>4, <1>5

\* A set of numbers with 0 and the successor of each member has all of them.
LEMMA AllNumbers ==
    ASSUME NEW S, 0 \in S, \A k \in Nat : k \in S => k + 1 \in S
    PROVE  Nat \subseteq S
<1> SUFFICES ASSUME Nat \ S # {} PROVE FALSE
  OBVIOUS
<1>1. PICK x \in Nat \ S : \A y \in Nat \ S : x <= y
  BY LeastNumber, Zenon
<1>2. x # 0
  OBVIOUS
<1>3. x - 1 \in Nat /\ ~(x <= x - 1) /\ (x - 1) + 1 = x
  BY <1>2
<1>4. x - 1 \in S
  BY <1>1, <1>3
<1> QED
  BY <1>3, <1>4

\* Where a list has an entry.
At(list, e) == {i \in DOMAIN list : list[i] = e}

\* What swap with back() and pop_back make of a list.
LEMMA SwapRemoved ==
    ASSUME NEW T, NEW list \in Seq(T), NEW e, At(list, e) # {}
    PROVE  \E k \in 1 .. Len(list) :
              /\ list[k] = e
              /\ Len(list) \in Nat \ {0} /\ DOMAIN list = 1 .. Len(list)
              /\ SwapRemove(list, e) =
                    [i \in 1 .. Len(list) - 1 |-> IF i = k THEN list[Len(list)] ELSE list[i]]
<1>1. Len(list) \in Nat /\ DOMAIN list = 1 .. Len(list)
  BY LenProperties
<1>2. At(list, e) \in SUBSET Nat
  BY <1>1 DEF At
<1>3. PICK m \in At(list, e) : \A i \in At(list, e) : m <= i
  BY <1>2, LeastNumber, Zenon
<1>4. \E i \in DOMAIN list : list[i] = e /\ \A j \in 1 .. i - 1 : list[j] # e
  BY <1>1, <1>3 DEF At
<1>5. PICK k : k = CHOOSE i \in DOMAIN list : list[i] = e /\ \A j \in 1 .. i - 1 : list[j] # e
  OBVIOUS
<1>6. k \in DOMAIN list /\ list[k] = e
  BY <1>4, <1>5
<1>7. SwapRemove(list, e) = [i \in 1 .. Len(list) - 1 |-> IF i = k THEN list[Len(list)] ELSE list[i]]
  BY <1>5 DEF SwapRemove
<1> QED
  BY <1>1, <1>6, <1>7

LEMMA SwapRemoveType ==
    ASSUME NEW T, NEW list \in Seq(T), NEW e, At(list, e) # {}, NEW rest, rest = SwapRemove(list, e)
    PROVE  rest \in Seq(T) /\ Len(rest) = Len(list) - 1
  BY SwapRemoved, ElementOfSeq

\* The list has one entry less for e, and as many as before for everything else.
LEMMA SwapRemoveCounts ==
    ASSUME NEW T, NEW list \in Seq(T), NEW e, At(list, e) # {}, NEW rest, rest = SwapRemove(list, e)
    PROVE  /\ Cardinality(At(list, e)) = Cardinality(At(rest, e)) + 1
           /\ \A x : x # e => Cardinality(At(rest, x)) = Cardinality(At(list, x))
           /\ \A x : IsFiniteSet(At(list, x)) /\ IsFiniteSet(At(rest, x))
<1>1. PICK k \in 1 .. Len(list) :
         /\ list[k] = e /\ Len(list) \in Nat \ {0} /\ DOMAIN list = 1 .. Len(list)
         /\ rest = [i \in 1 .. Len(list) - 1 |-> IF i = k THEN list[Len(list)] ELSE list[i]]
  BY SwapRemoved
<1>2. PICK n \in Nat \ {0} : n = Len(list)
  BY <1>1, Zenon
<1>3. \A x : At(list, x) \in SUBSET (1 .. n) /\ At(rest, x) \in SUBSET (1 .. n)
  BY <1>1, <1>2 DEF At
<1>4. \A x : IsFiniteSet(At(list, x)) /\ IsFiniteSet(At(rest, x))
  <2>1. IsFiniteSet(1 .. n)
    BY <1>2, FS_Interval
  <2> QED
    BY <2>1, <1>3, FS_Subset
<1>5. Cardinality(At(list, e)) = Cardinality(At(rest, e)) + 1
  <2>1. PICK gone \in At(list, e) : At(rest, e) = At(list, e) \ {gone}
    <3>1. CASE list[n] = e
      BY <3>1, <1>1, <1>2 DEF At
    <3>2. CASE list[n] # e
      <4>1. At(rest, e) = At(list, e) \ {k} /\ k \in At(list, e)
        BY <3>2, <1>1, <1>2 DEF At
      <4> QED
        BY <4>1
    <3> QED
      BY <3>1, <3>2
  <2>2. At(list, e) = At(rest, e) \cup {gone} /\ gone \notin At(rest, e)
    BY <2>1
  <2> QED
    BY <2>2, <1>4, FS_AddElement, Zenon
<1>6. ASSUME NEW x, x # e
      PROVE  Cardinality(At(rest, x)) = Cardinality(At(list, x))
  <2>1. CASE list[n] = x
    <3>1. PICK both : both = At(list, x) \ {n} /\ both = At(rest, x) \ {k}
      <4>1. At(list, x) \ {n} = At(rest, x) \ {k}
        BY <2>1, <1>1, <1>2, <1>6 DEF At
      <4> QED
        BY <4>1, Zenon
    <3>2. n \in At(list, x) /\ k \in At(rest, x)
      BY <2>1, <1>1, <1>2, <1>6 DEF At
    <3>3. IsFiniteSet(both)
      BY <3>1, <1>4, FS_Subset
    <3>4. At(list, x) = both \cup {n} /\ At(rest, x) = both \cup {k} /\ n \notin both /\ k \notin both
      BY <3>1, <3>2
    <3>5. Cardinality(At(list, x)) = Cardinality(both) + 1
      BY <3>3, <3>4, FS_AddElement, Zenon
    <3>6. Cardinality(At(rest, x)) = Cardinality(both) + 1
      BY <3>3, <3>4, FS_AddElement, Zenon
    <3> QED
      BY <3>5, <3>6
  <2>2. CASE list[n] # x
    <3>1. At(rest, x) = At(list, x)
      BY <2>2, <1>1, <1>2, <1>6 DEF At
    <3> QED
      BY <3>1
  <2> QED
    BY <2>1, <2>2
<1> QED
  BY <1>4, <1>5, <1>6

LEMMA AppendCounts ==
    ASSUME NEW T, NEW list \in Seq(T), NEW e \in T
    PROVE  /\ Cardinality(At(Append(list, e), e)) = Cardinality(At(list, e)) + 1
           /\ \A x : x # e => At(Append(list, e), x) = At(list, x)
           /\ \A x : IsFiniteSet(At(list, x)) /\ Cardinality(At(list, x)) \in Nat
<1>1. PICK n \in Nat : n = Len(list) /\ DOMAIN list = 1 .. n
  BY LenProperties
<1>2. PICK more : more = Append(list, e)
  BY Zenon
<1>3. DOMAIN more = 1 .. n + 1 /\ more[n + 1] = e /\ \A i \in 1 .. n : more[i] = list[i]
  BY <1>1, <1>2, AppendProperties
<1>4. At(more, e) = At(list, e) \cup {n + 1} /\ n + 1 \notin At(list, e)
  BY <1>1, <1>3 DEF At
<1>5. \A x : x # e => At(more, x) = At(list, x)
  BY <1>1, <1>3 DEF At
<1>6. \A x : IsFiniteSet(At(list, x)) /\ Cardinality(At(list, x)) \in Nat
  <2>1. IsFiniteSet(1 .. n)
    BY <1>1, FS_Interval
  <2>2. \A x : At(list, x) \in SUBSET (1 .. n)
    BY <1>1 DEF At
  <2> QED
    BY <2>1, <2>2, FS_Subset, FS_CardinalityType
<1> QED
  BY <1>2, <1>4, <1>5, <1>6, FS_AddElement, Zenon

-------------------------------------------------------------------------------
(* One thread: the types of the heap, and of what the thread is in the middle of *)

SetLabels == {"setUpgrade", "setCheck", "setNewLock", "setAdd", "setOldLock", "setRemove",
              "setOldRelease", "setStore", "setDowngrade"}
FindLabels == {"findEnter", "findFlag", "findScan", "findDescend", "findLock", "findReturn",
               "findRelease"}
ScanLabels == {"colTry", "colUntry", "colRead", "colFlag", "colRelease", "colUpgrade"}
DestroyLabels == {"desUnregister", "desField", "desReacquire", "desClear", "desRelease"}
CandidateLabels == FindLabels \cup ScanLabels \cup DestroyLabels

Frames == [obj : Objects, k : Nat \ {0}, ref : Objects \cup {Null}]
Walks == [page : Lists, i : Nat \ {0}, slot : Nat, obj : Objects \cup {Null},
          found : BOOLEAN, back : Backs]
Assignments == [obj : Objects, slot : Slots, new : Objects \cup {Null}, old : Objects \cup {Null},
                role : {"root", "field", "ro_pin", "rw_pin"}, hold : BOOLEAN]

LockTypes == word \in [Objects -> Nat] /\ rwSet \in [Threads -> SUBSET Objects]

HeapTypes ==
    /\ refBy \in [Objects -> Seq(Objects)]
    /\ field \in [Objects -> [Slots -> Objects \cup {Null}]]
    /\ garbage \subseteq Objects
    /\ LockTypes
    /\ allocations \in [Lists -> Seq(Objects)]
    /\ stk \in [Threads -> Seq(Frames)]

\* A dropped handle's object, and an assignment with the values it has read.
OpPlaces(t) ==
    /\ pc[t] \in {"dropFlag", "dropRelease"} => loc[t] \in [obj : Born, hold : BOOLEAN]
    /\ pc[t] \in SetLabels =>
         /\ loc[t] \in Assignments
         /\ loc[t].obj \in rwPins[t]
         /\ loc[t].role = "ro_pin" => loc[t].new \in roPins[t]
    /\ pc[t] \in {"setUpgrade", "setDowngrade"} => loc[t].role = "ro_pin"
    /\ pc[t] \in {"setNewLock", "setAdd"} => loc[t].new # Null
    /\ pc[t] \in {"setNewLock", "setAdd", "setOldLock", "setRemove", "setOldRelease", "setStore"} =>
          loc[t].old = field[loc[t].obj][loc[t].slot] /\ loc[t].old # loc[t].new
    /\ pc[t] \in {"setOldLock", "setRemove", "setOldRelease"} => loc[t].old # Null

\* A walk through a list, with the object it looks at.
WalkPlaces(t) ==
    /\ pc[t] \in ListLabels => col[t] \in Walks
    /\ pc[t] \notin ListLabels => col[t] = NoLocals
    /\ pc[t] \in CandidateLabels =>
         Candidate(t) \in Objects /\ (col[t].back # "colNext" => col[t].page = Large)
    /\ pc[t] \in ScanLabels \cup FindLabels \cup {"colId", "colNext"} => col[t].back = "colNext"
    /\ pc[t] = "fastNext" => col[t].back = "fastNext" /\ col[t].page = Large
    /\ pc[t] = "tearLarge" => col[t].back = "tearLarge" /\ col[t].page = Large
    /\ pc[t] \in {"desClear", "desRelease"} => ~FieldsDone(t) /\ FieldValue(t) # Null

\* A search, which starts from that object.
SearchPlaces(t) ==
    /\ pc[t] \in FindLabels => stk[t] # <<>> /\ stk[t][1].obj = Candidate(t)
    /\ pc[t] \in {"findDescend", "findLock"} => Top(t).ref \in Objects
    /\ pc[t] = "findRelease" => Len(stk[t]) # 1

Placed(t) == HeapTypes /\ OpPlaces(t) /\ WalkPlaces(t) /\ SearchPlaces(t)

LEMMA LockTypesKept ==
    ASSUME LockTypes, NEW t \in Threads, NEW o \in Objects,
           \/ TakeWrite(t, o) \/ TakeRead(o) \/ TakeUpgrade(t, o) \/ DropLock(t, o)
           \/ UNCHANGED lockVars
    PROVE  LockTypes'
<1>1. /\ word \in [Objects -> Nat] /\ rwSet \in [Threads -> SUBSET Objects]
      /\ word[o] \in Nat /\ WriteHeld \in Nat /\ Released(word[o]) \in Nat
  BY WriteMaskAssumption DEF LockTypes, WriteHeld, Released, Free
<1>2. CASE TakeWrite(t, o)
  BY <1>1, <1>2 DEF TakeWrite, LockTypes
<1>3. CASE TakeRead(o)
  BY <1>1, <1>3 DEF TakeRead, LockTypes
<1>4. CASE TakeUpgrade(t, o)
  BY <1>1, <1>4 DEF TakeUpgrade, LockTypes, lockVars
<1>5. CASE DropLock(t, o)
  BY <1>1, <1>5 DEF DropLock, LockTypes
<1>6. CASE UNCHANGED lockVars
  BY <1>1, <1>6 DEF LockTypes, lockVars
<1> QED
  BY <1>2, <1>3, <1>4, <1>5, <1>6

\* The stack of a search.
LEMMA StackFacts ==
    ASSUME NEW s \in Seq(Frames), s # <<>>
    PROVE  /\ Len(s) \in Nat \ {0} /\ DOMAIN s = 1 .. Len(s)
           /\ \A f \in 1 .. Len(s) : s[f] \in Frames
           /\ Advance(s) \in Seq(Frames) /\ Len(Advance(s)) = Len(s) /\ Advance(s) # <<>>
           /\ \A f \in 1 .. Len(s) - 1 : Advance(s)[f] = s[f]
           /\ Advance(s)[Len(s)] = [obj |-> s[Len(s)].obj, k |-> s[Len(s)].k + 1, ref |-> Null]
<1>1. PICK n \in Nat \ {0} : n = Len(s) /\ DOMAIN s = 1 .. n /\ s \in [1 .. n -> Frames]
  BY EmptySeq, LenProperties
<1>2. s[n] \in Frames /\ s[n].k + 1 \in Nat \ {0}
  BY <1>1 DEF Frames
<1>3. PICK top : top = [obj |-> s[n].obj, k |-> s[n].k + 1, ref |-> Null]
  BY Zenon
<1>4. top \in Frames
  BY <1>2, <1>3 DEF Frames
<1>5. Advance(s) = [s EXCEPT ![n] = top]
  <2>1. Advance(s) = [s EXCEPT ![n] = [[s[n] EXCEPT !.k = @ + 1] EXCEPT !.ref = Null]]
    BY <1>1, Zenon DEF Advance
  <2>2. [[s[n] EXCEPT !.k = @ + 1] EXCEPT !.ref = Null] = top
    <3>1. PICK o \in Objects, k \in Nat \ {0}, r \in Objects \cup {Null} :
             s[n] = [obj |-> o, k |-> k, ref |-> r]
      BY <1>2, Zenon DEF Frames
    <3>2. s[n].k = k /\ s[n].obj = o
      BY <3>1
    <3>3. [s[n] EXCEPT !.k = @ + 1] = [obj |-> o, k |-> k + 1, ref |-> r]
      BY <3>1
    <3>4. [[s[n] EXCEPT !.k = @ + 1] EXCEPT !.ref = Null] = [obj |-> o, k |-> k + 1, ref |-> Null]
      <4>1. PICK q : q = [obj |-> o, k |-> k + 1, ref |-> r]
        BY Zenon
      <4>2. [q EXCEPT !.ref = Null] = [obj |-> o, k |-> k + 1, ref |-> Null]
        BY <4>1
      <4> QED
        BY <3>3, <4>1, <4>2, Zenon
    <3> QED
      BY <3>2, <3>4, <1>3
  <2> QED
    BY <2>1, <2>2, Zenon
<1>6. PICK a : a = Advance(s) /\ a = [s EXCEPT ![n] = top]
  BY <1>5
<1>7. a \in [1 .. n -> Frames] /\ a[n] = top /\ \A f \in 1 .. n - 1 : a[f] = s[f]
  <2>1. n \in 1 .. n /\ \A f \in 1 .. n - 1 : f # n /\ f \in 1 .. n
    <3>1. n \in Nat \ {0}
      BY <1>1
    <3> QED
      BY <3>1
  <2>2. s \in [1 .. n -> Frames]
    BY <1>1
  <2> QED
    BY <2>1, <2>2, <1>4, <1>6
<1>8. a \in Seq(Frames) /\ Len(a) = n
  BY <1>7
<1>9. a # <<>>
  BY <1>8
<1> QED
  BY <1>1, <1>3, <1>6, <1>7, <1>8, <1>9, Zenon

LEMMA StackBelow ==
    ASSUME NEW s \in Seq(Frames), NEW n \in Nat, n = Len(s), n > 1
    PROVE  /\ SubSeq(s, 1, n - 1) \in Seq(Frames) /\ Len(SubSeq(s, 1, n - 1)) = n - 1
           /\ SubSeq(s, 1, n - 1) # <<>>
           /\ \A f \in 1 .. n - 1 : SubSeq(s, 1, n - 1)[f] = s[f]
<1>1. PICK b : b = SubSeq(s, 1, n - 1)
  BY Zenon
<1>2. b \in Seq(Frames) /\ Len(b) = n - 1 /\ \A f \in 1 .. n - 1 : b[f] = s[f]
  BY <1>1, SubSeqProperties
<1>3. b # <<>>
  BY <1>2
<1> QED
  BY <1>1, <1>2, <1>3

\* The changes of a walk's locals.
LEMMA WalkLooks ==
    ASSUME NEW w \in Walks, NEW x \in Objects \cup {Null}, NEW c, c = [w EXCEPT !.obj = x]
    PROVE  /\ c \in Walks
           /\ c.page = w.page /\ c.i = w.i /\ c.slot = w.slot
           /\ c.obj = x /\ c.found = w.found /\ c.back = w.back
  BY DEF Walks

LEMMA WalkMoves ==
    ASSUME NEW w \in Walks, NEW c, c = [w EXCEPT !.i = @ + 1]
    PROVE  /\ c \in Walks
           /\ c.page = w.page /\ c.i = w.i + 1 /\ c.slot = w.slot
           /\ c.obj = w.obj /\ c.found = w.found /\ c.back = w.back
  BY DEF Walks

LEMMA WalkPasses ==
    ASSUME NEW w \in Walks, NEW c, c = [w EXCEPT !.i = @ + 1, !.obj = Null]
    PROVE  /\ c \in Walks
           /\ c.page = w.page /\ c.i = w.i + 1 /\ c.slot = w.slot
           /\ c.obj = Null /\ c.found = w.found /\ c.back = w.back
<1>1. PICK p \in Lists, n \in Nat \ {0}, m \in Nat, o \in Objects \cup {Null}, f \in BOOLEAN, b \in Backs :
         w = [page |-> p, i |-> n, slot |-> m, obj |-> o, found |-> f, back |-> b]
  BY DEF Walks
<1>2. w.page = p /\ w.i = n /\ w.slot = m /\ w.obj = o /\ w.found = f /\ w.back = b
  BY <1>1
<1>3. c = [page |-> p, i |-> n + 1, slot |-> m, obj |-> Null, found |-> f, back |-> b]
  BY <1>1, Zenon
<1>4. c \in Walks
  BY <1>3 DEF Walks
<1> QED
  BY <1>2, <1>3, <1>4

LEMMA WalkFinds ==
    ASSUME NEW w \in Walks, NEW x \in BOOLEAN, NEW c, c = [w EXCEPT !.found = x]
    PROVE  /\ c \in Walks
           /\ c.page = w.page /\ c.i = w.i /\ c.slot = w.slot
           /\ c.obj = w.obj /\ c.found = x /\ c.back = w.back
  BY DEF Walks

LEMMA WalkClears ==
    ASSUME NEW w \in Walks, NEW c, c = [w EXCEPT !.slot = @ + 1]
    PROVE  /\ c \in Walks
           /\ c.page = w.page /\ c.i = w.i /\ c.slot = w.slot + 1
           /\ c.obj = w.obj /\ c.found = w.found /\ c.back = w.back
  BY DEF Walks

\* The walk behind a destroyed object.
Onward(w, x) == [w EXCEPT !.i = x, !.obj = Null, !.slot = 1]

LEMMA WalkGoesOn ==
    ASSUME NEW w \in Walks, NEW x \in Nat \ {0}, NEW c, c = Onward(w, x)
    PROVE  /\ c \in Walks
           /\ c.page = w.page /\ c.i = x /\ c.slot = 1
           /\ c.obj = Null /\ c.found = w.found /\ c.back = w.back
<1>1. PICK p \in Lists, n \in Nat \ {0}, m \in Nat, o \in Objects \cup {Null}, f \in BOOLEAN, b \in Backs :
         w = [page |-> p, i |-> n, slot |-> m, obj |-> o, found |-> f, back |-> b]
  BY DEF Walks
<1>2. w.page = p /\ w.i = n /\ w.slot = m /\ w.obj = o /\ w.found = f /\ w.back = b
  BY <1>1
<1>3. c = [page |-> p, i |-> x, slot |-> 1, obj |-> Null, found |-> f, back |-> b]
  BY <1>1, Zenon DEF Onward
<1>4. c \in Walks
  BY <1>3 DEF Walks
<1> QED
  BY <1>2, <1>3, <1>4

LEMMA AssignmentFacts ==
    ASSUME NEW c \in Assignments
    PROVE  /\ \A x \in Objects \cup {Null}, h \in BOOLEAN :
                 [obj |-> c.obj, slot |-> c.slot, new |-> c.new, old |-> x, role |-> c.role, hold |-> h] \in Assignments
           /\ \A x : [c EXCEPT !.old = x] = [obj |-> c.obj, slot |-> c.slot, new |-> c.new, old |-> x, role |-> c.role, hold |-> c.hold]
           /\ \A h : [c EXCEPT !.hold = h] = [obj |-> c.obj, slot |-> c.slot, new |-> c.new, old |-> c.old, role |-> c.role, hold |-> h]
  BY DEF Assignments

LEMMA SameLockTypes ==
    ASSUME LockTypes, UNCHANGED lockVars
    PROVE  LockTypes'
BY DEF LockTypes, lockVars

\* What an operation on a handle, which is no assignment, leaves as it is.
HandleFrame(t) ==
    /\ col' = col /\ stk' = stk /\ refBy' = refBy /\ field' = field
    /\ pc[t] \notin ListLabels /\ pc'[t] \notin SetLabels \cup ListLabels
    /\ garbage' \subseteq Objects /\ LockTypes' /\ allocations' \in [Lists -> Seq(Objects)]
    /\ pc'[t] \in {"dropFlag", "dropRelease"} => loc'[t] \in [obj : Born, hold : BOOLEAN] /\ Born' = Born

LEMMA HandleFramePlaced ==
    ASSUME NEW t \in Threads, Placed(t), HandleFrame(t)
    PROVE  Placed(t)'
<1>1. HeapTypes'
  BY DEF HandleFrame, Placed, HeapTypes
<1>2. OpPlaces(t)'
  BY DEF HandleFrame, OpPlaces, SetLabels
<1>3. WalkPlaces(t)'
  BY DEF HandleFrame, Placed, WalkPlaces, ListLabels, CandidateLabels, FindLabels, ScanLabels, DestroyLabels
<1>4. SearchPlaces(t)'
  BY DEF HandleFrame, SearchPlaces, ListLabels, FindLabels
<1> QED
  BY <1>1, <1>2, <1>3, <1>4 DEF Placed

LEMMA HandlePlaced ==
    ASSUME RootInv, NEW t \in Threads, Threads = {t}, Placed(t),
           \/ New(t) \/ PinLock(t) \/ PinCount(t) \/ Drop(t)
           \/ \E o \in Born : CopyRoot(t, o) \/ DropRoot(t, o) \/ Unpin(t, o)
                              \/ Pin(t, o, "ro") \/ Pin(t, o, "rw")
    PROVE  HandleFrame(t) /\ Placed(t)'
<1>0. /\ pc = [u \in Threads |-> pc[u]] /\ loc = [u \in Threads |-> loc[u]]
      /\ col = [u \in Threads |-> col[u]] /\ HandleLocals(t)
      /\ Born \subseteq Objects /\ allocated \in Nat
      /\ garbage \subseteq Objects /\ LockTypes /\ allocations \in [Lists -> Seq(Objects)]
      /\ pc[t] \in {"dropFlag", "dropRelease"} => loc[t] \in [obj : Born, hold : BOOLEAN]
  BY GraphAssumption DEF RootInv, HandleTypes, Born, Objects, Placed, HeapTypes, OpPlaces
<1> USE DEF headerVars, heapVars, implVars, clientVars, opVars, colVars, Goto, StartOp, EndOp,
            HandleFrame, ListLabels, SetLabels, Idle
<1>a. SUFFICES HandleFrame(t)
  BY HandleFramePlaced
<1>1. CASE New(t)
  <2>1. PICK o \in Objects, p \in Pages : o = allocated + 1 /\ allocations' = [allocations EXCEPT ![p] = Append(@, o)]
    <3>1. allocated < MaxObjects /\ MaxObjects \in Nat
      BY <1>1, GraphAssumption DEF New
    <3>2. allocated + 1 \in Objects
      BY <3>1, <1>0 DEF Objects
    <3>3. \E p \in Pages : allocations' = [allocations EXCEPT ![p] = Append(@, allocated + 1)]
      BY <1>1, Zenon DEF New
    <3> QED
      BY <3>2, <3>3, Zenon
  <2>2. p \in Lists /\ Append(allocations[p], o) \in Seq(Objects)
    BY <2>1, <1>0, AppendProperties DEF Lists
  <2>3. allocations' \in [Lists -> Seq(Objects)]
    BY <2>1, <2>2, <1>0
  <2> QED
    BY <1>1, <1>0, <2>3, SameLockTypes DEF New
<1>2. CASE PinLock(t)
  BY <1>2, <1>0, LockTypesKept DEF PinLock, HandleLocals, PinLabels
<1>3. CASE PinCount(t)
  BY <1>3, <1>0, SameLockTypes DEF PinCount
<1>4. ASSUME NEW o \in Born, CopyRoot(t, o) \/ DropRoot(t, o) \/ Pin(t, o, "ro") \/ Pin(t, o, "rw")
      PROVE  HandleFrame(t)
  BY <1>4, <1>0, SameLockTypes DEF CopyRoot, DropRoot, Pin
<1>5. ASSUME NEW o \in Born, Unpin(t, o)
      PROVE  HandleFrame(t)
  BY <1>5, <1>0, LockTypesKept DEF Unpin
<1>6. CASE DropTest(t)
  BY <1>6, <1>0, SameLockTypes DEF DropTest
<1>7. CASE DropLockObject(t)
  BY <1>7, <1>0, LockTypesKept DEF DropLockObject, HandleLocals, DropLabels
<1>8. CASE DropCount(t)
  BY <1>8, <1>0, SameLockTypes DEF DropCount, HandleLocals, DropLabels, Born, AfterDrop
<1>9. CASE DropFlag(t)
  BY <1>9, <1>0, LockTypesKept, SameLockTypes DEF DropFlag, Born, lockVars, AfterDrop
<1>10. CASE DropRelease(t)
  BY <1>10, <1>0, LockTypesKept DEF DropRelease
<1> QED
  BY <1>1, <1>2, <1>3, <1>4, <1>5, <1>6, <1>7, <1>8, <1>9, <1>10 DEF Drop

\* An assignment to a field.
LEMMA AssignPlaced ==
    ASSUME RootInv, NEW t \in Threads, Threads = {t}, Placed(t), Assign(t)
    PROVE  Placed(t)'
<1>0. /\ pc = [u \in Threads |-> pc[u]] /\ loc = [u \in Threads |-> loc[u]]
      /\ col = [u \in Threads |-> col[u]]
      /\ HeapTypes /\ OpPlaces(t) /\ WalkPlaces(t)
      /\ roPins \in [Threads -> SUBSET Objects]
  BY DEF RootInv, HandleTypes, Placed
<1> USE DEF headerVars, heapVars, implVars, clientVars, opVars, colVars, Goto, StartOp, EndOp, Idle
<1>1. /\ pc[t] \in SetLabels /\ col' = col /\ stk' = stk /\ roPins' = roPins /\ rwPins' = rwPins
      /\ allocations' = allocations /\ pc'[t] \in SetLabels \cup {Idle}
  <2>1. CASE SetUpgrade(t) \/ SetCheck(t) \/ SetNewLock(t) \/ SetAdd(t) \/ SetOldLock(t)
    BY <2>1, <1>0 DEF SetUpgrade, SetCheck, SetNewLock, SetAdd, SetOldLock, Leave, SetLabels, OldValueLabel
  <2>2. CASE SetRemove(t) \/ SetOldRelease(t) \/ SetStore(t) \/ SetDowngrade(t)
    BY <2>2, <1>0, Zenon DEF SetRemove, SetOldRelease, SetStore, SetDowngrade, Leave, SetLabels
  <2> QED
    BY <2>1, <2>2 DEF Assign
<1>2. /\ loc[t] \in Assignments /\ loc[t].obj \in Objects /\ loc[t].slot \in Slots
      /\ loc[t].obj \in rwPins[t] /\ loc[t].new \in Objects \cup {Null} /\ loc[t].old \in Objects \cup {Null}
      /\ loc[t].role = "ro_pin" => loc[t].new \in roPins[t] /\ loc[t].new \in Objects
  BY <1>0, <1>1 DEF OpPlaces, Assignments
<1>3. WalkPlaces(t)' /\ SearchPlaces(t)'
  BY <1>0, <1>1 DEF WalkPlaces, SearchPlaces, SetLabels, CandidateLabels, FindLabels, ScanLabels, DestroyLabels, ListLabels
<1>4. SUFFICES HeapTypes' /\ OpPlaces(t)'
  BY <1>3 DEF Placed
<1>5. CASE SetUpgrade(t)
  BY <1>5, <1>0, <1>2, LockTypesKept, <1>1 DEF SetUpgrade, OpPlaces, HeapTypes, SetLabels
<1>6. CASE SetCheck(t)
  <2>1. pc[t] = "setCheck" /\ refBy' = refBy /\ field' = field /\ garbage' = garbage /\ UNCHANGED lockVars
    BY <1>6 DEF SetCheck
  <2>2. HeapTypes'
    BY <2>1, <1>0, <1>1, SameLockTypes DEF HeapTypes
  <2>3. PICK old \in Objects \cup {Null} : old = field[loc[t].obj][loc[t].slot]
    BY <1>0, <1>2 DEF HeapTypes
  <2>4. CASE old = loc[t].new \/ Refused(t)
    BY <2>3, <2>4, <1>6, <1>0, <2>1, <2>2, <1>1, <1>2 DEF SetCheck, Leave, OpPlaces, SetLabels
  <2>5. CASE ~(old = loc[t].new \/ Refused(t))
    <3>1. PICK c : c = [loc[t] EXCEPT !.old = old]
      BY Zenon
    <3>2. /\ loc' = [loc EXCEPT ![t] = c]
          /\ pc' = [pc EXCEPT ![t] = IF loc[t].new = Null THEN OldValueLabel(t, old)
                                     ELSE IF NeedsLock(t, loc[t].new) THEN "setNewLock" ELSE "setAdd"]
      BY <2>3, <2>5, <3>1, <1>6 DEF SetCheck
    <3>3. loc'[t] = c /\ \/ pc'[t] \in {"setNewLock", "setAdd"} /\ loc[t].new # Null
                         \/ old = Null /\ pc'[t] = "setStore"
                         \/ old # Null /\ pc'[t] \in {"setOldLock", "setRemove"}
      <4>1. loc'[t] = c
        BY <3>2, <1>0
      <4>2. CASE loc[t].new = Null
        BY <3>2, <4>2, <1>0, <2>5, <4>1 DEF OldValueLabel
      <4>3. CASE loc[t].new # Null
        <5>1. pc'[t] \in {"setNewLock", "setAdd"}
          BY <4>3, <3>2, <1>0
        <5> QED
          BY <4>1, <4>3, <5>1
      <4> QED
        BY <4>2, <4>3
    <3>4. c = [obj |-> loc[t].obj, slot |-> loc[t].slot, new |-> loc[t].new, old |-> old,
               role |-> loc[t].role, hold |-> loc[t].hold] /\ c \in Assignments
      BY <1>2, <3>1, AssignmentFacts DEF Assignments
    <3>5. c.obj = loc[t].obj /\ c.slot = loc[t].slot /\ c.new = loc[t].new /\ c.old = old /\ c.role = loc[t].role
      BY <3>4
    <3> QED
      BY <3>3, <3>4, <3>5, <2>1, <2>2, <2>3, <2>5, <1>1, <1>2 DEF OpPlaces, SetLabels
  <2> QED
    BY <2>4, <2>5
<1>7. CASE SetNewLock(t) \/ SetOldLock(t)
  <2>1. PICK c : c = [loc[t] EXCEPT !.hold = TRUE]
    BY Zenon
  <2>2. c = [obj |-> loc[t].obj, slot |-> loc[t].slot, new |-> loc[t].new, old |-> loc[t].old,
             role |-> loc[t].role, hold |-> TRUE] /\ c \in Assignments
    BY <2>1, <1>2, AssignmentFacts, Zenon DEF Assignments
  <2>3. c.obj = loc[t].obj /\ c.slot = loc[t].slot /\ c.new = loc[t].new /\ c.old = loc[t].old /\ c.role = loc[t].role
    BY <2>2
  <2>4. /\ loc'[t] = c /\ refBy' = refBy /\ field' = field /\ garbage' = garbage
        /\ \/ pc[t] = "setNewLock" /\ pc'[t] = "setAdd" /\ TakeWrite(t, loc[t].new)
           \/ pc[t] = "setOldLock" /\ pc'[t] = "setRemove" /\ TakeWrite(t, loc[t].old)
    BY <2>1, <1>7, <1>0, Zenon DEF SetNewLock, SetOldLock
  <2>5. LockTypes'
    BY <2>4, <1>0, <1>2, LockTypesKept DEF OpPlaces, HeapTypes
  <2> QED
    BY <2>2, <2>3, <2>4, <2>5, <1>0, <1>1, <1>2 DEF HeapTypes, OpPlaces, SetLabels
<1>8. CASE SetAdd(t)
  <2>1. PICK c : c = [loc[t] EXCEPT !.hold = FALSE]
    BY Zenon
  <2>2. c = [obj |-> loc[t].obj, slot |-> loc[t].slot, new |-> loc[t].new, old |-> loc[t].old,
             role |-> loc[t].role, hold |-> FALSE] /\ c \in Assignments
    BY <2>1, <1>2, AssignmentFacts, Zenon DEF Assignments
  <2>3. c.obj = loc[t].obj /\ c.slot = loc[t].slot /\ c.new = loc[t].new /\ c.old = loc[t].old /\ c.role = loc[t].role
    BY <2>2
  <2>4. /\ loc'[t] = c /\ field' = field /\ garbage' = garbage /\ pc[t] = "setAdd"
        /\ refBy' = [refBy EXCEPT ![loc[t].new] = Append(@, loc[t].obj)]
        /\ pc' = [pc EXCEPT ![t] = OldValueLabel(t, loc[t].old)]
        /\ DropLock(t, loc[t].new) \/ UNCHANGED lockVars
    BY <2>1, <1>8, <1>0 DEF SetAdd
  <2>5. /\ loc[t].new \in Objects /\ loc[t].old = field[loc[t].obj][loc[t].slot] /\ loc[t].old # loc[t].new
    BY <2>4, <1>0, <1>2 DEF OpPlaces
  <2>6. LockTypes'
    BY <2>4, <2>5, <1>0, LockTypesKept, SameLockTypes DEF HeapTypes
  <2>7. refBy' \in [Objects -> Seq(Objects)]
    BY <2>5, <1>0, <1>2, AppendProperties, <2>4 DEF HeapTypes
  <2>8. \/ loc[t].old = Null /\ pc'[t] = "setStore"
        \/ loc[t].old # Null /\ pc'[t] \in {"setOldLock", "setRemove"}
    BY <2>4, <1>0 DEF OldValueLabel
  <2> QED
    BY <2>2, <2>3, <2>4, <2>5, <2>6, <2>7, <2>8, <1>0, <1>1, <1>2, ZenonT(30) DEF HeapTypes, OpPlaces, SetLabels
<1>9. CASE SetRemove(t)
  <2>1. pc[t] = "setRemove" /\ loc[t].old \in Objects /\ loc[t].old = field[loc[t].obj][loc[t].slot] /\ loc[t].old # loc[t].new
        /\ field' = field
    BY <1>9, <1>0, <1>2, Zenon DEF SetRemove, OpPlaces
  <2>2. CASE Refers(loc[t].obj, loc[t].old)
    <3>1. /\ loc' = loc /\ pc'[t] \in {"setOldRelease", "setStore"} /\ Unreference(t, loc[t].obj, loc[t].old)
      BY <2>2, <1>9, <1>0 DEF SetRemove
    <3>2. PICK rest : rest = SwapRemove(refBy[loc[t].old], loc[t].obj)
      OBVIOUS
    <3>3. /\ refBy' = [refBy EXCEPT ![loc[t].old] = rest] /\ garbage' \subseteq garbage \cup {loc[t].old}
          /\ DropLock(t, loc[t].old)
      BY <3>1, <3>2 DEF Unreference
    <3>4. rest \in Seq(Objects)
      BY <2>1, <2>2, <1>0, <3>2, SwapRemoveType DEF HeapTypes, Refers, At
    <3>5. LockTypes' /\ garbage' \subseteq Objects
      BY <3>3, <2>1, <1>0, LockTypesKept DEF HeapTypes
    <3>6. refBy' \in [Objects -> Seq(Objects)]
      BY <3>3, <3>4, <1>0, Zenon DEF HeapTypes
    <3> QED
      BY <3>1, <3>5, <3>6, <2>1, <1>0, <1>1, <1>2, Zenon DEF HeapTypes, OpPlaces, SetLabels
  <2>3. CASE ~Refers(loc[t].obj, loc[t].old)
    BY <2>3, <1>9, <1>0, <2>1, LockTypesKept, SameLockTypes, <1>1, <1>2, Zenon
   DEF SetRemove, Leave, HeapTypes, OpPlaces, SetLabels
  <2> QED
    BY <2>2, <2>3
<1>10. CASE SetOldRelease(t)
  <2>1. PICK c : c = [loc[t] EXCEPT !.hold = FALSE]
    BY Zenon
  <2>2. c = [obj |-> loc[t].obj, slot |-> loc[t].slot, new |-> loc[t].new, old |-> loc[t].old,
             role |-> loc[t].role, hold |-> FALSE] /\ c \in Assignments
    BY <2>1, <1>2, AssignmentFacts, Zenon DEF Assignments
  <2>3. c.obj = loc[t].obj /\ c.slot = loc[t].slot /\ c.new = loc[t].new /\ c.old = loc[t].old /\ c.role = loc[t].role
    BY <2>2
  <2>4. /\ loc'[t] = c /\ refBy' = refBy /\ field' = field /\ garbage' = garbage
        /\ pc[t] = "setOldRelease" /\ pc'[t] = "setStore" /\ DropLock(t, loc[t].old)
    BY <2>1, <1>10, <1>0 DEF SetOldRelease
  <2>5. LockTypes'
    BY <2>4, <1>0, <1>2, LockTypesKept DEF OpPlaces, HeapTypes
  <2> QED
    BY <2>2, <2>3, <2>4, <2>5, <1>0, <1>1, <1>2 DEF HeapTypes, OpPlaces, SetLabels
<1>11. CASE SetStore(t)
  BY <1>11, <1>0, <1>2, SameLockTypes, <1>1 DEF SetStore, Leave, HeapTypes, OpPlaces, SetLabels
<1>12. CASE SetDowngrade(t)
  BY <1>12, <1>0, SameLockTypes, <1>1 DEF SetDowngrade, HeapTypes, LockTypes, OpPlaces, SetLabels
<1> QED
  BY <1>5, <1>6, <1>7, <1>8, <1>9, <1>10, <1>11, <1>12 DEF Assign

\* An assignment begins.
LEMMA SetFieldPlaced ==
    ASSUME RootInv, NEW t \in Threads, Threads = {t}, Placed(t),
           NEW p \in Objects, NEW s \in Slots, NEW x \in {Null} \cup Objects, SetField(t, p, s, x)
    PROVE  Placed(t)'
<1>0. /\ pc = [u \in Threads |-> pc[u]] /\ loc = [u \in Threads |-> loc[u]]
      /\ HeapTypes /\ OpPlaces(t) /\ WalkPlaces(t)
  BY DEF RootInv, HandleTypes, Placed
<1>1. PICK role \in {"root", "field", "ro_pin", "rw_pin"},
             c \in {[obj |-> p, slot |-> s, new |-> x, old |-> Null, role |-> r, hold |-> FALSE] :
                       r \in {"root", "field", "ro_pin", "rw_pin"}} :
         /\ c = [obj |-> p, slot |-> s, new |-> x, old |-> Null, role |-> role, hold |-> FALSE]
         /\ StartOp(t, IF role = "ro_pin" THEN "setUpgrade" ELSE "setCheck", c)
         /\ role = "ro_pin" => x \in roPins[t]
  BY Zenon DEF SetField, Sources
<1>2. c \in Assignments /\ c.obj = p /\ c.new = x /\ c.role = role
  BY <1>1 DEF Assignments
<1>3. /\ pc[t] = Idle /\ p \in rwPins[t] /\ loc'[t] = c /\ col' = col /\ stk' = stk /\ roPins' = roPins /\ rwPins' = rwPins
      /\ IF role = "ro_pin" THEN pc'[t] = "setUpgrade" ELSE pc'[t] = "setCheck"
      /\ UNCHANGED <<refBy, field, garbage, allocations>> /\ UNCHANGED lockVars
  BY <1>0, <1>1, Zenon DEF SetField, StartOp, Goto, headerVars, heapVars, clientVars, colVars
<1>4. HeapTypes'
  BY <1>0, <1>3, SameLockTypes DEF HeapTypes
<1>5. OpPlaces(t)'
  BY <1>1, <1>2, <1>3 DEF OpPlaces, SetLabels
<1>6. WalkPlaces(t)' /\ SearchPlaces(t)'
  BY <1>0, <1>3 DEF WalkPlaces, SearchPlaces, CandidateLabels, FindLabels, ScanLabels, DestroyLabels, ListLabels, Idle
<1> QED
  BY <1>4, <1>5, <1>6 DEF Placed

\* A step of a walk is no assignment and no drop.
LEMMA WalkStep ==
    ASSUME NEW t \in Threads, Placed(t), AmongLists(t), HeapTypes', WalkPlaces(t)', SearchPlaces(t)'
    PROVE  Placed(t)'
  BY DEF AmongLists, ListLabels, SetLabels, Idle, OpPlaces, Placed

\* The scan over a list.
LEMMA ScanPlaced ==
    ASSUME RootInv, NEW t \in Threads, Threads = {t}, Placed(t),
           \/ CollectId(t) \/ CollectEnd(t) \/ CollectNext(t) \/ CollectTry(t) \/ CollectUntry(t)
           \/ CollectRead(t) \/ CollectFlag(t) \/ CollectRelease(t) \/ CollectUpgrade(t)
    PROVE  Placed(t)'
<1>0. /\ pc = [u \in Threads |-> pc[u]] /\ col = [u \in Threads |-> col[u]]
      /\ HeapTypes /\ WalkPlaces(t) /\ SearchPlaces(t) /\ AmongLists(t)
  BY CollectIsAmongLists DEF RootInv, HandleTypes, Placed, Collect
<1> USE DEF headerVars, heapVars, implVars, clientVars, opVars, Goto, StartCol
<1>1. /\ pc[t] \in ScanLabels \cup {"colId", "colNext"} /\ col[t] \in Walks /\ col[t].back = "colNext"
      /\ pc[t] \in ScanLabels => Candidate(t) \in Objects
      /\ UNCHANGED <<refBy, field, garbage, allocations>>
  <2>1. /\ pc[t] \in ScanLabels \cup {"colId", "colNext"} /\ UNCHANGED <<refBy, field, garbage, allocations>>
    BY <1>0, Zenon DEF CollectId, CollectEnd, CollectNext, CollectTry, CollectUntry, CollectRead,
                      CollectFlag, CollectRelease, CollectUpgrade, ScanLabels
  <2> QED
    BY <2>1, <1>0 DEF WalkPlaces, ScanLabels, ListLabels, CandidateLabels
<1> DEFINE Found == /\ LockTypes' /\ stk' \in [Threads -> Seq(Frames)]
                    /\ \/ pc'[t] = Idle /\ col'[t] = NoLocals
                       \/ /\ pc'[t] = "colNext" /\ col'[t] \in Walks /\ col'[t].back = "colNext"
                       \/ /\ pc'[t] \in ScanLabels /\ col'[t] \in Walks /\ col'[t].back = "colNext"
                          /\ Candidate(t)' \in Objects
                       \/ /\ pc'[t] = "findEnter" /\ col'[t] = col[t] /\ Candidate(t) \in Objects
                          /\ stk'[t] = <<Frame(Candidate(t))>>
                       \/ /\ pc'[t] = "desUnregister" /\ col'[t] = col[t] /\ Candidate(t) \in Objects
<1>2. SUFFICES Found
  <2>1. HeapTypes'
    BY <1>0, <1>1, <1>2 DEF HeapTypes
  <2>2. WalkPlaces(t)'
    BY <1>1, <1>2 DEF WalkPlaces, Candidate, CandidateLabels, ScanLabels, FindLabels, DestroyLabels, ListLabels, Idle
  <2>3. SearchPlaces(t)'
    <3>1. CASE pc'[t] = "findEnter"
      BY <3>1, <1>2 DEF Frame, ScanLabels, Idle, Candidate, SearchPlaces
    <3>2. CASE pc'[t] # "findEnter"
      BY <3>2, <1>2 DEF SearchPlaces, ScanLabels, FindLabels, Idle
    <3> QED
      BY <3>1, <3>2
  <2> QED
    BY <2>1, <2>2, <2>3, <1>0, WalkStep
<1> HIDE DEF Found
<1>3. CASE CollectId(t)
  BY <1>3, <1>0, <1>1, SameLockTypes DEF Found, CollectId, HeapTypes, colVars
<1>4. CASE CollectEnd(t)
  BY <1>4, <1>0, <1>1, SameLockTypes DEF Found, CollectEnd, HeapTypes
<1>5. CASE CollectNext(t)
  <2>1. UNCHANGED lockVars /\ stk' = stk /\ pc[t] = "colNext" /\ col[t].i <= Len(allocations[col[t].page])
    BY <1>5, Zenon DEF CollectNext
  <2>2. PICK o : o = allocations[col[t].page][col[t].i]
    OBVIOUS
  <2>3. o \in Objects
    BY <1>0, <1>1, <2>1, <2>2, ElementOfSeq DEF Walks, HeapTypes
  <2>4. LockTypes' /\ stk' \in [Threads -> Seq(Frames)]
    BY <2>1, <1>0, SameLockTypes DEF HeapTypes
  <2>5. CASE o \notin lookup /\ col[t].page # Large
    BY <2>2, <2>4, <2>5, <1>5, <1>0, Zenon DEF CollectNext, Abort, Found
  <2>6. CASE (o \in lookup \/ col[t].page = Large) /\ rootCount[o] > 0
    BY <2>2, <2>6, <1>5, <1>0, <1>1, WalkMoves, <2>1, <2>4, Zenon DEF CollectNext, Found
  <2>7. CASE (o \in lookup \/ col[t].page = Large) /\ ~(rootCount[o] > 0)
    <3>1. PICK c : c = [col[t] EXCEPT !.obj = o]
      BY Zenon
    <3>2. pc'[t] = "colTry" /\ col'[t] = c
      BY <2>2, <2>7, <3>1, <1>5, <1>0, Zenon DEF CollectNext
    <3>3. c \in Walks /\ c.back = col[t].back /\ c.obj = o
      BY <2>3, <3>1, <1>1, WalkLooks
    <3> QED
      BY <2>3, <2>4, <3>2, <3>3, <1>1 DEF Found, ScanLabels, Candidate
  <2> QED
    BY <2>5, <2>6, <2>7
<1>6. ASSUME NextCandidate(t), LockTypes', stk' = stk
      PROVE  Found
  BY <1>1, WalkPasses, <1>6, <1>0, Zenon DEF NextCandidate, Found, HeapTypes
<1>7. CASE CollectTry(t)
  <2>1. pc[t] = "colTry" /\ Candidate(t) \in Objects /\ stk' = stk
    BY <1>7, <1>1 DEF CollectTry, ScanLabels
  <2>2. CASE word[Candidate(t)] = Free
    BY <2>2, <1>7, <1>0, <2>1, LockTypesKept, <1>1
    DEF CollectTry, HeapTypes, Found, ScanLabels, Candidate
  <2>3. CASE word[Candidate(t)] # Free
    BY <2>1, <2>3, <1>7, <1>6, <1>0, SameLockTypes DEF CollectTry, HeapTypes
  <2> QED
    BY <2>2, <2>3
<1>8. CASE CollectUntry(t)
  BY <1>8, <1>0, <1>1, LockTypesKept
  DEF CollectUntry, ScanLabels, colVars, HeapTypes, Found, Candidate
<1>9. CASE CollectRead(t)
  <2>1. pc[t] = "colRead" /\ Candidate(t) \in Objects /\ stk' = stk
    BY <1>9, <1>1 DEF CollectRead, ScanLabels
  <2>2. CASE TakeRead(Candidate(t)) /\ Goto(t, "colFlag") /\ UNCHANGED col
    BY <2>1, <2>2, <1>0, LockTypesKept, <1>1 DEF HeapTypes, Found, ScanLabels, Candidate
  <2>3. CASE NextCandidate(t) /\ UNCHANGED lockVars
    BY <2>1, <2>3, <1>6, <1>0, SameLockTypes DEF HeapTypes
  <2> QED
    BY <2>2, <2>3, <1>9 DEF CollectRead
<1>10. CASE CollectFlag(t)
  <2>1. /\ pc[t] = "colFlag" /\ Candidate(t) \in Objects /\ col' = col /\ UNCHANGED lockVars
    BY <1>10, <1>1 DEF CollectFlag, ScanLabels
  <2>2. LockTypes'
    BY <2>1, <1>0, SameLockTypes DEF HeapTypes
  <2>3. CASE Candidate(t) \in garbage
    BY <2>3, <1>10, <1>0, <2>1, <2>2, <1>1 DEF CollectFlag, Found, ScanLabels, HeapTypes, Candidate
  <2>4. CASE Candidate(t) \notin garbage
    <3>1. pc'[t] = "findEnter" /\ stk' = [stk EXCEPT ![t] = <<Frame(Candidate(t))>>]
      BY <2>4, <1>10, <1>0 DEF CollectFlag
    <3>2. Frame(Candidate(t)) \in Frames
      BY <2>1 DEF Frame, Frames
    <3>3. <<Frame(Candidate(t))>> \in Seq(Frames)
      BY <3>2
    <3>4. stk' \in [Threads -> Seq(Frames)] /\ stk'[t] = <<Frame(Candidate(t))>>
      BY <3>1, <3>3, <1>0 DEF HeapTypes
    <3> QED
      BY <2>1, <2>2, <3>1, <3>4 DEF Found
  <2> QED
    BY <2>3, <2>4
<1>11. CASE CollectRelease(t)
  BY <1>11, <1>1, <1>0, LockTypesKept, <1>6 DEF CollectRelease, ScanLabels, HeapTypes
<1>12. CASE CollectUpgrade(t)
  <2>1. pc[t] = "colUpgrade" /\ Candidate(t) \in Objects /\ stk' = stk
    BY <1>12, <1>1, Zenon DEF CollectUpgrade, ScanLabels
  <2>2. CASE CanUpgrade(Candidate(t))
    BY <2>2, <1>12, <1>0, <2>1, LockTypesKept, <1>1 DEF CollectUpgrade, HeapTypes, Found
  <2>3. CASE ~CanUpgrade(Candidate(t))
    BY <2>3, <1>12, <1>0, SameLockTypes, <2>1, Zenon DEF CollectUpgrade, Abort, HeapTypes, Found
  <2> QED
    BY <2>2, <2>3
<1> QED
  BY <1>3, <1>4, <1>5, <1>7, <1>8, <1>9, <1>10, <1>11, <1>12

\* The search for a root.
LEMMA FindPlaced ==
    ASSUME RootInv, NEW t \in Threads, Threads = {t}, Placed(t), Find(t)
    PROVE  Placed(t)'
<1>0. /\ pc = [u \in Threads |-> pc[u]] /\ col = [u \in Threads |-> col[u]]
      /\ HeapTypes /\ WalkPlaces(t) /\ SearchPlaces(t) /\ AmongLists(t)
  BY CollectIsAmongLists DEF RootInv, HandleTypes, Placed, Collect
<1> USE DEF headerVars, heapVars, implVars, clientVars, opVars, Goto, StartCol
<1>1. /\ pc[t] \in FindLabels /\ col[t] \in Walks /\ col[t].back = "colNext" /\ Candidate(t) \in Objects
      /\ UNCHANGED <<refBy, field, allocations>> /\ stk[t] # <<>> /\ stk[t][1].obj = Candidate(t)
      /\ stk[t] \in Seq(Frames) /\ stk \in [Threads -> Seq(Frames)]
  <2>1. /\ pc[t] \in FindLabels /\ UNCHANGED <<refBy, field, allocations>>
    BY <1>0, Zenon DEF Find, FindEnter, FindFlag, FindScan, FindDescend, FindLock, FindReturn, FindRelease, FindLabels
  <2> QED
    BY <2>1, <1>0 DEF WalkPlaces, SearchPlaces, FindLabels, ListLabels, CandidateLabels, HeapTypes
<1>2. PICK n \in Nat \ {0} : n = Len(stk[t]) /\ \A f \in 1 .. n : stk[t][f] \in Frames
  BY <1>1, StackFacts
<1>3. Top(t) = stk[t][n] /\ Top(t) \in Frames /\ Top(t).obj \in Objects /\ Top(t).k \in Nat \ {0}
  BY <1>2 DEF Top, Frames
<1> DEFINE Fine == /\ LockTypes' /\ garbage' \subseteq Objects /\ stk' = [stk EXCEPT ![t] = stk'[t]]
                   /\ col'[t] \in Walks /\ col'[t].back = "colNext" /\ Candidate(t)' = Candidate(t)
                   /\ \/ /\ pc'[t] \in FindLabels /\ stk'[t] \in Seq(Frames) /\ stk'[t] # <<>>
                         /\ stk'[t][1].obj = Candidate(t)
                         /\ pc'[t] \in {"findDescend", "findLock"} => Top(t)'.ref \in Objects
                         /\ pc'[t] = "findRelease" => Len(stk'[t]) # 1
                      \/ pc'[t] \in {"colRelease", "colUpgrade"} /\ stk'[t] = <<>>
<1>4. SUFFICES Fine
  <2>1. stk'[t] \in Seq(Frames)
    BY EmptySeq, <1>4, Zenon
  <2>2. HeapTypes'
    BY <2>1, <1>0, <1>1, <1>4 DEF HeapTypes
  <2>3. WalkPlaces(t)'
    BY <1>1, <1>4 DEF WalkPlaces, Candidate, CandidateLabels, ScanLabels, FindLabels, DestroyLabels, ListLabels
  <2>4. SearchPlaces(t)'
    BY <1>4 DEF SearchPlaces, FindLabels
  <2> QED
    BY <2>2, <2>3, <2>4, <1>0, WalkStep
<1> HIDE DEF Fine
<1>5. garbage \subseteq Objects /\ LockTypes /\ stk = [stk EXCEPT ![t] = stk[t]]
  BY <1>0, <1>1 DEF HeapTypes
<1>6. ASSUME NEW f \in BOOLEAN, FindReturns(t, f), UNCHANGED lockVars, garbage' = garbage, stk' = stk
      PROVE  Fine
  BY <1>1, WalkFinds, <1>6, <1>0, <1>5, SameLockTypes DEF FindReturns, Fine, FindLabels, Candidate
<1>7. ASSUME pc'[t] \in {"findFlag", "findScan"}, UNCHANGED lockVars, garbage' = garbage, stk' = stk, col' = col
      PROVE  Fine
  BY <1>5, <1>7, SameLockTypes, <1>1 DEF Fine, FindLabels, Candidate
<1>8. CASE FindEnter(t)
  BY <1>8, <1>6, <1>7, <1>0, Zenon DEF FindEnter
<1>9. CASE FindFlag(t)
  BY <1>9, <1>6, <1>7, <1>0, Zenon DEF FindFlag
<1>10. CASE FindScan(t)
  <2>1. UNCHANGED lockVars /\ garbage' = garbage
    BY <1>10 DEF FindScan
  <2>2. CASE Top(t).k > Len(refBy[Top(t).obj]) \/ rootCount[refBy[Top(t).obj][Top(t).k]] > 0
    BY <2>2, <1>10, <1>0, <2>1, <1>6, Zenon DEF FindScan, FindReturns
  <2>3. CASE ~(Top(t).k > Len(refBy[Top(t).obj]) \/ rootCount[refBy[Top(t).obj][Top(t).k]] > 0)
    <3>1. PICK r : r = refBy[Top(t).obj][Top(t).k]
      OBVIOUS
    <3>2. r \in Objects
      BY <1>0, <1>3, LenProperties, <2>3, <3>1, ElementOfSeq DEF HeapTypes
    <3>3. pc'[t] = "findDescend" /\ col' = col
      BY <2>3, <1>10, <1>0, Zenon DEF FindScan
    <3>4. stk' = [stk EXCEPT ![t][Len(stk[t])].ref = refBy[Top(t).obj][Top(t).k]]
      BY <3>3, <1>10 DEF FindScan
    <3>5. PICK top : top = [stk[t][n] EXCEPT !.ref = r]
      BY Zenon
    <3>6. top \in Frames /\ top.obj = stk[t][n].obj /\ top.ref = r
      <4>1. PICK o \in Objects, k \in Nat \ {0}, q \in Objects \cup {Null} :
               stk[t][n] = [obj |-> o, k |-> k, ref |-> q]
        <5>1. stk[t][n] \in Frames
          BY <1>2
        <5> QED
          BY <5>1, Zenon DEF Frames
      <4>2. top = [obj |-> o, k |-> k, ref |-> r]
        BY <4>1, <3>5
      <4> QED
        BY <4>1, <4>2, <3>2 DEF Frames
    <3>7. stk' = [stk EXCEPT ![t] = [stk[t] EXCEPT ![n] = top]]
      BY <3>1, <3>4, <3>5, <1>2
    <3>8. PICK s : s = [stk[t] EXCEPT ![n] = top]
      BY Zenon
    <3>9. s \in Seq(Frames) /\ s # <<>> /\ Len(s) = n /\ s[n] = top /\ s[1].obj = stk[t][1].obj
      BY <1>1, <1>2, LenProperties, <3>6, <3>8
    <3>10. stk'[t] = s /\ stk' = [stk EXCEPT ![t] = s] /\ Top(t)' = top
      BY <3>7, <3>8, <1>1, <3>9 DEF Top
    <3>11. LockTypes'
      BY <2>1, <1>5, SameLockTypes
    <3>12. pc'[t] \in FindLabels /\ pc'[t] # "findRelease" /\ Top(t)'.ref \in Objects
      BY <3>2, <3>3, <3>6, <3>10, <1>0 DEF FindLabels
    <3>13. col'[t] \in Walks /\ col'[t].back = "colNext" /\ Candidate(t)' = Candidate(t)
      BY <1>1, <3>3 DEF Candidate
    <3>14. garbage' \subseteq Objects
      BY <2>1, <1>0 DEF HeapTypes
    <3>15. stk' = [stk EXCEPT ![t] = stk'[t]] /\ stk'[t] \in Seq(Frames) /\ stk'[t] # <<>>
           /\ stk'[t][1].obj = Candidate(t)
      BY <1>1, <3>9, <3>10, Zenon
    <3> QED
      BY <3>11, <3>12, <3>13, <3>14, <3>15, Zenon DEF Fine
  <2> QED
    BY <2>2, <2>3
<1>11. CASE FindDescend(t)
  <2>1. PICK r \in Objects : r = Top(t).ref
    BY <1>11, <1>0 DEF FindDescend, SearchPlaces
  <2>2. garbage' = garbage /\ UNCHANGED lockVars /\ col' = col
    BY <1>11 DEF FindDescend
  <2>3. CASE Goto(t, "findScan") /\ stk' = [stk EXCEPT ![t] = Advance(@)]
    <3>1. PICK s : s = Advance(stk[t])
      OBVIOUS
    <3>2. s \in Seq(Frames) /\ s # <<>>
      BY <3>1, <1>1, StackFacts, Zenon
    <3>3. s[1].obj = stk[t][1].obj
      <4>1. CASE n = 1
        <5>1. s[n] = [obj |-> stk[t][n].obj, k |-> stk[t][n].k + 1, ref |-> Null]
          BY <3>1, <1>1, <1>2, StackFacts
        <5> QED
          BY <4>1, <5>1
      <4>2. CASE n # 1
        <5>1. 1 \in 1 .. n - 1
          BY <4>2
        <5>2. s[1] = stk[t][1]
          BY <5>1, <3>1, <1>1, <1>2, StackFacts, Zenon
        <5> QED
          BY <5>2
      <4> QED
        BY <4>1, <4>2
    <3>4. stk'[t] = s /\ stk' = [stk EXCEPT ![t] = s] /\ pc'[t] = "findScan" /\ col' = col
      BY <2>2, <2>3, <3>1, <1>0, <1>1
    <3>5. LockTypes'
      BY <2>2, <1>5, SameLockTypes
    <3> QED
      BY <2>2, <3>2, <3>3, <3>4, <3>5, <1>1, <1>5 DEF Fine, FindLabels, Candidate
  <2>4. CASE Goto(t, "findLock") /\ stk' = stk
    <3>1. LockTypes' /\ pc'[t] = "findLock" /\ Top(t)' = Top(t)
      BY <2>2, <2>4, <1>0, <1>5, SameLockTypes DEF Top
    <3> QED
      BY <2>1, <2>2, <2>4, <3>1, <1>1, <1>5 DEF Fine, FindLabels, Candidate
  <2> QED
    BY <2>3, <2>4, <1>11, Zenon DEF FindDescend
<1>13. CASE FindLock(t)
  <2>1. PICK r \in Objects : r = Top(t).ref
    BY <1>13, <1>0 DEF FindLock, SearchPlaces
  <2>2. garbage' = garbage
    BY <1>13 DEF FindLock
  <2>3. CASE TakeRead(r) /\ Goto(t, "findEnter") /\ stk' = [stk EXCEPT ![t] = Append(@, Frame(r))] /\ UNCHANGED col
    BY <1>1, <1>2, AppendProperties, <2>3, <1>0, <1>5, LockTypesKept, <2>2
    DEF Frame, Frames, Fine, FindLabels, Candidate
  <2>4. CASE FindReturns(t, TRUE) /\ UNCHANGED <<lockVars, stk>>
    BY <2>2, <2>4, <1>6, Zenon
  <2> QED
    BY <2>1, <2>3, <2>4, <1>13, Zenon DEF FindLock
<1>15. ASSUME n # 1
      PROVE  /\ Below(t) \in Seq(Frames) /\ Below(t) # <<>> /\ Below(t)[1].obj = stk[t][1].obj
             /\ Advance(Below(t)) \in Seq(Frames) /\ Advance(Below(t)) # <<>>
             /\ Advance(Below(t))[1].obj = stk[t][1].obj
  <2>1. PICK b : b = Below(t)
    OBVIOUS
  <2>2. b \in Seq(Frames) /\ b # <<>> /\ Len(b) = n - 1 /\ b[1] = stk[t][1]
    <3>1. b = SubSeq(stk[t], 1, n - 1) /\ n > 1 /\ n \in Nat /\ 1 \in 1 .. n - 1
      <4>1. b = SubSeq(stk[t], 1, n - 1)
        BY <2>1, <1>2 DEF Below
      <4>2. n \in Nat /\ n > 1 /\ 1 \in 1 .. n - 1
        BY <1>15
      <4> QED
        BY <4>1, <4>2
    <3>2. SubSeq(stk[t], 1, n - 1) \in Seq(Frames) /\ Len(SubSeq(stk[t], 1, n - 1)) = n - 1
          /\ SubSeq(stk[t], 1, n - 1) # <<>>
          /\ \A f \in 1 .. n - 1 : SubSeq(stk[t], 1, n - 1)[f] = stk[t][f]
      BY <3>1, <1>1, <1>2, StackBelow, Zenon
    <3> QED
      BY <3>1, <3>2
  <2>3. PICK a : a = Advance(b)
    OBVIOUS
  <2>4. a \in Seq(Frames) /\ a # <<>> /\ a[1].obj = stk[t][1].obj
    <3>1. a \in Seq(Frames) /\ a # <<>>
      BY <2>2, <2>3, StackFacts, Zenon
    <3>2. CASE n - 1 = 1
      <4>1. Len(b) = 1 /\ a[1] = [obj |-> b[1].obj, k |-> b[1].k + 1, ref |-> Null]
        BY <3>2, <2>2, <2>3, StackFacts
      <4> QED
        BY <4>1, <2>2, <3>1
    <3>3. CASE n - 1 # 1
      <4>1. 1 \in 1 .. (n - 1) - 1
        BY <1>15, <3>3
      <4>2. a[1] = b[1]
        BY <4>1, <2>2, <2>3, StackFacts, Zenon
      <4> QED
        BY <4>2, <2>2, <3>1
    <3> QED
      BY <3>1, <3>2, <3>3
  <2> QED
    BY <2>1, <2>2, <2>3, <2>4
<1>12. CASE FindReturn(t)
  <2>1. PICK r \in Objects : r = Top(t).obj
    BY <1>3
  <2>2. pc[t] = "findReturn" /\ col' = col
    BY <1>12 DEF FindReturn
  <2>3. CASE n = 1
    BY <2>3, <1>2, <1>12, <1>0, <1>1, <1>5, SameLockTypes, <2>2 DEF FindReturn, Fine, Candidate
  <2>4. CASE n # 1 /\ col[t].found
    <3>1. DropLock(t, r) /\ garbage' = garbage /\ stk' = [stk EXCEPT ![t] = Below(t)] /\ pc' = pc
      BY <2>1, <2>4, <1>2, <1>12 DEF FindReturn
    <3>2. LockTypes'
      BY <3>1, <1>5, LockTypesKept
    <3>3. stk'[t] = Below(t) /\ stk' = [stk EXCEPT ![t] = stk'[t]]
      BY <3>1, <1>1
    <3> QED
      BY <2>2, <2>4, <3>1, <3>2, <3>3, <1>1, <1>5, <1>15 DEF Fine, FindLabels, Candidate
  <2>5. CASE n # 1 /\ ~col[t].found
    <3>1. /\ garbage' = garbage \cup {r} /\ UNCHANGED lockVars /\ stk' = stk
          /\ pc'[t] = "findRelease"
      BY <2>1, <2>5, <1>2, <1>12, <1>0 DEF FindReturn
    <3>2. LockTypes'
      BY <3>1, <1>5, SameLockTypes
    <3> QED
      BY <2>1, <2>2, <2>5, <3>1, <3>2, <1>1, <1>2, <1>5 DEF Fine, FindLabels, Candidate
  <2> QED
    BY <2>3, <2>4, <2>5
<1>14. CASE FindRelease(t)
  <2>1. PICK r \in Objects : r = Top(t).obj
    BY <1>3
  <2>2. n # 1
    BY <1>14, <1>0, <1>2 DEF FindRelease, SearchPlaces
  <2>3. /\ DropLock(t, r) /\ garbage' = garbage /\ stk' = [stk EXCEPT ![t] = Advance(Below(t))]
        /\ pc'[t] = "findScan" /\ col' = col
    BY <2>1, <1>14, <1>0 DEF FindRelease
  <2>4. LockTypes'
    BY <2>3, <1>5, LockTypesKept
  <2>5. stk'[t] = Advance(Below(t)) /\ stk' = [stk EXCEPT ![t] = stk'[t]]
    BY <2>3, <1>1
  <2> QED
    BY <2>2, <2>3, <2>4, <2>5, <1>1, <1>5, <1>15 DEF Fine, FindLabels, Candidate
<1> QED
  BY <1>8, <1>9, <1>10, <1>11, <1>12, <1>13, <1>14 DEF Find

LEMMA SwapRemoveSeq ==
    ASSUME NEW T, NEW list \in Seq(T), NEW e
    PROVE  SwapRemove(list, e) \in Seq(T)
<1>1. PICK n \in Nat : n = Len(list)
  BY LenProperties
<1>2. \A i \in 1 .. n : list[i] \in T
  BY <1>1, ElementOfSeq
<1>3. PICK k : k = CHOOSE i \in DOMAIN list : list[i] = e /\ \A j \in 1 .. i - 1 : list[j] # e
  OBVIOUS
<1>4. SwapRemove(list, e) = [i \in 1 .. n - 1 |-> IF i = k THEN list[n] ELSE list[i]]
  BY <1>1, <1>3 DEF SwapRemove
<1>5. PICK rest : rest = SwapRemove(list, e)
  OBVIOUS
<1>6. CASE n = 0
  BY <1>6, <1>4, <1>5
<1>7. CASE n # 0
  BY <1>7, <1>2, <1>4, <1>5
<1> QED
  BY <1>6, <1>7

\* What find and erase make of a list.
LEMMA FirstRemoved ==
    ASSUME NEW T, NEW list \in Seq(T), NEW e, At(list, e) # {}
    PROVE  \E k \in At(list, e) :
              /\ k \in 1 .. Len(list) /\ Len(list) \in Nat \ {0}
              /\ RemoveFirst(list, e) \in Seq(T)
              /\ Len(RemoveFirst(list, e)) = Len(list) - 1
              /\ \A j \in 1 .. Len(list) - 1 :
                    RemoveFirst(list, e)[j] = IF j < k THEN list[j] ELSE list[j + 1]
<1>1. Len(list) \in Nat /\ DOMAIN list = 1 .. Len(list)
  BY LenProperties
<1>2. At(list, e) \in SUBSET Nat
  BY <1>1 DEF At
<1>3. PICK k : k = Min(At(list, e))
  OBVIOUS
<1>4. k \in At(list, e) /\ list[k] = e
  BY <1>2, LeastNumber, <1>3, Zenon DEF Min, At
<1>5. SelectInSeq(list, LAMBDA v : v = e) = k
  BY <1>1, <1>3 DEF At, SelectInSeq
<1>6. PICK n \in Nat \ {0} : n = Len(list) /\ k \in 1 .. n
  <2>1. k \in 1 .. Len(list)
    BY <1>1, <1>4 DEF At
  <2>2. Len(list) \in Nat \ {0}
    BY <1>1, <2>1
  <2> QED
    BY <2>1, <2>2
<1>7. RemoveFirst(list, e) = RemoveAt(list, k)
  BY <1>4, <1>6, <1>5 DEF RemoveFirst
<1>8. \A j \in 1 .. n : list[j] \in T
  BY <1>6, ElementOfSeq
<1>9. PICK a : a = SubSeq(list, 1, k - 1)
  BY Zenon
<1>10. PICK b : b = SubSeq(list, k + 1, n)
  BY Zenon
<1>11. a \in Seq(T) /\ Len(a) = k - 1 /\ \A j \in 1 .. k - 1 : a[j] = list[j]
  <2>1. PICK m \in Nat : m = k - 1 /\ m < n
    BY <1>6
  <2>2. \A j \in 1 .. m : list[j] \in T
    BY <2>1, <1>6, <1>8
  <2>3. a = SubSeq(list, 1, m)
    BY <2>1, <1>9
  <2>4. a \in Seq(T) /\ Len(a) = (IF 1 <= m THEN m - 1 + 1 ELSE 0) /\ \A j \in 1 .. m - 1 + 1 : a[j] = list[1 + j - 1]
    BY <2>1, <2>2, <2>3, SubSeqProperties
  <2>5. (IF 1 <= m THEN m - 1 + 1 ELSE 0) = m /\ m - 1 + 1 = m
    BY <2>1
  <2>6. \A j \in 1 .. m : a[j] = list[j]
    BY <2>4, <2>5
  <2> QED
    BY <2>1, <2>4, <2>5, <2>6
<1>12. b \in Seq(T) /\ Len(b) = n - k /\ \A j \in 1 .. n - k : b[j] = list[k + j]
  <2>1. PICK m \in Nat : m = k + 1
    BY <1>6
  <2>2. \A j \in m .. n : list[j] \in T
    BY <2>1, <1>6, <1>8
  <2>3. b = SubSeq(list, m, n)
    BY <2>1, <1>10
  <2>4. b \in Seq(T) /\ Len(b) = (IF m <= n THEN n - m + 1 ELSE 0) /\ \A j \in 1 .. n - m + 1 : b[j] = list[m + j - 1]
    BY <2>1, <1>6, <2>2, <2>3, SubSeqProperties
  <2>5. (IF m <= n THEN n - m + 1 ELSE 0) = n - k /\ n - m + 1 = n - k
    BY <2>1, <1>6
  <2>6. \A j \in 1 .. n - k : b[j] = list[k + j]
    BY <2>1, <1>6, <2>4, <2>5
  <2> QED
    BY <2>4, <2>5, <2>6
<1>13. PICK c : c = a \o b
  BY Zenon
<1>14. c \in Seq(T) /\ Len(c) = Len(a) + Len(b)
       /\ \A j \in 1 .. Len(a) + Len(b) : c[j] = IF j <= Len(a) THEN a[j] ELSE b[j - Len(a)]
  BY <1>11, <1>12, <1>13, ConcatProperties, Zenon
<1>15. Len(c) = n - 1
  BY <1>6, <1>11, <1>12, <1>14
<1>16. ASSUME NEW j \in 1 .. n - 1
       PROVE  c[j] = IF j < k THEN list[j] ELSE list[j + 1]
  <2>1. j \in 1 .. Len(a) + Len(b) /\ Len(a) = k - 1 /\ j \in Nat /\ k \in Nat
    BY <1>6, <1>11, <1>12, <1>16
  <2>2. CASE j < k
    BY <2>1, <2>2, <1>11, <1>14
  <2>3. CASE ~(j < k)
    BY <1>6, <2>1, <2>3, <1>16, <1>14, <1>12
  <2> QED
    BY <2>2, <2>3
<1>17. RemoveFirst(list, e) = c
  BY <1>6, <1>10, <1>7, <1>9, <1>13 DEF RemoveAt
<1> QED
  BY <1>4, <1>6, <1>14, <1>15, <1>16, <1>17

LEMMA RemoveFirstSeq ==
    ASSUME NEW T, NEW list \in Seq(T), NEW e
    PROVE  RemoveFirst(list, e) \in Seq(T)
<1>1. CASE At(list, e) = {}
  BY <1>1, LenProperties DEF At, RemoveFirst
<1>2. CASE At(list, e) # {}
  BY <1>2, FirstRemoved
<1> QED
  BY <1>1, <1>2

\* A list without its last entry.
LEMMA FrontSeq ==
    ASSUME NEW T, NEW list \in Seq(T)
    PROVE  /\ SubSeq(list, 1, Len(list) - 1) \in Seq(T)
           /\ list # <<>> => /\ Len(SubSeq(list, 1, Len(list) - 1)) = Len(list) - 1
                             /\ Len(list) \in Nat \ {0}
                             /\ \A i \in 1 .. Len(list) - 1 :
                                   SubSeq(list, 1, Len(list) - 1)[i] = list[i]
<1>1. PICK n \in Nat : n = Len(list)
  BY LenProperties
<1>2. \A i \in 1 .. n : list[i] \in T
  BY <1>1, ElementOfSeq
<1>3. PICK m \in Int : m = n - 1 /\ m < n
  BY <1>1
<1>4. \A i \in 1 .. m : list[i] \in T
  BY <1>2, <1>3
<1>5. /\ SubSeq(list, 1, m) \in Seq(T)
      /\ Len(SubSeq(list, 1, m)) = IF 1 <= m THEN m - 1 + 1 ELSE 0
      /\ \A i \in 1 .. m - 1 + 1 : SubSeq(list, 1, m)[i] = list[1 + i - 1]
  BY <1>3, <1>4, SubSeqProperties
<1>6. list # <<>> => n \in Nat \ {0}
  BY <1>1, EmptySeq
<1>7. n # 0 => (IF 1 <= m THEN m - 1 + 1 ELSE 0) = n - 1
  BY <1>3
<1>8. m - 1 + 1 = n - 1 /\ \A i \in 1 .. n - 1 : 1 + i - 1 = i
  BY <1>3
<1> QED
  BY <1>1, <1>3, <1>5, <1>6, <1>7, <1>8

LEMMA ShrunkSeq ==
    ASSUME HeapTypes, NEW t \in Threads, col[t] \in Walks
    PROVE  Listed(t) \in Seq(Objects) /\ Shrunk(t) \in Seq(Objects)
<1>1. PICK list \in Seq(Objects) : list = Listed(t)
  BY DEF HeapTypes, Listed, Walks
<1>2. PICK o : o = Candidate(t)
  OBVIOUS
<1>3. /\ RemoveFirst(list, o) \in Seq(Objects) /\ SwapRemove(list, o) \in Seq(Objects)
      /\ SubSeq(list, 1, Len(list) - 1) \in Seq(Objects)
  BY RemoveFirstSeq, SwapRemoveSeq, FrontSeq
<1>4. col[t].back \in Backs
  BY DEF Walks
<1>5. Shrunk(t) \in {RemoveFirst(list, o), SwapRemove(list, o), SubSeq(list, 1, Len(list) - 1), list}
  BY <1>1, <1>2, <1>4 DEF Shrunk, Backs
<1> QED
  BY <1>1, <1>3, <1>5, Zenon

\* The destruction of an object.
LEMMA DestroyPlaced ==
    ASSUME RootInv, NEW t \in Threads, Threads = {t}, Placed(t), DestroyObject(t)
    PROVE  Placed(t)'
<1>0. /\ pc = [u \in Threads |-> pc[u]] /\ col = [u \in Threads |-> col[u]]
      /\ HeapTypes /\ WalkPlaces(t) /\ AmongLists(t)
  BY CollectIsAmongLists DEF RootInv, HandleTypes, Placed, Collect
<1> USE DEF headerVars, heapVars, implVars, clientVars, opVars, colVars, Goto, StartCol
<1>1. /\ pc[t] \in DestroyLabels /\ col[t] \in Walks /\ col[t].back \in Backs /\ Candidate(t) \in Objects
      /\ col[t].back # "colNext" => col[t].page = Large
      /\ stk' = stk
  <2>1. pc[t] \in DestroyLabels /\ stk' = stk
    BY <1>0, Zenon DEF DestroyObject, DestroyUnregister, DestroyField, DestroyReacquire, DestroyClear,
                DestroyRelease, DestroyFree, DestroyLabels
  <2> QED
    BY <2>1, <1>0 DEF WalkPlaces, DestroyLabels, ListLabels, CandidateLabels, Walks
<1>2. /\ pc[t] \in {"desClear", "desRelease"} =>
            col[t].slot \in Slots /\ FieldValue(t) \in Objects
      /\ ~FieldsDone(t) => FieldValue(t) \in Objects \cup {Null}
  BY <1>0, <1>1 DEF HeapTypes, FieldValue, WalkPlaces, FieldsDone
<1> DEFINE Fine == /\ LockTypes' /\ refBy' \in [Objects -> Seq(Objects)] /\ garbage' \subseteq Objects
                   /\ field' \in [Objects -> [Slots -> Objects \cup {Null}]]
                   /\ allocations' \in [Lists -> Seq(Objects)]
                   /\ \/ pc'[t] = Idle /\ col'[t] = NoLocals
                      \/ /\ pc'[t] = col[t].back /\ col'[t] \in Walks
                         /\ col'[t].back = col[t].back /\ col'[t].page = col[t].page
                      \/ /\ pc'[t] \in {"desField", "desReacquire"} /\ col'[t] \in Walks
                         /\ col'[t].back = col[t].back /\ col'[t].page = col[t].page
                         /\ Candidate(t)' = Candidate(t)
                      \/ /\ pc'[t] \in {"desClear", "desRelease"} /\ col'[t] = col[t]
                         /\ field' = field /\ col[t].slot \in Slots /\ FieldValue(t) # Null
<1>3. SUFFICES Fine
  <2>1. HeapTypes'
    BY <1>0, <1>1, <1>3 DEF HeapTypes
  <2>2. WalkPlaces(t)'
    <3>1. pc'[t] \in {"desClear", "desRelease"} => ~FieldsDone(t)' /\ FieldValue(t)' # Null
      BY <1>1, <1>3 DEF FieldsDone, FieldValue, Candidate, Idle, Backs
    <3> QED
      BY <3>1, <1>1, <1>3 DEF WalkPlaces, Candidate, CandidateLabels, ScanLabels, FindLabels,
                              DestroyLabels, ListLabels, Idle, Backs
  <2>3. SearchPlaces(t)'
    BY <1>1, <1>3 DEF SearchPlaces, FindLabels, Backs, Idle
  <2> QED
    BY <2>1, <2>2, <2>3, <1>0, WalkStep
<1> HIDE DEF Fine
<1>a. /\ LockTypes /\ refBy \in [Objects -> Seq(Objects)] /\ garbage \subseteq Objects
      /\ field \in [Objects -> [Slots -> Objects \cup {Null}]]
      /\ allocations \in [Lists -> Seq(Objects)]
  BY <1>0 DEF HeapTypes
<1>4. CASE DestroyUnregister(t)
  BY <1>4, <1>0, <1>1, <1>a, SameLockTypes DEF DestroyUnregister, Fine, Candidate
<1>5. CASE DestroyField(t)
  <2>1. ~FieldsDone(t) /\ UNCHANGED <<refBy, field, allocations, garbage>> /\ pc[t] = "desField"
    BY <1>5 DEF DestroyField
  <2>2. CASE FieldValue(t) = Null
    BY <1>1, WalkClears, <2>2, <1>5, <1>0, <1>a, SameLockTypes, <2>1
    DEF DestroyField, Fine, Candidate
  <2>3. CASE FieldValue(t) # Null /\ word[FieldValue(t)] = Free
    BY <2>3, <1>5, <1>0, <2>1, <1>2, <1>a, LockTypesKept DEF DestroyField, Fine, FieldsDone
  <2>4. CASE FieldValue(t) # Null /\ word[FieldValue(t)] # Free
    BY <2>4, <1>5, <1>0, <1>1, <1>a, LockTypesKept, <2>1 DEF DestroyField, Fine, Candidate
  <2> QED
    BY <2>2, <2>3, <2>4
<1>6. CASE DestroyReacquire(t)
  BY <1>6, <1>0, <1>1, <1>a, LockTypesKept DEF DestroyReacquire, Fine, Candidate
<1>7. CASE DestroyClear(t)
  <2>1. PICK x \in Objects : x = FieldValue(t)
    BY <1>7, <1>2, Zenon DEF DestroyClear
  <2>2. col[t].slot \in Slots /\ FieldValue(t) # Null /\ field' = field /\ allocations' = allocations
    BY <1>7, <1>0, Zenon DEF DestroyClear, WalkPlaces, FieldsDone
  <2>3. CASE Refers(Candidate(t), x)
    <3>1. Unreference(t, Candidate(t), x) /\ pc'[t] = "desRelease" /\ col' = col
      BY <2>1, <2>3, <1>7, <1>0 DEF DestroyClear
    <3>2. PICK rest : rest = SwapRemove(refBy[x], Candidate(t))
      OBVIOUS
    <3>3. refBy' = [refBy EXCEPT ![x] = rest] /\ garbage' \subseteq garbage \cup {x} /\ DropLock(t, x)
      BY <3>1, <3>2 DEF Unreference
    <3>4. rest \in Seq(Objects)
      BY <3>2, <2>1, <1>a, SwapRemoveSeq
    <3>5. LockTypes'
      BY <3>3, <1>a, LockTypesKept
    <3> QED
      BY <2>2, <3>1, <3>3, <3>4, <3>5, <1>a DEF Fine
  <2>4. CASE ~Refers(Candidate(t), x)
    <3>1. /\ pc'[t] = Idle /\ col'[t] = NoLocals /\ UNCHANGED <<refBy, garbage>>
          /\ word' = [word EXCEPT ![Candidate(t)] = Free, ![x] = Free]
          /\ rwSet' = [rwSet EXCEPT ![t] = @ \ {Candidate(t), x}]
      BY <2>1, <2>4, <1>7, <1>0, Zenon DEF DestroyClear, Abort
    <3>2. LockTypes'
      BY <3>1, <1>a DEF LockTypes, Free
    <3> QED
      BY <2>2, <3>1, <3>2, <1>a DEF Fine
  <2> QED
    BY <2>3, <2>4
<1>8. CASE DestroyRelease(t)
  BY <1>1, WalkClears, <1>8, <1>0, <1>2, <1>a, LockTypesKept DEF DestroyRelease, Fine, Candidate
<1>9. CASE DestroyFree(t)
  <2>1. PICK n \in Nat \ {0} : n = IF Shrunk(t) = Listed(t) THEN col[t].i + 1 ELSE col[t].i
    BY <1>1 DEF Walks
  <2>2. PICK c : c = [col[t] EXCEPT !.i = n, !.obj = Null, !.slot = 1]
    OBVIOUS
  <2>3. PICK w \in Walks : w = col[t]
    BY <1>1
  <2>4. c \in Walks /\ c.back = col[t].back /\ c.page = col[t].page
    <3>1. c = Onward(w, n)
      BY <2>2, <2>3 DEF Onward
    <3>2. w \in Walks
      BY <2>3
    <3>3. n \in Nat \ {0}
      BY <2>1
    <3>4. c \in Walks /\ c.back = w.back /\ c.page = w.page
      BY <3>1, <3>2, <3>3, WalkGoesOn
    <3> QED
      BY <3>4, <2>3
  <2>5. /\ col' = [col EXCEPT ![t] = [col[t] EXCEPT !.i = IF Shrunk(t) = Listed(t) THEN @ + 1 ELSE @,
                                                    !.obj = Null, !.slot = 1]]
        /\ pc'[t] = col[t].back /\ UNCHANGED <<refBy, garbage, field>> /\ UNCHANGED lockVars
        /\ allocations' = [allocations EXCEPT ![col[t].page] = Shrunk(t)]
    BY <1>9, <1>0 DEF DestroyFree
  <2>6. col'[t] = c
    <3>1. col'[t] = [col[t] EXCEPT !.i = IF Shrunk(t) = Listed(t) THEN @ + 1 ELSE @, !.obj = Null, !.slot = 1]
      BY <2>5, <1>0
    <3>2. CASE Shrunk(t) = Listed(t)
      BY <3>2, <2>1, <3>1, <2>2
    <3>3. CASE Shrunk(t) # Listed(t)
      BY <3>3, <2>1, <3>1, <2>2
    <3> QED
      BY <3>2, <3>3
  <2>7. LockTypes'
    BY <2>5, <1>a, SameLockTypes
  <2>8. allocations' \in [Lists -> Seq(Objects)]
    BY <2>5, <1>0, <1>1, <1>a, ShrunkSeq, Zenon
  <2> QED
    BY <2>4, <2>5, <2>6, <2>7, <2>8, <1>a DEF Fine
<1> QED
  BY <1>4, <1>5, <1>6, <1>7, <1>8, <1>9 DEF DestroyObject

LEMMA NewWalk ==
    ASSUME NEW p \in Lists, NEW label \in Backs, NEW c, c = Walk(p, label)
    PROVE  c \in Walks /\ c.page = p /\ c.i = 1 /\ c.slot = 1 /\ c.obj = Null /\ c.back = label
BY DEF Walk, Walks

LEMMA LargeIsList == \A o \in LargeObjects : Large \in Lists
BY DEF Lists

\* The walks over the large objects, the teardown, and the starts of walks.
LEMMA OtherWalksPlaced ==
    ASSUME RootInv, NEW t \in Threads, Threads = {t}, Placed(t),
           \/ FastNext(t) \/ TearDown(t) \/ NewLarge(t) \/ Destroy(t)
           \/ FastEnd(t) \/ \E p \in Lists : CollectBegin(t, p)
    PROVE  Placed(t)'
<1>0. /\ pc = [u \in Threads |-> pc[u]] /\ loc = [u \in Threads |-> loc[u]]
      /\ col = [u \in Threads |-> col[u]]
      /\ HeapTypes /\ WalkPlaces(t) /\ SearchPlaces(t) /\ Born \subseteq Objects
      /\ allocated \in Nat
  BY GraphAssumption DEF RootInv, HandleTypes, Placed, Born, Objects
<1> USE DEF headerVars, heapVars, implVars, clientVars, opVars, colVars, Goto, StartCol
<1>a. /\ LockTypes /\ refBy \in [Objects -> Seq(Objects)] /\ garbage \subseteq Objects
      /\ field \in [Objects -> [Slots -> Objects \cup {Null}]]
      /\ allocations \in [Lists -> Seq(Objects)]
  BY <1>0 DEF HeapTypes
<1> DEFINE Fine == /\ LockTypes' /\ refBy' \in [Objects -> Seq(Objects)] /\ garbage' \subseteq Objects
                   /\ field' \in [Objects -> [Slots -> Objects \cup {Null}]]
                   /\ allocations' \in [Lists -> Seq(Objects)] /\ stk' = stk
                   /\ \/ pc'[t] \in {Idle, "tearSever", "tearPages", "down"} /\ col'[t] = NoLocals
                      \/ /\ pc'[t] \in {"colId", "fastNext", "tearLarge"} /\ col'[t] \in Walks
                         /\ pc'[t] = "colId" => col'[t].back = "colNext"
                         /\ pc'[t] # "colId" => col'[t].back = pc'[t] /\ col'[t].page = Large
                      \/ /\ pc'[t] = "desUnregister" /\ col'[t] \in Walks
                         /\ col'[t].page = Large /\ Candidate(t)' \in Objects
<1>1. SUFFICES Fine
  <2>1. HeapTypes'
    BY <1>0, <1>1 DEF HeapTypes
  <2>2. WalkPlaces(t)'
    BY <1>1 DEF WalkPlaces, Candidate, CandidateLabels, ScanLabels, FindLabels,
                            DestroyLabels, ListLabels, Idle
  <2>3. SearchPlaces(t)'
    BY <1>1 DEF SearchPlaces, FindLabels, Idle
  <2>4. pc'[t] \notin SetLabels \cup {"dropFlag", "dropRelease"}
    BY <1>1 DEF SetLabels, Idle
  <2>5. OpPlaces(t)'
    BY <2>4 DEF OpPlaces, SetLabels
  <2> QED
    BY <2>1, <2>2, <2>3, <2>5 DEF Placed
<1> HIDE DEF Fine
<1>2. CASE FastNext(t)
  <2>1. /\ pc[t] = "fastNext" /\ col[t] \in Walks /\ col[t].back = "fastNext" /\ col[t].page = Large /\ Large \in Lists
        /\ UNCHANGED <<refBy, garbage, field, stk>>
        /\ col[t].i \in Nat \ {0} /\ ~(col[t].i > Len(allocations[Large]))
    BY <1>2, <1>0, Zenon DEF FastNext, WalkPlaces, ListLabels, Walks, FastEnds
  <2>2. PICK list \in Seq(Objects) : list = allocations[Large] /\ col[t].i \in 1 .. Len(list)
    BY <2>1, <1>a, LenProperties
  <2>3. PICK o \in Objects : o = list[col[t].i]
    BY <2>2, ElementOfSeq
  <2>4. CASE o \notin garbage
    BY <2>1, <2>2, <2>3, <2>4, <1>2, <1>0, WalkMoves, <1>a, SameLockTypes DEF FastNext, Fine
  <2>5. CASE o \in garbage
    <3>1. PICK last \in Objects, n \in Nat \ {0} : last = list[Len(list)] /\ n = Len(list)
      BY <2>2, LenProperties, ElementOfSeq
    <3>2. PICK swapped : swapped = [list EXCEPT ![col[t].i] = last, ![n] = o]
      BY Zenon
    <3>3. allocations' = [allocations EXCEPT ![Large] = swapped]
      BY <2>2, <2>3, <2>5, <3>1, <3>2, <1>2, Zenon DEF FastNext
    <3>4. swapped \in Seq(Objects)
      <4>1. list \in [1 .. n -> Objects]
        BY <3>1, LenProperties
      <4>2. swapped \in [1 .. n -> Objects]
        BY <4>1, <3>2
      <4> QED
        BY <4>2
    <3>5. allocations' \in [Lists -> Seq(Objects)]
      BY <3>3, <3>4, <1>a, Zenon
    <3>6. PICK c : c = [col[t] EXCEPT !.obj = o]
      BY Zenon
    <3>7. c \in Walks /\ c.back = col[t].back /\ c.page = col[t].page /\ c.obj = o
      BY <3>6, <2>1, WalkLooks
    <3>8. \/ TakeWrite(t, o) /\ pc'[t] = "desUnregister" /\ col'[t] = c
          \/ UNCHANGED lockVars /\ pc'[t] = Idle /\ col'[t] = NoLocals
      BY <2>2, <2>3, <2>5, <3>6, <1>2, <1>0, Zenon DEF FastNext, Abort
    <3>9. LockTypes'
      BY <3>8, <1>a, LockTypesKept, SameLockTypes
    <3> QED
      BY <2>1, <3>5, <3>7, <3>8, <3>9, <1>a, Zenon DEF Fine, Candidate
  <2> QED
    BY <2>4, <2>5
<1>3. CASE FastEnd(t)
  <2>1. pc'[t] = Idle /\ col'[t] = NoLocals /\ UNCHANGED <<refBy, garbage, field, stk>> /\ UNCHANGED lockVars
    BY <1>3, <1>0 DEF FastEnd
  <2>2. LockTypes'
    BY <2>1, <1>a, SameLockTypes
  <2>3. allocations' \in [Lists -> Seq(Objects)]
    <3>1. CASE allocations' = allocations
      BY <3>1, <1>a
    <3>2. CASE allocations' # allocations
      <4>1. /\ allocations' = [allocations EXCEPT ![Large] = Append(@, allocated + 1)]
            /\ allocated + 1 \in LargeObjects
        BY <3>2, <1>3 DEF FastEnd
      <4>2. Large \in Lists /\ allocated + 1 \in Objects
        BY <4>1, LargeIsList, GraphAssumption
      <4>3. Append(allocations[Large], allocated + 1) \in Seq(Objects)
        BY <4>2, <1>a, AppendProperties
      <4> QED
        BY <4>1, <4>2, <4>3, <1>a
    <3> QED
      BY <3>1, <3>2
  <2> QED
    BY <2>1, <2>2, <2>3, <1>a DEF Fine
<1>4. CASE NewLarge(t)
  <2>1. PICK c : c = Walk(Large, "fastNext")
    OBVIOUS
  <2>2. c \in Walks /\ c.page = Large /\ c.back = "fastNext"
    BY <1>4, LargeIsList, <2>1, NewWalk DEF NewLarge, Backs
  <2>3. pc'[t] = "fastNext" /\ col'[t] = c /\ UNCHANGED <<refBy, garbage, field, allocations, stk>> /\ UNCHANGED lockVars
    BY <1>4, <1>0, <2>1 DEF NewLarge
  <2>4. LockTypes'
    BY <2>3, <1>a, SameLockTypes
  <2> QED
    BY <2>2, <2>3, <2>4, <1>a DEF Fine
<1>5. ASSUME NEW p \in Lists, CollectBegin(t, p) PROVE Fine
  BY NewWalk, <1>5, <1>0, <1>a, SameLockTypes DEF Backs, CollectBegin, Fine
<1>6. CASE Destroy(t)
  BY <1>6, <1>0, <1>a, SameLockTypes DEF Destroy, WalkPlaces, ListLabels, Idle, Fine
<1>7. CASE TearSever(t)
  <2>1. /\ pc[t] = "tearSever" /\ pc'[t] = "tearPages" /\ col' = col /\ UNCHANGED <<garbage, allocations, stk>>
        /\ field' = [o \in Objects |-> IF o \in OnPages THEN [s \in Slots |-> Null] ELSE field[o]]
        /\ refBy' = [o \in Objects |-> IF o \in OnPages THEN <<>> ELSE refBy[o]]
        /\ UNCHANGED lockVars
    BY <1>7, <1>0 DEF TearSever
  <2>2. LockTypes' /\ col'[t] = NoLocals
    BY <2>1, <1>0, <1>a, SameLockTypes DEF WalkPlaces, ListLabels
  <2>3. refBy' \in [Objects -> Seq(Objects)] /\ field' \in [Objects -> [Slots -> Objects \cup {Null}]]
    BY EmptySeq, <2>1, <1>a
  <2> QED
    BY <2>1, <2>2, <2>3, <1>a DEF Fine
<1>8. CASE TearPages(t)
  <2>1. PICK p \in Pages, o \in {allocations[q][Len(allocations[q])] : q \in Pages} :
           /\ allocations[p] # <<>> /\ o = allocations[p][Len(allocations[p])]
           /\ TakeWrite(t, o) /\ garbage' = garbage \cup {o}
           /\ allocations' = [allocations EXCEPT ![p] = SubSeq(@, 1, Len(@) - 1)]
    BY <1>8, Zenon DEF TearPages
  <2>2. /\ pc[t] = "tearPages" /\ pc' = pc /\ col' = col /\ UNCHANGED <<refBy, field, stk>>
    BY <1>8 DEF TearPages
  <2>3. PICK list \in Seq(Objects) : list = allocations[p] /\ list # <<>> /\ p \in Lists
    BY <2>1, <1>a DEF Lists
  <2>4. o \in Objects
    BY <2>3, EmptySeq, <2>1, ElementOfSeq
  <2>5. LockTypes' /\ garbage' \subseteq Objects
    BY <2>1, <2>4, <1>a, LockTypesKept
  <2>6. allocations' \in [Lists -> Seq(Objects)]
    BY FrontSeq, <2>1, <2>3, <1>a, Zenon
  <2>7. col'[t] = NoLocals
    BY <2>2, <1>0 DEF WalkPlaces, ListLabels
  <2> QED
    BY <2>2, <2>5, <2>6, <2>7, <1>a DEF Fine
<1>9. CASE TearPagesEnd(t)
  <2>1. UNCHANGED <<refBy, garbage, field, allocations, stk>> /\ UNCHANGED lockVars
    BY <1>9 DEF TearPagesEnd
  <2>2. LockTypes'
    BY <2>1, <1>a, SameLockTypes
  <2>3. CASE Large \in Lists
    BY <2>3, NewWalk, <1>9, <1>0, <2>1, <2>2, <1>a DEF Backs, TearPagesEnd, Fine
  <2>4. CASE Large \notin Lists
    BY <2>4, <1>9, <1>0, <2>1, <2>2, <1>a DEF TearPagesEnd, Fine
  <2> QED
    BY <2>3, <2>4
<1>10. CASE TearLarge(t)
  <2>1. /\ UNCHANGED <<refBy, garbage, field, allocations, stk>> /\ UNCHANGED lockVars
        /\ pc[t] = "tearLarge" /\ col[t] \in Walks /\ col[t].back = "tearLarge" /\ col[t].page = Large /\ Large \in Lists
        /\ col[t].i \in Nat \ {0}
    BY <1>10, <1>0 DEF TearLarge, WalkPlaces, ListLabels, Walks
  <2>2. LockTypes'
    BY <2>1, <1>a, SameLockTypes
  <2>3. CASE col[t].i > Len(allocations[Large])
    BY <2>3, <1>10, <1>0, <2>1, <2>2, <1>a DEF TearLarge, Fine
  <2>4. CASE ~(col[t].i > Len(allocations[Large]))
    <3>1. PICK o \in Objects : o = allocations[Large][col[t].i]
      BY <2>1, <1>a, LenProperties, <2>4, ElementOfSeq
    <3>2. PICK c : c = [col[t] EXCEPT !.obj = o]
      BY Zenon
    <3>3. c \in Walks /\ c.page = col[t].page /\ c.obj = o
      BY <3>2, <2>1, WalkLooks
    <3>4. pc'[t] = "desUnregister" /\ col'[t] = c
      BY <2>4, <3>1, <3>2, <1>10, <1>0 DEF TearLarge
    <3> QED
      BY <2>1, <2>2, <3>3, <3>4, <1>a DEF Fine, Candidate
  <2> QED
    BY <2>3, <2>4
<1> QED
  BY <1>2, <1>3, <1>4, <1>5, <1>6, <1>7, <1>8, <1>9, <1>10 DEF TearDown

LEMMA InitPlaced == ASSUME NEW t \in Threads, Init PROVE Placed(t)
<1>1. pc[t] = Idle /\ col[t] = NoLocals
  BY DEF Init
<1>2. HeapTypes
  BY DEF Init, HeapTypes, LockTypes, Free
<1>3. OpPlaces(t)
  BY <1>1 DEF OpPlaces, SetLabels, Idle
<1>4. WalkPlaces(t)
  BY <1>1 DEF WalkPlaces, ListLabels, CandidateLabels, ScanLabels, FindLabels, DestroyLabels, Idle
<1>5. SearchPlaces(t)
  BY <1>1 DEF SearchPlaces, FindLabels, Idle
<1> QED
  BY <1>2, <1>3, <1>4, <1>5 DEF Placed

\* The steps of a program with one thread.
LEMMA OneThreadSteps ==
    ASSUME NEW t \in Threads, Threads = {t}, RootInv, Next
    PROVE  \/ New(t) \/ PinLock(t) \/ PinCount(t) \/ Drop(t)
           \/ \E o \in Born : CopyRoot(t, o) \/ DropRoot(t, o) \/ Unpin(t, o)
                              \/ Pin(t, o, "ro") \/ Pin(t, o, "rw")
           \/ Assign(t)
           \/ \E o \in Born, s \in Slots, x \in {Null} \cup Objects : SetField(t, o, s, x)
           \/ Collect(t) \/ FastNext(t) \/ TearDown(t) \/ NewLarge(t) \/ Destroy(t)
           \/ FastEnd(t) \/ \E p \in Lists : CollectBegin(t, p)
<1>1. Step(t) \/ Start(t)
  BY DEF Next
<1>2. CASE Step(t)
  BY <1>2 DEF Step, AllocateLarge
<1>3. CASE Start(t)
  BY <1>3 DEF MoveRoot, Start, StartCollection, Born
<1> QED
  BY <1>1, <1>2, <1>3

LEMMA NextPlaced ==
    ASSUME RootInv, NEW t \in Threads, Threads = {t}, Placed(t), [Next]_vars
    PROVE  Placed(t)'
<1>1. CASE UNCHANGED vars
  <2>1. /\ refBy' = refBy /\ field' = field /\ garbage' = garbage /\ allocations' = allocations
        /\ stk' = stk /\ pc' = pc /\ loc' = loc /\ col' = col /\ rwPins' = rwPins /\ roPins' = roPins
        /\ allocated' = allocated /\ word' = word /\ rwSet' = rwSet
    BY <1>1 DEF vars, headerVars, lockVars, heapVars, clientVars, opVars, colVars
  <2> QED
    BY <2>1 DEF Placed, HeapTypes, LockTypes, OpPlaces, WalkPlaces, SearchPlaces, Candidate, FieldsDone,
                FieldValue, Top, Born
<1>2. CASE Next
  <2>1. Born \subseteq Objects
    BY GraphAssumption DEF RootInv, HandleTypes, Born, Objects
  <2>2. CASE \E o \in Born, s \in Slots, x \in {Null} \cup Objects : SetField(t, o, s, x)
    BY <2>1, <2>2, SetFieldPlaced
  <2>3. CASE Collect(t)
    BY <2>3, ScanPlaced, FindPlaced, DestroyPlaced DEF Collect
  <2>4. CASE Assign(t)
    BY <2>4, AssignPlaced
  <2>5. CASE \/ FastNext(t) \/ TearDown(t) \/ NewLarge(t) \/ Destroy(t)
             \/ FastEnd(t) \/ \E p \in Lists : CollectBegin(t, p)
    BY <2>5, OtherWalksPlaced
  <2>6. CASE \/ New(t) \/ PinLock(t) \/ PinCount(t) \/ Drop(t)
             \/ \E o \in Born : CopyRoot(t, o) \/ DropRoot(t, o) \/ Unpin(t, o)
                                \/ Pin(t, o, "ro") \/ Pin(t, o, "rw")
    BY <2>6, HandlePlaced
  <2> QED
    BY <1>2, <2>2, <2>3, <2>4, <2>5, <2>6, OneThreadSteps
<1> QED
  BY <1>1, <1>2

\* The locals of an assignment after a step: its operands are the same.
AssignLocals(t, old, hold) ==
    /\ loc'[t].obj = loc[t].obj /\ loc'[t].slot = loc[t].slot
    /\ loc'[t].new = loc[t].new /\ loc'[t].role = loc[t].role
    /\ loc'[t].old = old /\ loc'[t].hold = hold

\* Where an assignment ends.
AssignLeaves(t) ==
    IF loc[t].role = "ro_pin" THEN pc'[t] = "setDowngrade" /\ loc'[t] = loc[t] ELSE pc'[t] = Idle

\* What each step of an assignment does.
AssignMoves(t) ==
    /\ pc[t] = "setUpgrade" =>
         /\ pc'[t] = "setCheck" /\ loc'[t] = loc[t] /\ TakeUpgrade(t, loc[t].new)
         /\ UNCHANGED <<refBy, garbage, field, fault>>
    /\ pc[t] = "setCheck" =>
         /\ UNCHANGED <<refBy, garbage, field, word, rwSet, fault>>
         /\ \/ AssignLeaves(t)
            \/ /\ ~Refused(t) /\ field[loc[t].obj][loc[t].slot] # loc[t].new
               /\ AssignLocals(t, field[loc[t].obj][loc[t].slot], loc[t].hold)
               /\ \/ /\ loc[t].new # Null
                     /\ pc'[t] = IF loc[t].new \in rwSet[t] THEN "setAdd" ELSE "setNewLock"
                  \/ /\ loc[t].new = Null
                     /\ pc'[t] = IF field[loc[t].obj][loc[t].slot] \in rwSet[t] THEN "setRemove"
                                                                               ELSE "setOldLock"
    /\ pc[t] = "setNewLock" =>
         /\ pc'[t] = "setAdd" /\ AssignLocals(t, loc[t].old, TRUE) /\ TakeWrite(t, loc[t].new)
         /\ UNCHANGED <<refBy, garbage, field, fault>>
    /\ pc[t] = "setAdd" =>
         /\ refBy' = [refBy EXCEPT ![loc[t].new] = Append(@, loc[t].obj)]
         /\ IF loc[t].hold THEN DropLock(t, loc[t].new) ELSE UNCHANGED <<word, rwSet>>
         /\ UNCHANGED <<garbage, field, fault>>
         /\ AssignLocals(t, loc[t].old, FALSE)
         /\ IF loc[t].old = Null THEN pc'[t] = "setStore"
            ELSE pc'[t] = IF loc[t].old \in rwSet[t] THEN "setRemove" ELSE "setOldLock"
    /\ pc[t] = "setOldLock" =>
         /\ pc'[t] = "setRemove" /\ AssignLocals(t, loc[t].old, TRUE) /\ TakeWrite(t, loc[t].old)
         /\ UNCHANGED <<refBy, garbage, field, fault>>
    /\ pc[t] = "setRemove" =>
         /\ UNCHANGED field
         /\ IF Refers(loc[t].obj, loc[t].old)
              THEN /\ Unreference(t, loc[t].obj, loc[t].old) /\ UNCHANGED fault
                   /\ loc'[t] = loc[t]
                   /\ pc'[t] = IF loc[t].hold THEN "setOldRelease" ELSE "setStore"
              ELSE /\ UNCHANGED <<refBy, garbage>> /\ AssignLeaves(t)
    /\ pc[t] = "setOldRelease" =>
         /\ pc'[t] = "setStore" /\ AssignLocals(t, loc[t].old, FALSE) /\ DropLock(t, loc[t].old)
         /\ UNCHANGED <<refBy, garbage, field, fault>>
    /\ pc[t] = "setStore" =>
         /\ field' = [field EXCEPT ![loc[t].obj][loc[t].slot] = loc[t].new]
         /\ AssignLeaves(t)
         /\ UNCHANGED <<refBy, garbage, word, rwSet, fault>>
    /\ pc[t] = "setDowngrade" =>
         /\ pc'[t] = Idle
         /\ IF word[loc[t].new] = WriteHeld
              THEN /\ word' = [word EXCEPT ![loc[t].new] = 1]
                   /\ rwSet' = [rwSet EXCEPT ![t] = @ \ {loc[t].new}]
              ELSE UNCHANGED <<word, rwSet>>
         /\ UNCHANGED <<refBy, garbage, field, fault>>

LEMMA AssignmentExcept ==
    ASSUME NEW c \in Assignments, NEW d, NEW x, NEW h,
           \/ d = [c EXCEPT !.old = x] /\ h = c.hold
           \/ d = [c EXCEPT !.hold = h] /\ x = c.old
    PROVE  d.obj = c.obj /\ d.slot = c.slot /\ d.new = c.new /\ d.role = c.role /\ d.old = x /\ d.hold = h
<1>1. d = [obj |-> c.obj, slot |-> c.slot, new |-> c.new, old |-> x, role |-> c.role, hold |-> h]
  <2>1. CASE d = [c EXCEPT !.old = x] /\ h = c.hold
    BY <2>1, AssignmentFacts, Zenon
  <2>2. CASE d = [c EXCEPT !.hold = h] /\ x = c.old
    BY <2>2, AssignmentFacts, Zenon
  <2> QED
    BY <2>1, <2>2
<1> QED
  BY <1>1

LEMMA AssignSteps ==
    ASSUME RootInv, NEW t \in Threads, Threads = {t}, Placed(t), Assign(t)
    PROVE  /\ pc[t] \in SetLabels /\ pc'[t] \in SetLabels \cup {Idle}
           /\ loc[t].obj \in Born /\ loc[t].obj \in Objects /\ loc[t].slot \in Slots
           /\ loc[t].new \in Objects \cup {Null} /\ loc[t].old \in Objects \cup {Null}
           /\ loc[t].hold \in BOOLEAN /\ loc[t].obj \in rwPins[t]
           /\ AssignMoves(t)
           /\ UNCHANGED <<rootCount, allocated, lookup, allocations, roots, roPins, rwPins, col, stk>>
<1>0. /\ pc = [u \in Threads |-> pc[u]] /\ loc = [u \in Threads |-> loc[u]]
      /\ HeapTypes /\ OpPlaces(t)
      /\ rwPins \in [Threads -> SUBSET Objects] /\ Born \subseteq Objects
      /\ \A o \in Objects \ Born : ~Pins(t, o)
  BY GraphAssumption DEF RootInv, HandleTypes, NoHandlesAhead, Placed, Born, Objects
<1> USE DEF headerVars, heapVars, implVars, clientVars, opVars, colVars, Goto, StartOp, EndOp, Idle
<1>1. /\ UNCHANGED <<rootCount, allocated, lookup, allocations, roots, roPins, rwPins, col, stk>>
      /\ pc[t] \in SetLabels /\ pc'[t] \in SetLabels \cup {Idle}
  <2>1. CASE SetUpgrade(t) \/ SetCheck(t) \/ SetNewLock(t) \/ SetAdd(t) \/ SetOldLock(t)
    BY <2>1, <1>0 DEF SetUpgrade, SetCheck, SetNewLock, SetAdd, SetOldLock, Leave, SetLabels, OldValueLabel
  <2>2. CASE SetRemove(t) \/ SetOldRelease(t) \/ SetStore(t) \/ SetDowngrade(t)
    BY <2>2, <1>0, Zenon DEF SetRemove, SetOldRelease, SetStore, SetDowngrade, Leave, SetLabels
  <2> QED
    BY <2>1, <2>2 DEF Assign
<1>2. loc[t] \in Assignments /\ loc[t].obj \in rwPins[t]
  BY <1>0, <1>1 DEF OpPlaces
<1>3. /\ loc[t].obj \in Objects /\ loc[t].slot \in Slots
      /\ loc[t].new \in Objects \cup {Null} /\ loc[t].old \in Objects \cup {Null}
      /\ loc[t].hold \in BOOLEAN
  BY <1>2 DEF Assignments
<1>4. loc[t].obj \in Born
  BY <1>0, <1>2, <1>3 DEF Pins
<1>5. SUFFICES AssignMoves(t)
  BY <1>1, <1>2, <1>3, <1>4
<1>6. CASE SetUpgrade(t)
  BY <1>6, <1>0 DEF AssignMoves, SetUpgrade
<1>7. CASE SetCheck(t)
  <2>1. pc[t] = "setCheck" /\ UNCHANGED <<refBy, garbage, field, word, rwSet, fault>>
    BY <1>7 DEF SetCheck, lockVars
  <2>2. PICK old : old = field[loc[t].obj][loc[t].slot]
    OBVIOUS
  <2>3. CASE old = loc[t].new \/ Refused(t)
    BY <2>2, <2>3, <1>7, <1>0, <2>1 DEF SetCheck, Leave, AssignLeaves, AssignMoves
  <2>4. CASE ~(old = loc[t].new \/ Refused(t))
    <3>1. PICK c : c = [loc[t] EXCEPT !.old = old]
      BY Zenon
    <3>2. /\ loc' = [loc EXCEPT ![t] = c]
          /\ pc' = [pc EXCEPT ![t] = IF loc[t].new = Null THEN OldValueLabel(t, old)
                                     ELSE IF NeedsLock(t, loc[t].new) THEN "setNewLock" ELSE "setAdd"]
      BY <2>2, <2>4, <3>1, <1>7 DEF SetCheck
    <3>3. AssignLocals(t, old, loc[t].hold)
      <4>1. loc'[t] = c
        BY <3>2, <1>0
      <4> QED
        BY <4>1, <3>1, <1>2, AssignmentExcept DEF AssignLocals
    <3>4. CASE loc[t].new = Null
      BY <3>2, <3>4, <2>4, <1>0, <3>3, <2>1, <2>2 DEF OldValueLabel, NeedsLock, AssignMoves
    <3>5. CASE loc[t].new # Null
      BY <3>2, <3>5, <1>0, <3>3, <2>1, <2>2, <2>4 DEF NeedsLock, AssignMoves
    <3> QED
      BY <3>4, <3>5
  <2> QED
    BY <2>3, <2>4
<1>8. CASE SetNewLock(t) \/ SetOldLock(t)
  <2>1. PICK c : c = [loc[t] EXCEPT !.hold = TRUE]
    BY Zenon
  <2>2. /\ loc'[t] = c /\ refBy' = refBy /\ field' = field /\ garbage' = garbage /\ fault' = fault
        /\ \/ pc[t] = "setNewLock" /\ pc'[t] = "setAdd" /\ TakeWrite(t, loc[t].new)
           \/ pc[t] = "setOldLock" /\ pc'[t] = "setRemove" /\ TakeWrite(t, loc[t].old)
    BY <2>1, <1>8, <1>0, Zenon DEF SetNewLock, SetOldLock
  <2>3. AssignLocals(t, loc[t].old, TRUE)
    BY <2>1, <2>2, <1>2, AssignmentExcept DEF AssignLocals
  <2> QED
    BY <2>2, <2>3, Zenon DEF AssignMoves
<1>9. CASE SetAdd(t)
  <2>1. PICK c : c = [loc[t] EXCEPT !.hold = FALSE]
    BY Zenon
  <2>2. /\ loc'[t] = c /\ field' = field /\ garbage' = garbage /\ pc[t] = "setAdd" /\ fault' = fault
        /\ refBy' = [refBy EXCEPT ![loc[t].new] = Append(@, loc[t].obj)]
        /\ pc' = [pc EXCEPT ![t] = OldValueLabel(t, loc[t].old)]
        /\ IF loc[t].hold THEN DropLock(t, loc[t].new) ELSE UNCHANGED <<word, rwSet>>
    BY <2>1, <1>9, <1>0 DEF SetAdd, lockVars
  <2>3. AssignLocals(t, loc[t].old, FALSE)
    BY <2>1, <2>2, <1>2, AssignmentExcept DEF AssignLocals
  <2>4. IF loc[t].old = Null THEN pc'[t] = "setStore"
        ELSE pc'[t] = IF loc[t].old \in rwSet[t] THEN "setRemove" ELSE "setOldLock"
    BY <2>2, <1>0 DEF OldValueLabel, NeedsLock
  <2> QED
    BY <2>2, <2>3, <2>4, Zenon DEF AssignMoves
<1>10. CASE SetRemove(t)
  BY <1>10, <1>0, Zenon DEF SetRemove, AssignMoves, Leave, AssignLeaves
<1>11. CASE SetOldRelease(t)
  <2>1. PICK c : c = [loc[t] EXCEPT !.hold = FALSE]
    BY Zenon
  <2>2. /\ loc'[t] = c /\ refBy' = refBy /\ field' = field /\ garbage' = garbage /\ fault' = fault
        /\ pc[t] = "setOldRelease" /\ pc'[t] = "setStore" /\ DropLock(t, loc[t].old)
    BY <2>1, <1>11, <1>0 DEF SetOldRelease
  <2>3. AssignLocals(t, loc[t].old, FALSE)
    BY <2>1, <2>2, <1>2, AssignmentExcept DEF AssignLocals
  <2> QED
    BY <2>2, <2>3, Zenon DEF AssignMoves
<1>12. CASE SetStore(t)
  BY <1>12, <1>0 DEF AssignMoves, SetStore, Leave, AssignLeaves, lockVars
<1>13. CASE SetDowngrade(t)
  BY <1>13, <1>0 DEF AssignMoves, SetDowngrade, lockVars
<1> QED
  BY <1>6, <1>7, <1>8, <1>9, <1>10, <1>11, <1>12, <1>13 DEF Assign

\* The walk a thread is on after a step: the same list, with these locals.
WalkLocals(t, i, slot, obj) ==
    /\ col'[t].page = col[t].page /\ col'[t].back = col[t].back
    /\ col'[t].i = i /\ col'[t].slot = slot /\ col'[t].obj = obj

\* What each step of the destruction of an object does.
DestroyMoves(t) ==
    /\ pc[t] = "desUnregister" =>
         /\ garbage' = garbage \cup {Candidate(t)} /\ lookup' = lookup \ {Candidate(t)}
         /\ pc'[t] = "desField" /\ col'[t] = col[t]
         /\ UNCHANGED <<refBy, field, word, rwSet, allocations, fault>>
    /\ pc[t] = "desField" =>
         /\ UNCHANGED <<refBy, garbage, field, lookup, fault>>
         /\ \/ /\ ~FieldsDone(t) /\ FieldValue(t) = Null /\ pc'[t] = "desField"
               /\ WalkLocals(t, col[t].i, col[t].slot + 1, col[t].obj)
               /\ UNCHANGED <<word, rwSet, allocations>>
            \/ /\ ~FieldsDone(t) /\ FieldValue(t) # Null /\ TakeWrite(t, FieldValue(t))
               /\ pc'[t] = "desClear" /\ col'[t] = col[t] /\ UNCHANGED allocations
            \/ /\ ~FieldsDone(t) /\ FieldValue(t) # Null /\ word[FieldValue(t)] # Free
               /\ DropLock(t, Candidate(t))
               /\ pc'[t] = "desReacquire" /\ col'[t] = col[t] /\ UNCHANGED allocations
            \/ /\ FieldsDone(t) /\ pc'[t] = col[t].back
               /\ allocations' = [allocations EXCEPT ![col[t].page] = Shrunk(t)]
               /\ WalkLocals(t, IF Shrunk(t) = Listed(t) THEN col[t].i + 1 ELSE col[t].i, 1, Null)
               /\ UNCHANGED <<word, rwSet>>
    /\ pc[t] = "desReacquire" =>
         /\ TakeWrite(t, Candidate(t)) /\ pc'[t] = "desField" /\ col'[t] = col[t]
         /\ UNCHANGED <<refBy, garbage, field, lookup, allocations, fault>>
    /\ pc[t] = "desClear" =>
         /\ UNCHANGED <<field, lookup, allocations>>
         /\ IF Refers(Candidate(t), FieldValue(t))
              THEN /\ Unreference(t, Candidate(t), FieldValue(t)) /\ UNCHANGED fault
                   /\ pc'[t] = "desRelease" /\ col'[t] = col[t]
              ELSE /\ pc'[t] = Idle /\ col'[t] = NoLocals
                   /\ word' = [word EXCEPT ![Candidate(t)] = Free, ![FieldValue(t)] = Free]
                   /\ rwSet' = [rwSet EXCEPT ![t] = @ \ {Candidate(t), FieldValue(t)}]
                   /\ UNCHANGED <<refBy, garbage>>
    /\ pc[t] = "desRelease" =>
         /\ DropLock(t, FieldValue(t)) /\ pc'[t] = "desField"
         /\ field' = [field EXCEPT ![Candidate(t)][col[t].slot] = Null]
         /\ WalkLocals(t, col[t].i, col[t].slot + 1, col[t].obj)
         /\ UNCHANGED <<refBy, garbage, lookup, allocations, fault>>

LEMMA DestroySteps ==
    ASSUME RootInv, NEW t \in Threads, Threads = {t}, Placed(t), DestroyObject(t)
    PROVE  /\ pc[t] \in DestroyLabels /\ col[t] \in Walks /\ Candidate(t) \in Objects
           /\ ~FieldsDone(t) => col[t].slot \in Slots /\ FieldValue(t) \in Objects \cup {Null}
           /\ pc[t] \in {"desClear", "desRelease"} => ~FieldsDone(t) /\ FieldValue(t) \in Objects
           /\ DestroyMoves(t)
           /\ UNCHANGED <<rootCount, allocated, roots, roPins, rwPins, loc, stk>>
<1>0. /\ pc = [u \in Threads |-> pc[u]] /\ col = [u \in Threads |-> col[u]]
      /\ HeapTypes /\ WalkPlaces(t)
  BY DEF RootInv, HandleTypes, Placed
<1> USE DEF headerVars, heapVars, implVars, clientVars, opVars, colVars, lockVars, Goto, StartCol
<1>1. /\ pc[t] \in DestroyLabels /\ col[t] \in Walks /\ Candidate(t) \in Objects
      /\ UNCHANGED <<rootCount, allocated, roots, roPins, rwPins, loc, stk>>
  <2>1. /\ pc[t] \in DestroyLabels
        /\ UNCHANGED <<rootCount, allocated, roots, roPins, rwPins, loc, stk>>
    BY <1>0, Zenon DEF DestroyObject, DestroyUnregister, DestroyField, DestroyReacquire, DestroyClear,
                DestroyRelease, DestroyFree, DestroyLabels
  <2> QED
    BY <2>1, <1>0 DEF WalkPlaces, DestroyLabels, ListLabels, CandidateLabels, Walks
<1>2. /\ pc[t] \in {"desClear", "desRelease"} => ~FieldsDone(t) /\ FieldValue(t) \in Objects
      /\ ~FieldsDone(t) => col[t].slot \in Slots /\ FieldValue(t) \in Objects \cup {Null}
  BY <1>0, <1>1 DEF HeapTypes, FieldValue, WalkPlaces, FieldsDone
<1>3. SUFFICES DestroyMoves(t)
  BY <1>1, <1>2
<1>4. CASE DestroyUnregister(t)
  BY <1>4, <1>0 DEF DestroyMoves, DestroyUnregister
<1>5. CASE DestroyField(t)
  <2>1. /\ ~FieldsDone(t) /\ UNCHANGED <<refBy, field, allocations, garbage, lookup, fault>>
        /\ pc[t] = "desField"
    BY <1>5 DEF DestroyField
  <2>2. CASE FieldValue(t) = Null
    BY <1>1, WalkClears, <2>1, <2>2, <1>5, <1>0 DEF DestroyField, DestroyMoves, WalkLocals
  <2>3. CASE FieldValue(t) # Null
    BY <2>1, <2>3, <1>5, <1>0 DEF DestroyField, DestroyMoves
  <2> QED
    BY <2>2, <2>3
<1>6. CASE DestroyReacquire(t)
  BY <1>6, <1>0 DEF DestroyMoves, DestroyReacquire
<1>7. CASE DestroyClear(t)
  BY <1>7, <1>0, Zenon DEF DestroyClear, DestroyMoves, Abort
<1>8. CASE DestroyRelease(t)
  BY <1>1, WalkClears, <1>8, <1>0 DEF DestroyRelease, DestroyMoves, WalkLocals
<1>9. CASE DestroyFree(t)
  <2>1. PICK n \in Nat \ {0} : n = IF Shrunk(t) = Listed(t) THEN col[t].i + 1 ELSE col[t].i
    BY <1>1 DEF Walks
  <2>2. PICK c : c = Onward(col[t], n)
    OBVIOUS
  <2>3. c.back = col[t].back /\ c.page = col[t].page /\ c.i = n /\ c.slot = 1 /\ c.obj = Null
    BY <2>1, <2>2, <1>1, WalkGoesOn
  <2>4. /\ col' = [col EXCEPT ![t] = [col[t] EXCEPT !.i = IF Shrunk(t) = Listed(t) THEN @ + 1 ELSE @,
                                                    !.obj = Null, !.slot = 1]]
        /\ pc[t] = "desField" /\ FieldsDone(t)
        /\ pc'[t] = col[t].back /\ UNCHANGED <<refBy, garbage, field, lookup, fault>> /\ UNCHANGED <<word, rwSet>>
        /\ allocations' = [allocations EXCEPT ![col[t].page] = Shrunk(t)]
    BY <1>9, <1>0 DEF DestroyFree
  <2>5. col'[t] = c
    <3>1. col'[t] = [col[t] EXCEPT !.i = IF Shrunk(t) = Listed(t) THEN @ + 1 ELSE @, !.obj = Null, !.slot = 1]
      BY <2>4, <1>0
    <3>2. CASE Shrunk(t) = Listed(t)
      BY <3>2, <2>1, <3>1, <2>2 DEF Onward
    <3>3. CASE Shrunk(t) # Listed(t)
      BY <3>3, <2>1, <3>1, <2>2 DEF Onward
    <3> QED
      BY <3>2, <3>3
  <2> QED
    BY <2>1, <2>3, <2>4, <2>5 DEF DestroyMoves, WalkLocals
<1> QED
  BY <1>4, <1>5, <1>6, <1>7, <1>8, <1>9 DEF DestroyObject

-------------------------------------------------------------------------------
(* One thread: back references *)

\* The program stores objects in fields so that no cycles come about: owners can be
\* ranked below what they may refer to.
Ranks == {r \in [Objects -> Nat] : \A e \in Edges : r[e[1]] < r[e[2]]}
Acyclic == Ranks # {}
Rank == CHOOSE r \in Ranks : TRUE

Ascends(p, x) == Acyclic => Rank[p] < Rank[x]

Upwards(t) ==
    /\ \A p \in Objects, s \in Slots :
          field[p][s] # Null => Ascends(p, field[p][s]) /\ p \in Born /\ field[p][s] \in Born
    /\ pc[t] \in SetLabels /\ loc[t].new # Null => Ascends(loc[t].obj, loc[t].new) /\ loc[t].new \in Born

\* The fields as referencedBy counts them: one whose old value has forgotten its
\* owner already has the new value.
Counting(t) ==
    IF pc[t] \in {"setOldRelease", "setStore"} THEN [field EXCEPT ![loc[t].obj][loc[t].slot] = loc[t].new]
    ELSE IF pc[t] = "desRelease" THEN [field EXCEPT ![Candidate(t)][col[t].slot] = Null]
    ELSE field

\* The new value knows of its owner before the field is counted.
Pending(t, x, p) == pc[t] \in {"setOldLock", "setRemove"} /\ loc[t].new = x /\ loc[t].obj = p

\* The slots of p in which x is, by the fields f.
Holding(f, x, p) == {s \in Slots : f[p][s] = x}
Referring(x, p) == At(refBy[x], p)

\* The teardown has cut the objects on pages off.
Severed(t) == pc[t] \in {"tearPages", "down"} \/ (pc[t] \in ListLabels /\ col[t].back = "tearLarge")

Covered(t, x) == \A p \in Objects : Cardinality(Holding(Counting(t), x, p)) <= Cardinality(Referring(x, p))

\* Large objects are on the list of large objects, and on no page; what is on a list
\* has been allocated.
Kinds == /\ \A p \in Pages : \A i \in DOMAIN allocations[p] : allocations[p][i] \notin LargeObjects
         /\ Large \in Lists => \A i \in DOMAIN allocations[Large] : allocations[Large][i] \in LargeObjects
         /\ \A l \in Lists : \A i \in DOMAIN allocations[l] : allocations[l][i] \in Born

Tally(t) ==
    \A x, p \in Objects :
       Cardinality(Referring(x, p)) = Cardinality(Holding(Counting(t), x, p)) + IF Pending(t, x, p) THEN 1 ELSE 0

\* Once the teardown has cut the pages off, the values of the fields of a large
\* object that it can still lock know of their owner.
Remains(t) ==
    /\ \A x \in Objects : Covered(t, x) \/ (x \notin LargeObjects /\ (x \in OnPages \/ word[x] = WriteHeld))
    /\ pc[t] \in ListLabels => OnPages = {}
    /\ pc[t] \in DestroyLabels => Candidate(t) \in LargeObjects
    /\ pc[t] \in {"desClear", "desRelease"} => Covered(t, FieldValue(t))

Ledger(t) == Upwards(t) /\ Kinds /\ IF Severed(t) THEN Remains(t) ELSE Tally(t)

-------------------------------------------------------------------------------

LEMMA RankAscends ==
    ASSUME Acyclic
    PROVE  Rank \in [Objects -> Nat] /\ \A p, x : <<p, x>> \in Edges => Rank[p] < Rank[x]
  BY DEF Acyclic, Rank, Ranks

LEMMA FieldChanged ==
    ASSUME NEW f \in [Objects -> [Slots -> Objects \cup {Null}]], NEW p \in Objects, NEW s \in Slots,
           NEW z \in Objects \cup {Null}, NEW g, g = [f EXCEPT ![p][s] = z]
    PROVE  /\ g \in [Objects -> [Slots -> Objects \cup {Null}]]
           /\ g[p][s] = z
           /\ \A q \in Objects, r \in Slots : q # p \/ r # s => g[q][r] = f[q][r]
  OBVIOUS

LEMMA SomeSlots ==
    ASSUME NEW S \in SUBSET Slots
    PROVE  /\ IsFiniteSet(S) /\ Cardinality(S) \in Nat
           /\ \A s \in Slots \ S : Cardinality(S \cup {s}) = Cardinality(S) + 1
           /\ S # {} => Cardinality(S) > 0
<1>1. IsFiniteSet(S)
  BY GraphAssumption, FS_Subset, Zenon
<1>2. \A s \in Slots \ S : Cardinality(S \cup {s}) = Cardinality(S) + 1
  BY <1>1, FS_AddElement
<1>3. Cardinality(S) \in Nat /\ (Cardinality(S) = 0 <=> S = {})
  BY <1>1, FS_CardinalityType, FS_EmptySet
<1> QED
  BY <1>1, <1>2, <1>3

\* The fields with another value in p.s.
Stored(f, p, s, z) == [f EXCEPT ![p][s] = z]

LEMMA HoldingChanged ==
    ASSUME NEW f \in [Objects -> [Slots -> Objects \cup {Null}]], NEW p \in Objects, NEW s \in Slots,
           NEW z \in Objects \cup {Null}, NEW g, g = Stored(f, p, s, z), f[p][s] # z
    PROVE  /\ Cardinality(Holding(g, z, p)) = Cardinality(Holding(f, z, p)) + 1
           /\ Cardinality(Holding(f, f[p][s], p)) = Cardinality(Holding(g, f[p][s], p)) + 1
           /\ \A x, q \in Objects : q # p \/ x \notin {z, f[p][s]} => Holding(g, x, q) = Holding(f, x, q)
           /\ \A x, q \in Objects : /\ Cardinality(Holding(f, x, q)) \in Nat
                                    /\ Cardinality(Holding(g, x, q)) \in Nat
<1>1. /\ g[p][s] = z
      /\ \A q \in Objects, r \in Slots : q # p \/ r # s => g[q][r] = f[q][r]
  BY FieldChanged DEF Stored
<1>2. Holding(g, z, p) = Holding(f, z, p) \cup {s} /\ s \notin Holding(f, z, p)
  BY <1>1 DEF Holding
<1>3. /\ Holding(f, f[p][s], p) = Holding(g, f[p][s], p) \cup {s}
      /\ s \notin Holding(g, f[p][s], p)
  BY <1>1 DEF Holding
<1>4. \A x, q \in Objects : q # p \/ x \notin {z, f[p][s]} => Holding(g, x, q) = Holding(f, x, q)
  BY <1>1 DEF Holding
<1>5. \A x, q : Holding(f, x, q) \in SUBSET Slots /\ Holding(g, x, q) \in SUBSET Slots
  BY DEF Holding
<1> QED
  BY <1>2, <1>3, <1>4, <1>5, SomeSlots

LEMMA SomeReferrers ==
    ASSUME NEW T, NEW list \in Seq(T), NEW e
    PROVE  /\ Cardinality(At(list, e)) \in Nat
           /\ Cardinality(At(list, e)) > 0 => At(list, e) # {}
           /\ At(<<>>, e) = {}
<1>1. IsFiniteSet(1 .. Len(list)) /\ Len(list) \in Nat
  BY LenProperties, FS_Interval
<1>2. At(list, e) \in SUBSET (1 .. Len(list))
  BY LenProperties DEF At
<1>3. IsFiniteSet(At(list, e))
  BY <1>1, <1>2, FS_Subset
<1>4. Cardinality(At(list, e)) \in Nat /\ (Cardinality(At(list, e)) = 0 <=> At(list, e) = {})
  BY <1>3, FS_CardinalityType, FS_EmptySet
<1>5. At(<<>>, e) = {}
  BY DEF At
<1> QED
  BY <1>4, <1>5

\* A step that is none of an assignment, of the destruction of an object or of
\* TearSever changes no field and no back reference.
Still(t) ==
    /\ refBy' = refBy /\ field' = field /\ Born \subseteq Born'
    /\ pc[t] \notin SetLabels \cup DestroyLabels
    /\ pc'[t] \notin SetLabels \cup (DestroyLabels \ {"desUnregister"})

HandleStep(t) ==
    \/ New(t) \/ PinLock(t) \/ PinCount(t) \/ Drop(t)
    \/ \E o \in Born : CopyRoot(t, o) \/ DropRoot(t, o) \/ Unpin(t, o)
                       \/ Pin(t, o, "ro") \/ Pin(t, o, "rw")

ScanStep(t) ==
    \/ CollectId(t) \/ CollectEnd(t) \/ CollectNext(t) \/ CollectTry(t) \/ CollectUntry(t)
    \/ CollectRead(t) \/ CollectFlag(t) \/ CollectRelease(t) \/ CollectUpgrade(t)

LEMMA BornGrows ==
    ASSUME allocated \in Nat, allocated' \in {allocated, allocated + 1}
    PROVE  Born \subseteq Born'
  BY DEF Born

LEMMA HandleIsStill ==
    ASSUME RootInv, NEW t \in Threads, Threads = {t}, Placed(t), HandleStep(t)
    PROVE  Still(t) /\ ~Severed(t) /\ ~Severed(t)' /\ col' = col /\ pc'[t] \notin ListLabels
<1>1. HandleFrame(t)
  BY HandlePlaced DEF HandleStep
<1>2. allocated \in Nat /\ pc = [u \in Threads |-> pc[u]]
  BY GraphAssumption DEF RootInv, HandleTypes
<1> USE DEF headerVars, heapVars, implVars, clientVars, opVars, colVars, Goto, StartOp, EndOp, Idle
<1>3. /\ allocated' \in {allocated, allocated + 1}
      /\ pc[t] \in {Idle, "pinLock", "pinCount", "dropTest", "dropLock", "dropCount", "dropFlag", "dropRelease"}
      /\ pc'[t] \in {Idle, "pinLock", "pinCount", "dropTest", "dropLock", "dropCount", "dropFlag", "dropRelease"}
  <2>1. CASE New(t) \/ PinLock(t) \/ PinCount(t)
    BY <2>1, <1>2 DEF New, PinLock, PinCount
  <2>2. CASE Drop(t)
    BY <2>2, <1>2 DEF Drop, DropTest, DropLockObject, DropCount, DropFlag, DropRelease, AfterDrop
  <2>3. ASSUME NEW o \in Born, CopyRoot(t, o) \/ DropRoot(t, o) \/ Unpin(t, o) \/ Pin(t, o, "ro") \/ Pin(t, o, "rw")
        PROVE  /\ allocated' \in {allocated, allocated + 1}
               /\ pc[t] = Idle
               /\ pc'[t] \in {Idle, "pinLock", "dropTest"}
    BY <2>3, <1>2 DEF CopyRoot, DropRoot, Unpin, Pin
  <2> QED
    BY <2>1, <2>2, <2>3 DEF HandleStep
<1>4. Born \subseteq Born'
  BY <1>2, <1>3, BornGrows
<1> QED
  BY <1>1, <1>3, <1>4 DEF Still, Severed, HandleFrame, SetLabels, DestroyLabels, ListLabels

LEMMA SearchIsStill ==
    ASSUME RootInv, NEW t \in Threads, Threads = {t}, Placed(t), Placed(t)', ScanStep(t) \/ Find(t)
    PROVE  Still(t) /\ ~Severed(t) /\ ~Severed(t)'
<1>1. allocated \in Nat /\ pc = [u \in Threads |-> pc[u]] /\ col = [u \in Threads |-> col[u]]
      /\ WalkPlaces(t) /\ WalkPlaces(t)'
  BY GraphAssumption DEF RootInv, HandleTypes, Placed
<1> USE DEF headerVars, heapVars, implVars, clientVars, opVars, colVars, Goto, StartCol, Idle
<1>2. CASE ScanStep(t)
  <2>1. /\ refBy' = refBy /\ field' = field /\ allocated' = allocated
        /\ pc[t] \in ScanLabels \cup {"colId", "colNext"}
        /\ pc'[t] \in ScanLabels \cup {"colId", "colNext", "findEnter", "desUnregister", Idle}
        /\ pc'[t] = "desUnregister" => col'[t] = col[t]
    BY <1>2, <1>1, Zenon DEF ScanStep, CollectId, CollectEnd, CollectNext, CollectTry, CollectUntry, CollectRead,
                      CollectFlag, CollectRelease, CollectUpgrade, ScanLabels, NextCandidate, Abort
  <2>2. ~Severed(t)
    BY <2>1, <1>1 DEF Severed, WalkPlaces, ScanLabels
  <2>3. ~Severed(t)'
    BY <2>1, <1>1 DEF Severed, WalkPlaces, ScanLabels, FindLabels, ListLabels
  <2> QED
    BY <2>1, <2>2, <2>3, <1>1, BornGrows DEF Still, ScanLabels, SetLabels, DestroyLabels
<1>3. CASE Find(t)
  <2>1. /\ refBy' = refBy /\ field' = field /\ allocated' = allocated
        /\ pc[t] \in FindLabels
        /\ pc'[t] \in FindLabels \cup {"colRelease", "colUpgrade"}
    BY <1>3, <1>1 DEF Find, FindEnter, FindFlag, FindScan, FindDescend, FindLock, FindReturn,
                        FindRelease, FindReturns, FindLabels
  <2>2. ~Severed(t)
    BY <2>1, <1>1 DEF Severed, WalkPlaces, FindLabels
  <2>3. ~Severed(t)'
    BY <2>1, <1>1 DEF Severed, WalkPlaces, ScanLabels, FindLabels
  <2> QED
    BY <2>1, <2>2, <2>3, <1>1, BornGrows DEF Still, FindLabels, SetLabels, DestroyLabels
<1> QED
  BY <1>2, <1>3

LEMMA OtherWalksAreStill ==
    ASSUME RootInv, NEW t \in Threads, Threads = {t}, Placed(t), Placed(t)',
           FastNext(t) \/ FastEnd(t) \/ NewLarge(t) \/ Destroy(t) \/ \E p \in Lists : CollectBegin(t, p)
    PROVE  Still(t) /\ ~Severed(t) /\ ~Severed(t)'
<1>1. allocated \in Nat /\ pc = [u \in Threads |-> pc[u]] /\ col = [u \in Threads |-> col[u]]
      /\ WalkPlaces(t) /\ WalkPlaces(t)' /\ HeapTypes
  BY GraphAssumption DEF RootInv, HandleTypes, Placed
<1> USE DEF headerVars, heapVars, implVars, clientVars, opVars, colVars, Goto, StartCol, Idle
<1>2. CASE FastNext(t)
  <2>1. /\ refBy' = refBy /\ field' = field /\ allocated' = allocated
        /\ pc[t] = "fastNext" /\ pc'[t] \in {"fastNext", "desUnregister", Idle}
    BY <1>2, <1>1, Zenon DEF FastNext, Abort
  <2>2. col[t] \in Walks /\ col[t].back = "fastNext"
    BY <2>1, <1>1 DEF WalkPlaces, ListLabels
  <2>3. CASE pc'[t] = "desUnregister"
    <3>1. PICK o : o = allocations[Large][col[t].i]
      OBVIOUS
    <3>2. PICK c : c = [col[t] EXCEPT !.obj = o]
      BY Zenon
    <3>3. col'[t] = c
      BY <2>1, <2>3, <3>1, <3>2, <1>2, <1>1, Zenon DEF FastNext, Abort
    <3>4. c.back = col[t].back
      BY <3>2, <2>2 DEF Walks
    <3> QED
      BY <2>1, <2>2, <2>3, <3>3, <3>4, <1>1, BornGrows DEF Still, Severed, SetLabels, DestroyLabels
  <2>4. CASE pc'[t] # "desUnregister"
    BY <2>1, <2>4, <1>1, <2>2, BornGrows
    DEF Severed, WalkPlaces, ListLabels, Still, SetLabels, DestroyLabels
  <2> QED
    BY <2>3, <2>4
<1>3. CASE FastEnd(t)
  BY <1>3, <1>1, BornGrows
  DEF FastEnd, Still, Severed, WalkPlaces, SetLabels, DestroyLabels, ListLabels
<1>4. CASE NewLarge(t) \/ Destroy(t) \/ \E p \in Lists : CollectBegin(t, p)
  <2>1. /\ refBy' = refBy /\ field' = field /\ allocated' = allocated
        /\ pc[t] = Idle /\ pc'[t] \in {"fastNext", "tearSever", "colId"}
    BY <1>4, <1>1 DEF NewLarge, Destroy, CollectBegin
  <2>2. ~Severed(t)
    BY <2>1 DEF Severed, ListLabels
  <2>3. ~Severed(t)'
    BY <2>1, <1>1 DEF Severed, WalkPlaces, ListLabels
  <2> QED
    BY <2>1, <2>2, <2>3, <1>1, BornGrows DEF Still, SetLabels, DestroyLabels
<1> QED
  BY <1>2, <1>3, <1>4

\* What a list loses entries to, or gains by an exchange, has been on it.
SubList(rest, list) == \A i \in DOMAIN rest : \E j \in DOMAIN list : rest[i] = list[j]

LEMMA SwapRemoveEntries ==
    ASSUME NEW T, NEW list \in Seq(T), NEW e
    PROVE  SubList(SwapRemove(list, e), list)
  BY LenProperties DEF SwapRemove, SubList

LEMMA RemoveFirstEntries ==
    ASSUME NEW T, NEW list \in Seq(T), NEW e
    PROVE  SubList(RemoveFirst(list, e), list)
<1>1. PICK n \in Nat : n = Len(list) /\ DOMAIN list = 1 .. n
  BY LenProperties
<1>2. CASE At(list, e) = {}
  BY <1>1, <1>2, Zenon DEF At, RemoveFirst, SubList
<1>3. CASE At(list, e) # {}
  <2>1. PICK k \in At(list, e) :
              /\ k \in 1 .. Len(list) /\ Len(list) \in Nat \ {0}
              /\ RemoveFirst(list, e) \in Seq(T)
              /\ Len(RemoveFirst(list, e)) = Len(list) - 1
              /\ \A j \in 1 .. Len(list) - 1 :
                    RemoveFirst(list, e)[j] = IF j < k THEN list[j] ELSE list[j + 1]
    BY <1>3, FirstRemoved, Zenon
  <2>2. PICK rest \in Seq(T) : rest = RemoveFirst(list, e) /\ Len(rest) = n - 1
    BY <2>1, <1>1
  <2>3. DOMAIN rest = 1 .. n - 1
    BY <2>2, LenProperties
  <2>4. ASSUME NEW j \in 1 .. n - 1 PROVE \E i \in 1 .. n : rest[j] = list[i]
    BY <2>1, <2>2, <1>1
  <2> QED
    BY <2>2, <2>3, <2>4, <1>1, Zenon DEF SubList
<1> QED
  BY <1>2, <1>3

LEMMA FrontEntries ==
    ASSUME NEW T, NEW list \in Seq(T)
    PROVE  SubList(SubSeq(list, 1, Len(list) - 1), list)
<1>1. PICK n \in Nat : n = Len(list) /\ DOMAIN list = 1 .. n
  BY LenProperties
<1>2. PICK rest \in Seq(T) : rest = SubSeq(list, 1, Len(list) - 1)
  BY FrontSeq, Zenon
<1>3. CASE n = 0
  BY <1>1, <1>3, EmptySeq, <1>2 DEF SubList
<1>4. CASE n # 0
  BY <1>1, <1>4, <1>2, FrontSeq, LenProperties DEF SubList
<1> QED
  BY <1>3, <1>4

LEMMA ShrunkEntries ==
    ASSUME HeapTypes, NEW t \in Threads, col[t] \in Walks
    PROVE  SubList(Shrunk(t), Listed(t))
<1>1. PICK list \in Seq(Objects) : list = Listed(t)
  BY DEF HeapTypes, Listed, Walks
<1>2. PICK o : o = Candidate(t)
  OBVIOUS
<1>3. /\ SubList(RemoveFirst(list, o), list) /\ SubList(SwapRemove(list, o), list)
      /\ SubList(SubSeq(list, 1, Len(list) - 1), list) /\ SubList(list, list)
  BY <1>1, RemoveFirstEntries, SwapRemoveEntries, FrontEntries DEF SubList
<1>4. col[t].back \in Backs
  BY DEF Walks
<1>5. Shrunk(t) \in {RemoveFirst(list, o), SwapRemove(list, o), SubSeq(list, 1, Len(list) - 1), list}
  BY <1>1, <1>2, <1>4 DEF Shrunk, Backs
<1> QED
  BY <1>1, <1>3, <1>5, Zenon

\* What can become of the lists in a step.
Registers(p) ==
    /\ allocations' = [allocations EXCEPT ![p] = Append(@, allocated + 1)]
    /\ allocated' = allocated + 1 /\ allocated + 1 \in Objects
    /\ lookup' = lookup \cup {allocated + 1}

ListsChange ==
    \/ allocations' = allocations /\ allocated' = allocated
    \/ \E p \in Pages : Registers(p) /\ allocated + 1 \notin LargeObjects
    \/ Registers(Large) /\ allocated + 1 \in LargeObjects
    \/ /\ allocated' = allocated
       /\ \E l \in Lists, rest \in Seq(Objects) :
             /\ allocations' = [allocations EXCEPT ![l] = rest]
             /\ SubList(rest, allocations[l])

LEMMA KindsKept ==
    ASSUME Kinds, HeapTypes, ListsChange, allocated \in Nat
    PROVE  Kinds'
<1>0. /\ Large \notin Pages /\ Pages \subseteq Lists /\ allocations \in [Lists -> Seq(Objects)]
      /\ LargeObjects # {} => Large \in Lists
  BY GraphAssumption DEF Lists, HeapTypes
<1>6. /\ allocated' \in {allocated, allocated + 1} /\ Born \subseteq Born'
      /\ allocated' = allocated + 1 => allocated + 1 \in Born'
  BY DEF ListsChange, Registers, Born
<1>1. CASE allocations' = allocations
  BY <1>1, <1>6 DEF Kinds
<1>2. ASSUME NEW p \in Lists, Registers(p), p = Large <=> allocated + 1 \in LargeObjects
      PROVE  Kinds'
  <2>1. PICK list \in Seq(Objects) : list = allocations[p]
    BY <1>0
  <2>2. PICK x : x = allocated + 1
    OBVIOUS
  <2>3. PICK longer : longer = Append(list, x)
    BY Zenon
  <2>4. \A i \in DOMAIN longer : longer[i] = x \/ \E j \in DOMAIN list : longer[i] = list[j]
    BY <1>2, <2>2, LenProperties, <2>3, AppendProperties DEF Registers
  <2>5. allocations'[p] = longer /\ \A l \in Lists \ {p} : allocations'[l] = allocations[l]
    BY <1>0, <1>2, <2>1, <2>2, <2>3 DEF Registers
  <2> QED
    BY <1>0, <1>2, <1>6, <2>1, <2>2, <2>4, <2>5 DEF Kinds, Registers
<1>3. ASSUME NEW l \in Lists, NEW rest \in Seq(Objects),
             allocations' = [allocations EXCEPT ![l] = rest], SubList(rest, allocations[l])
      PROVE  Kinds'
  BY <1>0, <1>3, <1>6 DEF Kinds, SubList
<1>4. CASE Registers(Large) /\ allocated + 1 \in LargeObjects
  BY <1>0, <1>2, <1>4
<1>5. ASSUME NEW p \in Pages, Registers(p), allocated + 1 \notin LargeObjects
      PROVE  Kinds'
  BY <1>0, <1>2, <1>5
<1> QED
  BY <1>1, <1>3, <1>4, <1>5 DEF ListsChange

\* FastNext moves the object it destroys to the end of the list.
ToTheEnd(list, i) == [list EXCEPT ![i] = list[Len(list)], ![Len(list)] = list[i]]

LEMMA ToTheEndSeq ==
    ASSUME NEW T, NEW list \in Seq(T), NEW i \in Nat \ {0}, i <= Len(list),
           NEW rest, rest = ToTheEnd(list, i)
    PROVE  /\ rest \in Seq(T) /\ Len(rest) = Len(list) /\ SubList(rest, list) /\ Len(list) \in Nat \ {0}
           /\ rest[Len(list)] = list[i]
           /\ i # Len(list) => rest[i] = list[Len(list)]
           /\ \A j \in 1 .. Len(list) : j \notin {i, Len(list)} => rest[j] = list[j]
  BY LenProperties DEF ToTheEnd, SubList

LEMMA NextLists ==
    ASSUME RootInv, NEW t \in Threads, Threads = {t}, Placed(t), Next
    PROVE  ListsChange
<1>1. /\ allocated \in 0 .. MaxObjects /\ MaxObjects \in Nat /\ pc = [u \in Threads |-> pc[u]]
      /\ HeapTypes /\ WalkPlaces(t) /\ allocations \in [Lists -> Seq(Objects)]
      /\ Pages \subseteq Lists
  BY GraphAssumption DEF RootInv, HandleTypes, Placed, HeapTypes, Lists
<1> USE DEF headerVars, heapVars, implVars, clientVars, opVars, colVars, Goto, StartCol, StartOp, EndOp, Idle
<1>2. allocated < MaxObjects => allocated + 1 \in Objects
  BY <1>1 DEF Objects
<1>3. CASE HandleStep(t)
  <2>1. CASE New(t)
    BY <2>1, <1>1, <1>2, Zenon DEF New, ListsChange, Registers, RegisterObject
  <2>2. CASE PinLock(t) \/ PinCount(t) \/ Drop(t)
    BY <2>2 DEF PinLock, PinCount, Drop, DropTest, DropLockObject, DropCount, DropFlag, DropRelease, ListsChange
  <2>3. CASE \E o \in Born : CopyRoot(t, o) \/ DropRoot(t, o) \/ Unpin(t, o)
                             \/ Pin(t, o, "ro") \/ Pin(t, o, "rw")
    BY <2>3 DEF CopyRoot, DropRoot, Unpin, Pin, ListsChange
  <2> QED
    BY <1>3, <2>1, <2>2, <2>3 DEF HandleStep
<1>4. CASE ScanStep(t) \/ Find(t)
  <2>1. allocated' = allocated /\ allocations' = allocations
    BY <1>4, Zenon DEF ScanStep, CollectId, CollectEnd, CollectNext, CollectTry, CollectUntry, CollectRead,
                CollectFlag, CollectRelease, CollectUpgrade,
                Find, FindEnter, FindFlag, FindScan, FindDescend, FindLock, FindReturn, FindRelease
  <2> QED
    BY <2>1 DEF ListsChange
<1>5. CASE DestroyObject(t)
  BY <1>5, DestroySteps, <1>1, ShrunkSeq, ShrunkEntries
  DEF DestroyMoves, DestroyLabels, Walks, ListsChange, Listed
<1>6. CASE Assign(t) \/ \E o \in Born, s \in Slots, x \in {Null} \cup Objects : SetField(t, o, s, x)
  BY AssignSteps, <1>6, Zenon DEF ListsChange, SetField
<1>7. CASE FastNext(t)
  <2>1. /\ pc[t] = "fastNext" /\ ~FastEnds(t) /\ allocated' = allocated
    BY <1>7, Zenon DEF FastNext
  <2>2. col[t] \in Walks /\ col[t].page = Large /\ Large \in Lists
    BY <2>1, <1>1 DEF WalkPlaces, ListLabels, Walks
  <2>3. PICK list \in Seq(Objects) : list = allocations[Large]
    BY <2>2, <1>1
  <2>4. PICK i \in Nat \ {0} : i = col[t].i
    BY <2>2 DEF Walks
  <2>5. i <= Len(list)
    BY <2>1, <2>3, <2>4, LenProperties DEF FastEnds
  <2>6. PICK rest : rest = ToTheEnd(list, i)
    OBVIOUS
  <2>7. allocations' = allocations \/ allocations' = [allocations EXCEPT ![Large] = rest]
    BY <1>7, <2>3, <2>4, <2>6, Zenon DEF FastNext, ToTheEnd
  <2>8. rest \in Seq(Objects) /\ SubList(rest, list)
    BY <2>5, <2>6, ToTheEndSeq
  <2> QED
    BY <2>1, <2>2, <2>3, <2>7, <2>8 DEF ListsChange
<1>8. CASE FastEnd(t)
  BY GraphAssumption, <1>8 DEF FastEnd, ListsChange, Registers, RegisterObject
<1>9. CASE NewLarge(t) \/ Destroy(t) \/ \E p \in Lists : CollectBegin(t, p)
  BY <1>9 DEF NewLarge, Destroy, CollectBegin, ListsChange
<1>10. CASE TearDown(t)
  <2>1. CASE TearSever(t) \/ TearPagesEnd(t) \/ TearLarge(t)
    BY <2>1 DEF TearSever, TearPagesEnd, TearLarge, ListsChange
  <2>2. CASE TearPages(t)
    BY <2>2, <1>1, FrontSeq, FrontEntries, Zenon DEF TearPages, ListsChange
  <2> QED
    BY <1>10, <2>1, <2>2 DEF TearDown
<1> QED
  BY <1>3, <1>4, <1>5, <1>6, <1>7, <1>8, <1>9, <1>10, OneThreadSteps DEF Collect, HandleStep, ScanStep

LEMMA StillLedger ==
    ASSUME RootInv, NEW t \in Threads, Placed(t), Still(t)
    PROVE  /\ Upwards(t) => Upwards(t)'
           /\ Counting(t)' = Counting(t) /\ Counting(t) = field
           /\ Tally(t) => Tally(t)'
  BY DEF Still, Upwards, Counting, SetLabels, DestroyLabels, Pending, Tally, Referring

LEMMA SetFieldLedger ==
    ASSUME RootInv, NEW t \in Threads, Threads = {t}, Placed(t), Upwards(t), Tally(t),
           NEW p \in Objects, NEW s \in Slots, NEW x \in {Null} \cup Objects, SetField(t, p, s, x)
    PROVE  Upwards(t)' /\ Tally(t)' /\ ~Severed(t) /\ ~Severed(t)'
<1>0. /\ pc = [u \in Threads |-> pc[u]] /\ loc = [u \in Threads |-> loc[u]]
      /\ roots \in [Threads -> [Objects -> 0 .. MaxRoots]] /\ roPins \in [Threads -> SUBSET Objects]
      /\ rwPins \in [Threads -> SUBSET Objects] /\ HeapTypes
      /\ \A o \in Objects \ Born : roots[t][o] = 0 /\ ~Pins(t, o)
  BY DEF RootInv, HandleTypes, NoHandlesAhead, Placed
<1>1. PICK role \in Sources(t, x), c \in {[obj |-> p, slot |-> s, new |-> x, old |-> Null, role |-> r, hold |-> FALSE] :
                                              r \in Sources(t, x)} :
         /\ c = [obj |-> p, slot |-> s, new |-> x, old |-> Null, role |-> role, hold |-> FALSE]
         /\ StartOp(t, IF role = "ro_pin" THEN "setUpgrade" ELSE "setCheck", c)
  BY DEF SetField
<1>2. /\ c.obj = p /\ c.new = x /\ loc'[t] = c /\ pc[t] = Idle /\ pc'[t] \in {"setUpgrade", "setCheck"}
      /\ refBy' = refBy /\ field' = field /\ Born' = Born
      /\ x = Null \/ <<p, x>> \in Edges
  BY <1>1, <1>0, Zenon DEF SetField, headerVars, heapVars, StartOp, Goto, Born
<1>3. x # Null => Ascends(p, x)
  BY <1>2, RankAscends DEF Ascends
<1>4. x # Null => x \in Born
  <2>1. x # Null => \/ Owns(t, x) \/ x \in FieldValues(t) \/ Pins(t, x)
    BY <1>1, Zenon DEF Sources, Pins
  <2>2. Owns(t, x) /\ x \in Objects => x \in Born
    BY <1>0 DEF Owns
  <2>3. Pins(t, x) /\ x \in Objects => x \in Born
    BY <1>0
  <2>4. x \in FieldValues(t) => x \in Born
    BY <1>0 DEF Upwards, FieldValues
  <2> QED
    BY <2>1, <2>2, <2>3, <2>4
<1>5. Upwards(t)'
  BY <1>2, <1>3, <1>4 DEF Upwards
<1>6. Counting(t)' = field /\ Counting(t) = field
  BY <1>2 DEF Counting, Idle
<1>7. \A y, q : ~Pending(t, y, q) /\ ~Pending(t, y, q)'
  BY <1>2 DEF Pending, Idle
<1>8. Tally(t)'
  BY <1>2, <1>6, <1>7 DEF Tally, Referring
<1>9. ~Severed(t) /\ ~Severed(t)'
  BY <1>2 DEF Severed, ListLabels, Idle
<1> QED
  BY <1>5, <1>8, <1>9

LEMMA AssignLedger ==
    ASSUME RootInv, NEW t \in Threads, Threads = {t}, Placed(t), Upwards(t), Tally(t), Assign(t)
    PROVE  /\ Upwards(t)' /\ Tally(t)' /\ ~Severed(t) /\ ~Severed(t)'
           /\ pc[t] = "setRemove" => Refers(loc[t].obj, loc[t].old)
<1>1. /\ pc[t] \in SetLabels /\ pc'[t] \in SetLabels \cup {Idle}
      /\ loc[t].obj \in Born /\ loc[t].obj \in Objects /\ loc[t].slot \in Slots
      /\ loc[t].new \in Objects \cup {Null} /\ loc[t].old \in Objects \cup {Null}
      /\ AssignMoves(t) /\ Born' = Born
  BY AssignSteps DEF Born
<1>2. /\ field \in [Objects -> [Slots -> Objects \cup {Null}]] /\ refBy \in [Objects -> Seq(Objects)]
      /\ OpPlaces(t)
  BY DEF Placed, HeapTypes
<1>3. ~Severed(t) /\ ~Severed(t)'
  BY <1>1 DEF Severed, SetLabels, ListLabels, Idle
<1>d. PICK p \in Objects, s \in Slots, x \in Objects \cup {Null}, y \in Objects \cup {Null} :
         p = loc[t].obj /\ s = loc[t].slot /\ x = loc[t].new /\ y = loc[t].old
  BY <1>1, Zenon
<1>4. ASSUME refBy' = refBy, Counting(t)' = Counting(t), \A z, q \in Objects : Pending(t, z, q)' <=> Pending(t, z, q)
      PROVE  Tally(t)'
  BY <1>4 DEF Tally, Referring
<1>5. ASSUME field' = field, pc'[t] \in SetLabels => loc'[t].obj = loc[t].obj /\ loc'[t].new = loc[t].new
      PROVE  Upwards(t)'
  BY <1>5, <1>1, <1>d DEF Upwards
<1>6. CASE pc[t] \in {"setUpgrade", "setCheck", "setNewLock", "setDowngrade"}
  <2>1. /\ refBy' = refBy /\ field' = field
        /\ pc'[t] \in {"setCheck", "setNewLock", "setAdd", "setOldLock", "setRemove", "setDowngrade", Idle}
        /\ pc'[t] \in {"setOldLock", "setRemove"} => loc'[t].new = Null
        /\ pc'[t] \in SetLabels => loc'[t].obj = loc[t].obj /\ loc'[t].new = loc[t].new
    BY <1>1, <1>d, <1>6 DEF AssignMoves, AssignLeaves, AssignLocals, SetLabels, Idle
  <2>2. Counting(t)' = field /\ Counting(t) = field
    BY <2>1, <1>6 DEF Counting, Idle
  <2>3. Null \notin Objects
    BY DEF Null, Objects
  <2>4. \A z, q \in Objects : ~Pending(t, z, q)' /\ ~Pending(t, z, q)
    BY <2>1, <2>3, <1>6 DEF Pending, Idle
  <2> QED
    BY <2>1, <2>2, <2>4, <1>3, <1>4, <1>5, <1>6
<1>7. CASE pc[t] \in {"setOldLock", "setOldRelease"}
  BY <1>1, <1>d, <1>7, <1>3, <1>4, <1>5, Zenon DEF AssignMoves, AssignLocals, Counting, Pending
<1>8. CASE pc[t] = "setStore"
  <2>1. /\ refBy' = refBy /\ field' = [field EXCEPT ![p][s] = x]
        /\ pc'[t] \in {"setDowngrade", Idle}
        /\ pc'[t] \in SetLabels => loc'[t].obj = loc[t].obj /\ loc'[t].new = loc[t].new
    BY <1>1, <1>d, <1>8 DEF AssignMoves, AssignLeaves, SetLabels, Idle
  <2>2. Counting(t)' = Counting(t)
    BY <2>1, <1>8, <1>d DEF Counting, Idle
  <2>3. \A z, q \in Objects : ~Pending(t, z, q)' /\ ~Pending(t, z, q)
    BY <2>1, <1>8, <1>d DEF Pending, Idle
  <2>4. \A q \in Objects, r \in Slots : field'[q][r] = field[q][r] \/ (q = p /\ field'[q][r] = x)
    BY <2>1, <1>1, <1>d, <1>2, FieldChanged
  <2>5. Upwards(t)'
    BY <2>1, <2>4, <1>1, <1>d DEF Upwards
  <2> QED
    BY <2>1, <2>2, <2>3, <2>5, <1>3, <1>4, <1>8
<1>9. CASE pc[t] = "setAdd"
  <2>1. /\ refBy' = [refBy EXCEPT ![x] = Append(@, p)] /\ field' = field
        /\ loc'[t].obj = p /\ loc'[t].new = x /\ loc'[t].slot = s
        /\ IF y = Null THEN pc'[t] = "setStore" ELSE pc'[t] \in {"setRemove", "setOldLock"}
    BY <1>1, <1>d, <1>9 DEF AssignMoves, AssignLocals
  <2>2. x \in Objects /\ y = field[p][s] /\ y # x
    BY <1>1, <1>d, <1>2, <1>9 DEF OpPlaces
  <2>3. /\ Cardinality(At(refBy'[x], p)) = Cardinality(At(refBy[x], p)) + 1
        /\ \A q : q # p => At(refBy'[x], q) = At(refBy[x], q)
        /\ \A z \in Objects : z # x => refBy'[z] = refBy[z]
    <3>1. refBy[x] \in Seq(Objects) /\ refBy'[x] = Append(refBy[x], p)
      BY <2>1, <2>2, <1>2
    <3>2. /\ Cardinality(At(Append(refBy[x], p), p)) = Cardinality(At(refBy[x], p)) + 1
          /\ \A q : q # p => At(Append(refBy[x], p), q) = At(refBy[x], q)
      BY <1>d, <3>1, AppendCounts
    <3>3. \A z \in Objects : z # x => refBy'[z] = refBy[z]
      BY <2>1, <2>2, <1>2
    <3> QED
      BY <3>1, <3>2, <3>3
  <2>4. Counting(t) = field /\ \A z, q : ~Pending(t, z, q)
    BY <1>9 DEF Counting, Pending
  <2>5. CASE y = Null
    <3>1. /\ Counting(t)' = [field EXCEPT ![p][s] = x]
          /\ \A z, q : ~Pending(t, z, q)'
      BY <2>1, <2>5, <1>d DEF Counting, Pending
    <3>2. PICK g : g = [field EXCEPT ![p][s] = x]
      BY Zenon
    <3>3. /\ Cardinality(Holding(g, x, p)) = Cardinality(Holding(field, x, p)) + 1
          /\ \A z, q \in Objects : q # p \/ z \notin {x, field[p][s]} => Holding(g, z, q) = Holding(field, z, q)
          /\ \A z, q \in Objects : Cardinality(Holding(g, z, q)) \in Nat
      <4>1. PICK f \in [Objects -> [Slots -> Objects \cup {Null}]] : f = field
        BY <1>2
      <4>2. g = Stored(f, p, s, x) /\ f[p][s] # x
        BY <3>2, <4>1, <2>2 DEF Stored
      <4>3. p \in Objects /\ s \in Slots /\ x \in Objects \cup {Null}
        BY <1>d
      <4>4. /\ Cardinality(Holding(g, x, p)) = Cardinality(Holding(f, x, p)) + 1
            /\ \A z, q \in Objects : q # p \/ z \notin {x, f[p][s]} => Holding(g, z, q) = Holding(f, z, q)
            /\ \A z, q \in Objects : Cardinality(Holding(g, z, q)) \in Nat
        BY <4>1, <4>2, <4>3, HoldingChanged
      <4> QED
        BY <4>1, <4>4
    <3>4. Null \notin Objects
      BY DEF Null, Objects
    <3>5. ASSUME NEW z \in Objects, NEW q \in Objects
          PROVE  Cardinality(Referring(z, q))' = Cardinality(Holding(g, z, q))
      <4>1. Cardinality(At(refBy[z], q)) = Cardinality(Holding(field, z, q)) + 0
        BY <2>4 DEF Tally, Referring
      <4>2. Cardinality(Holding(field, z, q)) \in Nat
        BY <1>2, SomeSlots DEF Holding
      <4>3. CASE z = x /\ q = p
        BY <4>1, <4>2, <4>3, <2>3, <3>3 DEF Referring
      <4>4. CASE ~(z = x /\ q = p)
        BY <4>4, <3>3, <3>4, <2>2, <2>5, <2>3, <4>1, <4>2 DEF Referring
      <4> QED
        BY <4>3, <4>4
    <3>6. \A z, q \in Objects : Cardinality(Holding(g, z, q)) \in Nat
      BY <3>3
    <3>7. Tally(t)'
      <4>1. Counting(t)' = g
        BY <3>1, <3>2
      <4>2. \A z, q \in Objects :
               Cardinality(Referring(z, q))' = Cardinality(Holding(Counting(t)', z, q)) + 0
        BY <4>1, <3>5, <3>6
      <4> QED
        BY <4>2, <3>1, Zenon DEF Tally
    <3> QED
      BY <3>7, <2>1, <1>3, <1>5, <1>9, <1>d
  <2>6. CASE y # Null
    <3>1. Counting(t)' = field /\ \A z, q : Pending(t, z, q)' <=> z = x /\ q = p
      BY <2>1, <2>6, <1>d DEF Counting, Pending
    <3>2. ASSUME NEW z \in Objects, NEW q \in Objects
          PROVE  Cardinality(Referring(z, q))' = Cardinality(Holding(field, z, q)) + IF z = x /\ q = p THEN 1 ELSE 0
      <4>1. Cardinality(At(refBy[z], q)) = Cardinality(Holding(field, z, q)) + 0
        BY <2>4 DEF Tally, Referring
      <4>2. Cardinality(Holding(field, z, q)) \in Nat
        BY <1>2, SomeSlots DEF Holding
      <4> QED
        BY <4>1, <4>2, <2>3 DEF Referring
    <3>3. Tally(t)'
      BY <3>1, <3>2 DEF Tally
    <3> QED
      BY <3>3, <2>1, <1>3, <1>5, <1>9, <1>d
  <2> QED
    BY <2>5, <2>6
<1>10. CASE pc[t] = "setRemove"
  <2>1. y \in Objects /\ y = field[p][s] /\ y # x
    BY <1>1, <1>d, <1>2, <1>10 DEF OpPlaces
  <2>2. Counting(t) = field /\ \A z, q : Pending(t, z, q) <=> z = x /\ q = p
    BY <1>10, <1>d DEF Counting, Pending
  <2>3. PICK g : g = [field EXCEPT ![p][s] = x]
    BY Zenon
  <2>4. /\ x \in Objects => Cardinality(Holding(g, x, p)) = Cardinality(Holding(field, x, p)) + 1
        /\ Cardinality(Holding(field, y, p)) = Cardinality(Holding(g, y, p)) + 1
        /\ \A z, q \in Objects : q # p \/ z \notin {x, y} => Holding(g, z, q) = Holding(field, z, q)
        /\ \A z, q \in Objects : /\ Cardinality(Holding(field, z, q)) \in Nat
                                 /\ Cardinality(Holding(g, z, q)) \in Nat
    <3>1. PICK f \in [Objects -> [Slots -> Objects \cup {Null}]] : f = field
      BY <1>2
    <3>2. g = Stored(f, p, s, x) /\ f[p][s] # x /\ y = f[p][s]
      BY <2>1, <2>3, <3>1 DEF Stored
    <3>3. p \in Objects /\ s \in Slots /\ x \in Objects \cup {Null}
      BY <1>d
    <3>4. /\ Cardinality(Holding(g, x, p)) = Cardinality(Holding(f, x, p)) + 1
          /\ Cardinality(Holding(f, f[p][s], p)) = Cardinality(Holding(g, f[p][s], p)) + 1
          /\ \A z, q \in Objects : q # p \/ z \notin {x, f[p][s]} => Holding(g, z, q) = Holding(f, z, q)
          /\ \A z, q \in Objects : /\ Cardinality(Holding(f, z, q)) \in Nat
                                   /\ Cardinality(Holding(g, z, q)) \in Nat
      BY <3>1, <3>2, <3>3, HoldingChanged
    <3> QED
      BY <3>1, <3>2, <3>4
  <2>5. \A z, q \in Objects :
           Cardinality(At(refBy[z], q)) = Cardinality(Holding(field, z, q)) + IF z = x /\ q = p THEN 1 ELSE 0
    BY <2>2 DEF Tally, Referring
  <2>6. At(refBy[y], p) # {} /\ refBy[y] \in Seq(Objects)
    <3>1. Cardinality(At(refBy[y], p)) > 0
      BY <2>1, <2>4, <2>5, <1>1, <1>d
    <3> QED
      BY <3>1, <2>1, <1>2, SomeReferrers
  <2>7. Refers(p, y)
    BY <2>6 DEF Refers, At
  <2>8. /\ Unreference(t, p, y) /\ field' = field
        /\ loc'[t] = loc[t] /\ pc'[t] \in {"setOldRelease", "setStore"}
    BY <2>7, <1>1, <1>d, <1>10 DEF AssignMoves
  <2>9. PICK rest : rest = SwapRemove(refBy[y], p)
    OBVIOUS
  <2>10. refBy' = [refBy EXCEPT ![y] = rest]
    BY <2>8, <2>9 DEF Unreference
  <2>11. /\ Cardinality(At(refBy[y], p)) = Cardinality(At(refBy'[y], p)) + 1
         /\ \A q : q # p => Cardinality(At(refBy'[y], q)) = Cardinality(At(refBy[y], q))
         /\ \A z \in Objects : z # y => refBy'[z] = refBy[z]
         /\ Cardinality(At(refBy'[y], p)) \in Nat
    <3>1. refBy'[y] = rest /\ \A z \in Objects : z # y => refBy'[z] = refBy[z]
      BY <2>1, <2>10, <1>2
    <3>2. rest \in Seq(Objects)
      BY <2>6, <2>9, SwapRemoveType
    <3>3. /\ Cardinality(At(refBy[y], p)) = Cardinality(At(rest, p)) + 1
          /\ \A q : q # p => Cardinality(At(rest, q)) = Cardinality(At(refBy[y], q))
      BY <2>6, <2>9, SwapRemoveCounts
    <3>4. Cardinality(At(rest, p)) \in Nat
      BY <3>2, SomeReferrers
    <3> QED
      BY <3>1, <3>3, <3>4
  <2>12. Counting(t)' = g /\ \A z, q : ~Pending(t, z, q)'
    BY <2>3, <2>8, <1>d DEF Counting, Pending
  <2>13. ASSUME NEW z \in Objects, NEW q \in Objects
         PROVE  Cardinality(Referring(z, q))' = Cardinality(Holding(g, z, q))
    <3>1. CASE z = y /\ q = p
      <4>1. Cardinality(At(refBy[y], p)) = Cardinality(Holding(field, y, p)) + 0
        BY <2>1, <2>5, <1>1, <1>d
      <4> QED
        BY <4>1, <3>1, <2>4, <2>11, <1>1, <1>d DEF Referring
    <3>2. CASE z = x /\ q = p
      BY <3>2, <2>5, <2>1, <2>11, <2>4 DEF Referring
    <3>3. CASE q # p \/ z \notin {x, y}
      BY <3>3, <2>5, <2>4, <2>11 DEF Referring
    <3> QED
      BY <3>1, <3>2, <3>3
  <2>14. Tally(t)'
    BY <2>4, <2>12, <2>13 DEF Tally
  <2> QED
    BY <2>7, <2>8, <2>14, <1>3, <1>5, <1>d
<1> QED
  BY <1>1, <1>d, <1>6, <1>7, <1>8, <1>9, <1>10 DEF SetLabels

\* Unreferencing: one entry less for the value, whatever else becomes of it.
LEMMA Unreferenced ==
    ASSUME HeapTypes, NEW t \in Threads, NEW p \in Objects, NEW v \in Objects, Refers(p, v), Unreference(t, p, v)
    PROVE  /\ Cardinality(Referring(v, p)) = Cardinality(Referring(v, p)') + 1
           /\ \A x, q \in Objects : q # p \/ x # v =>
                 Cardinality(Referring(x, q)') = Cardinality(Referring(x, q))
           /\ \A x, q \in Objects : Cardinality(Referring(x, q)') \in Nat
           /\ \A x \in Objects \ {v} : refBy'[x] = refBy[x]
           /\ refBy' \in [Objects -> Seq(Objects)]
<1>1. refBy \in [Objects -> Seq(Objects)] /\ refBy[v] \in Seq(Objects) /\ At(refBy[v], p) # {}
  BY DEF HeapTypes, Refers, At
<1>2. PICK rest : rest = SwapRemove(refBy[v], p)
  OBVIOUS
<1>3. refBy' = [refBy EXCEPT ![v] = rest]
  BY <1>2 DEF Unreference
<1>4. rest \in Seq(Objects)
  BY <1>1, <1>2, SwapRemoveType
<1>5. /\ Cardinality(At(refBy[v], p)) = Cardinality(At(rest, p)) + 1
      /\ \A q : q # p => Cardinality(At(rest, q)) = Cardinality(At(refBy[v], q))
  BY <1>1, <1>2, SwapRemoveCounts
<1>6. /\ refBy'[v] = rest /\ \A x \in Objects \ {v} : refBy'[x] = refBy[x]
      /\ refBy' \in [Objects -> Seq(Objects)]
  BY <1>1, <1>3, <1>4
<1>7. \A x, q \in Objects : Cardinality(At(refBy'[x], q)) \in Nat
  BY <1>6, SomeReferrers
<1>8. \A x, q \in Objects : q # p \/ x # v => Cardinality(At(refBy'[x], q)) = Cardinality(At(refBy[x], q))
  BY <1>5, <1>6
<1> QED
  BY <1>5, <1>6, <1>7, <1>8 DEF Referring

LEMMA DestroyedRefers ==
    ASSUME RootInv, NEW t \in Threads, Placed(t), Ledger(t), pc[t] = "desClear"
    PROVE  Refers(Candidate(t), FieldValue(t))
<1>1. /\ Candidate(t) \in Objects /\ ~FieldsDone(t) /\ FieldValue(t) # Null
      /\ refBy \in [Objects -> Seq(Objects)] /\ field \in [Objects -> [Slots -> Objects \cup {Null}]]
  BY DEF Placed, WalkPlaces, HeapTypes, CandidateLabels, DestroyLabels
<1>2. PICK c \in Objects, s \in Slots, v \in Objects :
         c = Candidate(t) /\ s = col[t].slot /\ v = FieldValue(t) /\ v = field[c][s]
  BY <1>1 DEF FieldsDone, FieldValue
<1>3. Counting(t) = field /\ ~Pending(t, v, c)
  BY DEF Counting, Pending
<1>4. PICK h \in Nat : h = Cardinality(Holding(field, v, c)) /\ h > 0
  BY <1>2, SomeSlots, Zenon DEF Holding
<1>5. PICK r \in Nat : r = Cardinality(At(refBy[v], c)) /\ (r > 0 => At(refBy[v], c) # {})
  BY <1>1, SomeReferrers, Zenon
<1>6. h <= r
  <2>1. CASE Severed(t)
    BY <2>1, <1>2, <1>3, <1>4, <1>5 DEF Ledger, Remains, Covered, Referring
  <2>2. CASE ~Severed(t)
    BY <2>2, <1>3, <1>4, <1>5 DEF Ledger, Tally, Referring
  <2> QED
    BY <2>1, <2>2, SMTT(15)
<1>7. At(refBy[v], c) # {}
  BY <1>4, <1>5, <1>6
<1> QED
  BY <1>2, <1>7 DEF Refers, At

LEMMA DestroyLedger ==
    ASSUME RootInv, NEW t \in Threads, Threads = {t}, Placed(t), Placed(t)', Ledger(t), Kinds', DestroyObject(t)
    PROVE  /\ Ledger(t)' /\ Severed(t)' = Severed(t)
           /\ pc[t] = "desClear" => Refers(Candidate(t), FieldValue(t))
<1>1. /\ pc[t] \in DestroyLabels /\ col[t] \in Walks /\ Candidate(t) \in Objects
      /\ ~FieldsDone(t) => col[t].slot \in Slots /\ FieldValue(t) \in Objects \cup {Null}
      /\ pc[t] \in {"desClear", "desRelease"} => ~FieldsDone(t) /\ FieldValue(t) \in Objects
      /\ DestroyMoves(t) /\ Born' = Born
  BY DestroySteps DEF Born
<1>2. /\ field \in [Objects -> [Slots -> Objects \cup {Null}]] /\ refBy \in [Objects -> Seq(Objects)]
      /\ WalkPlaces(t) /\ HeapTypes
  BY DEF Placed, HeapTypes
<1>3. pc[t] = "desClear" => Refers(Candidate(t), FieldValue(t))
  BY DestroyedRefers
<1>4. PICK c \in Objects : c = Candidate(t)
  BY <1>1
<1>5. /\ pc'[t] \in DestroyLabels \cup Backs
      /\ pc'[t] \in DestroyLabels => Candidate(t)' = c
      /\ col'[t].back = col[t].back
      /\ pc[t] # "desRelease" => field' = field
      /\ pc[t] # "desClear" => refBy' = refBy
      /\ pc'[t] = "desClear" => pc[t] = "desField" /\ col'[t] = col[t]
      /\ pc'[t] = "desRelease" <=> pc[t] = "desClear"
      /\ pc'[t] = "desRelease" => col'[t] = col[t]
  BY <1>1, <1>4, <1>3 DEF Walks, DestroyMoves, DestroyLabels, WalkLocals, Candidate, Backs
<1>6. Severed(t)' = Severed(t)
  BY <1>1, <1>5 DEF Severed, DestroyLabels, Backs, ListLabels
<1>7. pc[t] \in {"desClear", "desRelease"} =>
         \E s \in Slots, v \in Objects : s = col[t].slot /\ v = FieldValue(t) /\ v = field[c][s]
  BY <1>1, <1>4 DEF FieldsDone, FieldValue
<1>8. Upwards(t)'
  <2>1. pc'[t] \notin SetLabels
    BY <1>5 DEF SetLabels, DestroyLabels, Backs
  <2>2. \A q \in Objects, r \in Slots : field'[q][r] \in {field[q][r], Null}
    <3>1. CASE pc[t] = "desRelease"
      <4>1. PICK s \in Slots : s = col[t].slot
        BY <3>1, <1>7
      <4>2. field' = [field EXCEPT ![c][s] = Null]
        BY <3>1, <4>1, <1>1, <1>4 DEF DestroyMoves
      <4> QED
        BY <4>2, <1>2, FieldChanged
    <3>2. CASE pc[t] # "desRelease"
      BY <3>2, <1>5
    <3> QED
      BY <3>1, <3>2
  <2> QED
    BY <2>1, <2>2, <1>1 DEF Ledger, Upwards
<1>9. \A x, q : ~Pending(t, x, q) /\ ~Pending(t, x, q)'
  BY <1>1, <1>5 DEF Pending, DestroyLabels, Backs
<1>10. CASE pc[t] # "desClear"
  <2>1. Counting(t)' = Counting(t) /\ refBy' = refBy
    <3>1. pc'[t] \notin {"setOldRelease", "setStore", "desRelease"} /\ refBy' = refBy
      BY <1>5, <1>10 DEF DestroyLabels, Backs
    <3>2. Counting(t)' = field'
      BY <3>1 DEF Counting
    <3>3. CASE pc[t] = "desRelease"
      BY <3>3, <1>1, <3>1, <3>2, Zenon DEF DestroyMoves, Counting
    <3>4. CASE pc[t] # "desRelease"
      BY <3>4, <1>1, <3>1, <3>2, <1>5 DEF Counting, DestroyLabels
    <3> QED
      BY <3>3, <3>4
  <2>2. Tally(t) => Tally(t)'
    BY <2>1, <1>9 DEF Tally, Referring
  <2>3. \A x \in Objects : Covered(t, x)' <=> Covered(t, x)
    BY <2>1 DEF Covered, Referring
  <2>4. ASSUME Severed(t) PROVE Remains(t)'
    <3>1. Remains(t) /\ c \in LargeObjects /\ OnPages = {} /\ col[t].page = Large
      BY <2>4, <1>1, <1>2, <1>4
      DEF Ledger, Severed, DestroyLabels, ListLabels, CandidateLabels, Remains, WalkPlaces
    <3>2. OnPages' = {}
      <4>1. \A p \in Pages : allocations'[p] = allocations[p]
        BY <1>2, GraphAssumption, <3>1, <1>1 DEF HeapTypes, Lists, DestroyMoves, DestroyLabels
      <4> QED
        BY <3>1, <4>1, <1>1 DEF OnPages
    <3>3. \A x \in Objects : word[x] = WriteHeld =>
             \/ word'[x] = WriteHeld
             \/ x = c
             \/ pc[t] = "desRelease" /\ x = FieldValue(t)
      BY <1>2, <1>1, <1>4, <1>10
      DEF HeapTypes, LockTypes, DestroyMoves, DestroyLabels, TakeWrite, DropLock
    <3>4. \A x \in Objects : Covered(t, x)' \/ (x \notin LargeObjects /\ (x \in OnPages' \/ word'[x] = WriteHeld))
      BY <2>3, <3>1, <3>2, <3>3 DEF Remains
    <3>5. pc'[t] \notin {"desRelease"} /\ (pc'[t] = "desClear" => Covered(t, FieldValue(t))')
      <4>1. pc'[t] # "desRelease"
        BY <1>5, <1>10
      <4>2. ASSUME pc'[t] = "desClear" PROVE Covered(t, FieldValue(t))'
        <5>1. pc[t] = "desField" /\ col'[t] = col[t] /\ field' = field
          BY <4>2, <1>5
        <5>2. /\ FieldValue(t) \in Objects /\ TakeWrite(t, FieldValue(t))
          BY <1>1, <4>2, <5>1 DEF Walks, DestroyMoves, Backs
        <5>3. word[FieldValue(t)] = Free /\ WriteHeld # Free
          BY <5>2, WriteMaskAssumption DEF TakeWrite, WriteHeld, Free
        <5>4. Covered(t, FieldValue(t))
          BY <3>1, <5>2, <5>3 DEF Remains
        <5>5. FieldValue(t)' = FieldValue(t)
          BY <5>1, <1>4, <4>2, <1>5 DEF FieldValue, Candidate
        <5> QED
          BY <5>2, <5>4, <5>5, <2>3
      <4> QED
        BY <4>1, <4>2
    <3>6. pc'[t] \in DestroyLabels => Candidate(t)' \in LargeObjects
      BY <3>1, <1>5
    <3> QED
      BY <3>2, <3>4, <3>5, <3>6 DEF Remains
  <2> QED
    BY <2>2, <2>4, <1>3, <1>6, <1>8 DEF Ledger
<1>11. CASE pc[t] = "desClear"
  <2>1. PICK s \in Slots, v \in Objects : s = col[t].slot /\ v = FieldValue(t) /\ v = field[c][s]
    BY <1>7, <1>11
  <2>2. /\ Unreference(t, c, v) /\ Refers(c, v) /\ pc'[t] = "desRelease" /\ col'[t] = col[t]
        /\ field' = field /\ allocations' = allocations
    BY <2>1, <1>1, <1>3, <1>4, <1>11 DEF DestroyMoves
  <2>3. /\ Cardinality(Referring(v, c)) = Cardinality(Referring(v, c)') + 1
        /\ \A x, q \in Objects : q # c \/ x # v =>
              Cardinality(Referring(x, q)') = Cardinality(Referring(x, q))
        /\ \A x, q \in Objects : Cardinality(Referring(x, q)') \in Nat
    BY <2>2, <1>2, Unreferenced
  <2>4. PICK f \in [Objects -> [Slots -> Objects \cup {Null}]] : f = field /\ Counting(t) = f
    BY <1>2, <1>11 DEF Counting
  <2>5. PICK g : g = Stored(f, c, s, Null)
    OBVIOUS
  <2>6. Counting(t)' = g
    BY <2>1, <2>2, <1>4, <2>4, <2>5 DEF Candidate, Counting, Stored
  <2>7. Null \notin Objects
    BY DEF Null, Objects
  <2>8. /\ Cardinality(Holding(f, v, c)) = Cardinality(Holding(g, v, c)) + 1
        /\ \A x, q \in Objects : q # c \/ x # v => Holding(g, x, q) = Holding(f, x, q)
        /\ \A x, q \in Objects : /\ Cardinality(Holding(f, x, q)) \in Nat
                                 /\ Cardinality(Holding(g, x, q)) \in Nat
    BY <2>1, <2>4, <2>7, <2>5, HoldingChanged
  <2>9. ASSUME Tally(t) PROVE Tally(t)'
    <3>1. ASSUME NEW x \in Objects, NEW q \in Objects
          PROVE  Cardinality(Referring(x, q)') = Cardinality(Holding(g, x, q)) + 0
      <4>1. Cardinality(Referring(x, q)) = Cardinality(Holding(f, x, q)) + 0
        BY <2>4, <2>9, <1>9 DEF Tally
      <4>2. CASE x = v /\ q = c
        <5>1. /\ Cardinality(Referring(x, q)) = Cardinality(Referring(x, q)') + 1
              /\ Cardinality(Referring(x, q)') \in Nat
          BY <4>2, <2>3
        <5>2. /\ Cardinality(Holding(f, x, q)) = Cardinality(Holding(g, x, q)) + 1
              /\ Cardinality(Holding(g, x, q)) \in Nat
          BY <4>2, <2>8
        <5>3. PICK a \in Nat : a = Cardinality(Referring(x, q)')
          BY <5>1
        <5>4. PICK h \in Nat : h = Cardinality(Holding(g, x, q))
          BY <5>2
        <5>5. a \in Nat /\ h \in Nat /\ a + 1 = (h + 1) + 0
          BY <4>1, <5>1, <5>2, <5>3, <5>4
        <5>6. a = h + 0
          BY <5>5
        <5> QED
          BY <5>3, <5>4, <5>6
      <4>3. CASE q # c \/ x # v
        BY <4>1, <4>3, <2>3, <2>8
      <4> QED
        BY <4>2, <4>3
    <3> QED
      BY <3>1, <2>6, <1>9 DEF Tally, Referring
  <2>10. ASSUME NEW x \in Objects, Covered(t, x) PROVE Covered(t, x)'
    <3>1. ASSUME NEW q \in Objects
          PROVE  Cardinality(Holding(g, x, q)) <= Cardinality(Referring(x, q)')
      <4>1. Cardinality(Holding(f, x, q)) <= Cardinality(Referring(x, q))
        BY <2>4, <2>10 DEF Covered
      <4>2. CASE x = v /\ q = c
        BY <4>2, <2>3, <2>8, <4>1
      <4>3. CASE q # c \/ x # v
        BY <4>1, <4>3, <2>3, <2>8
      <4> QED
        BY <4>2, <4>3
    <3> QED
      BY <3>1, <2>6 DEF Covered, Referring
  <2>11. ASSUME Severed(t) PROVE Remains(t)'
    <3>1. Remains(t) /\ c \in LargeObjects /\ OnPages = {} /\ Covered(t, v)
      BY <2>11, <2>1, <1>1, <1>4, <1>11 DEF Ledger, Remains, ListLabels, DestroyLabels
    <3>2. OnPages' = {}
      BY <3>1, <2>2, <1>1 DEF OnPages
    <3>3. \A x \in Objects \ {v} : word[x] = WriteHeld => word'[x] = WriteHeld
      BY <1>2, <2>2 DEF HeapTypes, LockTypes, Unreference, DropLock
    <3>4. \A x \in Objects : Covered(t, x)' \/ (x \notin LargeObjects /\ (x \in OnPages' \/ word'[x] = WriteHeld))
      BY <2>10, <3>1, <3>2, <3>3 DEF Remains
    <3>5. FieldValue(t)' = v /\ Candidate(t)' = c
      BY <2>1, <2>2, <1>4 DEF FieldValue, Candidate
    <3> QED
      BY <2>10, <3>1, <3>2, <3>4, <3>5 DEF Remains
  <2> QED
    BY <2>9, <2>11, <1>3, <1>6, <1>8 DEF Ledger
<1> QED
  BY <1>10, <1>11

LEMMA TearDownLedger ==
    ASSUME RootInv, NEW t \in Threads, Threads = {t}, Placed(t), Placed(t)', Ledger(t), Kinds', TearDown(t)
    PROVE  Ledger(t)'
<1>0. /\ pc = [u \in Threads |-> pc[u]] /\ col = [u \in Threads |-> col[u]]
      /\ HeapTypes /\ WalkPlaces(t) /\ WalkPlaces(t)' /\ Kinds /\ Upwards(t)
      /\ Large \notin Pages /\ Pages \subseteq Lists
      /\ field \in [Objects -> [Slots -> Objects \cup {Null}]]
      /\ allocations \in [Lists -> Seq(Objects)] /\ word \in [Objects -> Nat]
      /\ refBy \in [Objects -> Seq(Objects)]
  BY GraphAssumption DEF RootInv, HandleTypes, Placed, Ledger, Lists, HeapTypes, LockTypes
<1>a. WriteHeld # Free
  BY WriteMaskAssumption DEF WriteHeld, Free
<1> USE DEF headerVars, heapVars, implVars, clientVars, opVars, colVars, Goto, StartCol
<1>1. ASSUME field' = field, refBy' = refBy, allocated' = allocated,
             pc[t] \in {"tearPages", "tearLarge"}, pc'[t] \in {"tearPages", "tearLarge", "desUnregister", "down"}
      PROVE  /\ Upwards(t)' /\ Remains(t)
             /\ \A x \in Objects : Covered(t, x)' <=> Covered(t, x)
  <2>1. Upwards(t)'
    BY <1>0, <1>1 DEF Upwards, SetLabels, Born
  <2>2. Severed(t)
    BY <1>0, <1>1 DEF Severed, ListLabels, WalkPlaces
  <2>3. Counting(t) = field /\ Counting(t)' = field
    BY <1>1 DEF Counting
  <2> QED
    BY <2>1, <2>2, <2>3, <1>1 DEF Ledger, Covered, Referring
<1>2. CASE TearSever(t)
  <2>1. /\ pc[t] = "tearSever" /\ pc'[t] = "tearPages" /\ allocations' = allocations /\ allocated' = allocated
        /\ field' = [o \in Objects |-> IF o \in OnPages THEN [s \in Slots |-> Null] ELSE field[o]]
        /\ refBy' = [o \in Objects |-> IF o \in OnPages THEN <<>> ELSE refBy[o]]
    BY <1>2, <1>0 DEF TearSever
  <2>2. Tally(t) /\ Counting(t) = field /\ Counting(t)' = field' /\ \A x, p : ~Pending(t, x, p)
    BY <2>1 DEF Severed, ListLabels, Ledger, Counting, Pending
  <2>3. \A p \in Objects, s \in Slots : field'[p][s] \in {field[p][s], Null}
    BY <2>1
  <2>4. Upwards(t)'
    BY <1>0, <2>1, <2>3 DEF Upwards, SetLabels, Born
  <2>5. OnPages' = OnPages
    BY <2>1 DEF OnPages, Born
  <2>6. \A x \in OnPages : x \notin LargeObjects
    BY <1>0 DEF OnPages, Kinds
  <2>7. ASSUME NEW x \in Objects \ OnPages PROVE Covered(t, x)'
    <3> SUFFICES ASSUME NEW p \in Objects
                 PROVE  Cardinality(Holding(field', x, p)) <= Cardinality(Referring(x, p)')
      BY <2>2 DEF Covered, Referring
    <3>1. Referring(x, p)' = Referring(x, p)
      BY <2>1 DEF Referring
    <3>2. PICK r \in Nat : r = Cardinality(Referring(x, p)) /\ r = Cardinality(Holding(field, x, p)) + 0
      BY <2>2, <1>0, SomeReferrers DEF Tally, Referring
    <3>3. CASE p \in OnPages
      <4>1. Null \notin Objects
        BY DEF Null, Objects
      <4>2. Holding(field', x, p) = {}
        BY <2>1, <3>3, <4>1 DEF Holding
      <4> QED
        BY <3>1, <3>2, <4>2, FS_EmptySet
    <3>4. CASE p \notin OnPages
      <4>1. Holding(field', x, p) = Holding(field, x, p)
        BY <2>1, <3>4 DEF Holding
      <4>2. PICK h \in Nat : h = Cardinality(Holding(field, x, p))
        BY <1>0, SomeSlots, Zenon DEF Holding
      <4>3. h <= r
        BY <3>2, <4>2
      <4> QED
        BY <3>1, <3>2, <4>1, <4>2, <4>3
    <3> QED
      BY <3>3, <3>4
  <2>8. Remains(t)' /\ Severed(t)'
    BY <2>1, <2>5, <2>6, <2>7 DEF Remains, Severed, ListLabels, DestroyLabels
  <2> QED
    BY <2>4, <2>8 DEF Ledger
<1>3. CASE TearPages(t)
  <2>1. PICK p \in Pages, o \in {allocations[q][Len(allocations[q])] : q \in Pages} :
           /\ allocations[p] # <<>> /\ o = allocations[p][Len(allocations[p])]
           /\ TakeWrite(t, o)
           /\ allocations' = [allocations EXCEPT ![p] = SubSeq(@, 1, Len(@) - 1)]
    BY <1>3, Zenon DEF TearPages
  <2>2. /\ pc[t] = "tearPages" /\ pc' = pc /\ refBy' = refBy /\ field' = field /\ allocated' = allocated
    BY <1>3 DEF TearPages
  <2>3. PICK list \in Seq(Objects), n \in Nat \ {0} :
           list = allocations[p] /\ n = Len(list) /\ DOMAIN list = 1 .. n
    <3>1. allocations[p] \in Seq(Objects) /\ allocations[p] # <<>>
      BY <2>1, <1>0
    <3> QED
      BY <3>1, EmptySeq, LenProperties
  <2>4. PICK rest \in Seq(Objects) : rest = SubSeq(list, 1, n - 1)
    BY <2>3, FrontSeq, Zenon
  <2>5. DOMAIN rest = 1 .. n - 1 /\ \A i \in 1 .. n - 1 : rest[i] = list[i]
    BY <2>3, <2>4, SubSeqProperties
  <2>6. allocations' = [allocations EXCEPT ![p] = rest] /\ o = list[n]
    BY <2>1, <2>3, <2>4
  <2>7. \A x \in OnPages : x \in OnPages' \/ x = o
    <3> SUFFICES ASSUME NEW x \in OnPages, x # o PROVE x \in OnPages'
      OBVIOUS
    <3>1. PICK q \in Pages : \E i \in DOMAIN allocations[q] : allocations[q][i] = x
      BY DEF OnPages
    <3>2. PICK i \in DOMAIN allocations[q] : allocations[q][i] = x
      BY <3>1
    <3>3. CASE q = p
      <4>1. i \in 1 .. n - 1
        BY <3>2, <3>3, <2>3, <2>6
      <4>2. i \in DOMAIN rest /\ rest[i] = x
        BY <4>1, <3>2, <3>3, <2>3, <2>5
      <4>3. allocations'[p] = rest
        BY <2>6, <1>0
      <4> QED
        BY <4>2, <4>3, <2>2 DEF OnPages, Born
    <3>4. CASE q # p
      BY <2>6, <1>0, <3>4, <3>2, <2>2 DEF OnPages, Born
    <3> QED
      BY <3>3, <3>4
  <2>8. \A x \in Objects : word'[x] = WriteHeld <=> word[x] = WriteHeld \/ x = o
    BY <2>3, <2>6, ElementOfSeq, <2>1, <1>0 DEF TakeWrite
  <2>9. /\ Upwards(t)' /\ Remains(t)
        /\ \A x \in Objects : Covered(t, x)' <=> Covered(t, x)
    BY <2>2, <1>1
  <2>10. o \notin LargeObjects
    BY <1>0, <2>3, <2>6 DEF Kinds
  <2>11. Remains(t)' /\ Severed(t)'
    BY <2>2, <2>7, <2>8, <2>9, <2>10 DEF Remains, Severed, ListLabels, DestroyLabels
  <2> QED
    BY <2>9, <2>11 DEF Ledger
<1>4. CASE TearPagesEnd(t)
  <2>1. /\ pc[t] = "tearPages" /\ pc'[t] \in {"tearLarge", "down"} /\ \A p \in Pages : allocations[p] = <<>>
        /\ refBy' = refBy /\ field' = field /\ allocated' = allocated /\ allocations' = allocations
        /\ UNCHANGED lockVars
    BY <1>4, <1>0 DEF TearPagesEnd
  <2>2. OnPages = {} /\ OnPages' = {}
    BY <2>1 DEF OnPages
  <2>3. /\ Upwards(t)' /\ Remains(t)
        /\ \A x \in Objects : Covered(t, x)' <=> Covered(t, x)
    BY <2>1, <1>1
  <2>4. Severed(t)'
    BY <2>1, <1>0 DEF Severed, ListLabels, WalkPlaces
  <2>5. Remains(t)'
    BY <2>1, <2>2, <2>3 DEF Remains, DestroyLabels, lockVars
  <2> QED
    BY <2>3, <2>4, <2>5 DEF Ledger
<1>5. CASE TearLarge(t)
  <2>1. /\ pc[t] = "tearLarge" /\ pc'[t] \in {"desUnregister", "down"}
        /\ refBy' = refBy /\ field' = field /\ allocated' = allocated /\ allocations' = allocations
        /\ UNCHANGED lockVars
    BY <1>5, <1>0 DEF TearLarge
  <2>2. /\ Upwards(t)' /\ Remains(t)
        /\ \A x \in Objects : Covered(t, x)' <=> Covered(t, x)
    BY <2>1, <1>1
  <2>3. OnPages = {} /\ OnPages' = {}
    BY <2>1, <2>2 DEF Remains, ListLabels, OnPages, Born
  <2>4. col[t] \in Walks /\ col[t].page = Large /\ col[t].back = "tearLarge" /\ Large \in Lists
    BY <2>1, <1>0 DEF WalkPlaces, ListLabels, Walks
  <2>5. CASE pc'[t] = "desUnregister"
    <3>1. col[t].i <= Len(allocations[Large]) /\ allocations[Large] \in Seq(Objects) /\ col[t].i \in Nat \ {0}
      BY <2>5, <1>5, <1>0, <2>4, LenProperties DEF TearLarge, Walks
    <3>2. col[t].i \in DOMAIN allocations[Large]
      BY <3>1, LenProperties
    <3>3. PICK o \in Objects : o = allocations[Large][col[t].i] /\ o \in LargeObjects
      BY <3>1, <3>2, <2>4, <1>0 DEF Kinds
    <3>4. PICK c : c = [col[t] EXCEPT !.obj = o]
      BY Zenon
    <3>5. c.obj = o /\ c.back = "tearLarge"
      BY <3>4, <2>4 DEF Walks
    <3>6. col'[t] = c
      BY <2>1, <2>5, <3>3, <3>4, <1>5, <1>0, Zenon DEF TearLarge
    <3>7. Severed(t)' /\ Candidate(t)' \in LargeObjects
      BY <2>5, <3>3, <3>5, <3>6 DEF Severed, Candidate, ListLabels
    <3>8. Remains(t)'
      BY <2>1, <2>2, <2>3, <2>5, <3>7 DEF Remains, lockVars
    <3> QED
      BY <2>2, <3>7, <3>8 DEF Ledger
  <2>6. CASE pc'[t] = "down"
    BY <2>6, <2>1, <2>2, <2>3 DEF Severed, Remains, lockVars, ListLabels, DestroyLabels, Ledger
  <2> QED
    BY <2>1, <2>5, <2>6
<1> QED
  BY <1>2, <1>3, <1>4, <1>5 DEF TearDown

LEMMA InitLedger == ASSUME NEW t \in Threads, Init PROVE Ledger(t)
<1>1. /\ pc[t] = Idle /\ allocations = [p \in Lists |-> <<>>]
      /\ refBy = [o \in Objects |-> <<>>] /\ field = [o \in Objects |-> [s \in Slots |-> Null]]
  BY DEF Init
<1>2. Upwards(t)
  BY <1>1 DEF Upwards, SetLabels, Idle
<1>3. Kinds
  BY <1>1 DEF Kinds, Lists
<1>4. ~Severed(t)
  BY <1>1 DEF Severed, ListLabels, Idle
<1>5. Tally(t)
  <2> SUFFICES ASSUME NEW x \in Objects, NEW p \in Objects
               PROVE  Cardinality(Referring(x, p)) = Cardinality(Holding(Counting(t), x, p)) + 0
    BY <1>1 DEF Tally, Pending, Idle
  <2>1. Null \notin Objects
    BY DEF Null, Objects
  <2>2. Referring(x, p) = {}
    BY <1>1 DEF Referring, At
  <2>3. Holding(Counting(t), x, p) = {}
    BY <1>1, <2>1 DEF Holding, Counting, Idle
  <2> QED
    BY <2>2, <2>3, FS_EmptySet
<1> QED
  BY <1>2, <1>3, <1>4, <1>5 DEF Ledger

LEMMA NextLedger ==
    ASSUME RootInv, NEW t \in Threads, Threads = {t}, Placed(t), Placed(t)', Ledger(t), [Next]_vars
    PROVE  Ledger(t)'
<1>1. CASE UNCHANGED vars
  <2>1. /\ refBy' = refBy /\ field' = field /\ allocations' = allocations /\ word' = word
        /\ pc' = pc /\ loc' = loc /\ col' = col /\ allocated' = allocated
    BY <1>1 DEF vars, headerVars, lockVars, heapVars, opVars, colVars
  <2>2. Counting(t)' = Counting(t) /\ \A x, p : Pending(t, x, p)' <=> Pending(t, x, p)
    BY <2>1 DEF Counting, Candidate, Pending
  <2>3. (Severed(t)' <=> Severed(t)) /\ Upwards(t)' /\ Kinds'
    BY <2>1 DEF Ledger, Upwards, Kinds, Severed, Born
  <2>4. Tally(t) => Tally(t)'
    BY <2>1, <2>2 DEF Tally, Referring
  <2>5. \A x : Covered(t, x) => Covered(t, x)'
    BY <2>1, <2>2 DEF Covered, Referring
  <2>6. OnPages' = OnPages /\ Candidate(t)' = Candidate(t) /\ FieldValue(t)' = FieldValue(t)
    BY <2>1 DEF OnPages, Candidate, FieldValue, Born
  <2>7. Remains(t) => Remains(t)'
    BY <2>1, <2>5, <2>6 DEF Remains
  <2> QED
    BY <2>3, <2>4, <2>7 DEF Ledger
<1>2. CASE Next
  <2>0. HeapTypes /\ Upwards(t) /\ Kinds
    BY DEF Placed, Ledger
  <2>1. Kinds'
    BY <1>2, <2>0, NextLists, KindsKept, GraphAssumption DEF RootInv, HandleTypes
  <2>2. ASSUME Still(t), ~Severed(t), ~Severed(t)' PROVE Ledger(t)'
    BY <2>2, <2>1, StillLedger DEF Ledger
  <2>3. CASE HandleStep(t)
    BY <2>3, <2>2, HandleIsStill
  <2>4. CASE ScanStep(t) \/ Find(t)
    BY <2>4, <2>2, SearchIsStill
  <2>5. CASE FastNext(t) \/ FastEnd(t) \/ NewLarge(t) \/ Destroy(t) \/ \E p \in Lists : CollectBegin(t, p)
    BY <2>5, <2>2, OtherWalksAreStill
  <2>6. CASE DestroyObject(t)
    BY <2>6, <2>1, DestroyLedger
  <2>7. CASE TearDown(t)
    BY <2>7, <2>1, TearDownLedger
  <2>8. CASE Assign(t)
    BY <2>8, AssignSteps, <2>0, <2>1, AssignLedger DEF Severed, SetLabels, ListLabels, Ledger
  <2>9. CASE \E o \in Born, s \in Slots, x \in {Null} \cup Objects : SetField(t, o, s, x)
    <3>1. Born \subseteq Objects
      BY GraphAssumption DEF RootInv, HandleTypes, Born, Objects
    <3>2. pc[t] = Idle
      BY <2>9 DEF SetField
    <3>3. ~Severed(t)
      BY <3>2 DEF Severed, ListLabels, Idle
    <3>4. Tally(t)
      BY <3>3 DEF Ledger
    <3> QED
      BY <2>0, <2>1, <2>9, <3>1, <3>4, SetFieldLedger DEF Ledger
  <2> QED
    BY <1>2, <2>3, <2>4, <2>5, <2>6, <2>7, <2>8, <2>9, OneThreadSteps DEF Collect, HandleStep, ScanStep
<1> QED
  BY <1>1, <1>2

\* For one thread and fields of any shape, cycles included: with no operation under
\* way, a live object's referencedBy has exactly one entry per field that holds it,
\* whatever has been assigned and collected (gc.cpp:336-409, 551-592).
THEOREM BackReferencesCount ==
    ASSUME \E t : Threads = {t}
    PROVE  Spec => []BackReferencesAgree
<1> PICK t : Threads = {t}
  OBVIOUS
<1>0. t \in Threads
  OBVIOUS
<1>1. RootInv /\ Placed(t) /\ Ledger(t) => BackReferencesAgree
  <2> SUFFICES ASSUME RootInv, Placed(t), Ledger(t), Quiet, NEW x \in lookup, NEW p \in Born
               PROVE  Cardinality({i \in DOMAIN refBy[x] : refBy[x][i] = p})
                        = Cardinality({s \in Slots : field[p][s] = x})
    BY DEF BackReferencesAgree
  <2>1. x \in Objects /\ p \in Objects
    BY GraphAssumption DEF RootInv, NoHandlesAhead, HandleTypes, Born, Objects
  <2>2. pc[t] = Idle
    BY <1>0 DEF Quiet
  <2>3. ~Severed(t) /\ Counting(t) = field /\ ~Pending(t, x, p)
    BY <2>2 DEF Severed, Counting, Pending, ListLabels, Idle
  <2>4. Cardinality(Referring(x, p)) = Cardinality(Holding(field, x, p)) + 0
    BY <2>1, <2>3 DEF Ledger, Tally
  <2>5. Cardinality(Holding(field, x, p)) \in Nat
    BY <2>1, SomeSlots DEF Holding
  <2> QED
    BY <2>4, <2>5 DEF Referring, Holding, At
<1>2. Init => RootInv /\ Placed(t) /\ Ledger(t)
  BY <1>0, InitRootInv, InitPlaced, InitLedger
<1>3. RootInv /\ Placed(t) /\ Ledger(t) /\ [Next]_vars => (RootInv /\ Placed(t) /\ Ledger(t))'
  BY <1>0, NextRootInv, NextPlaced, NextLedger
<1> QED
  BY <1>1, <1>2, <1>3, PTL DEF Spec

-------------------------------------------------------------------------------
(* One thread: what is still referred to is spared *)

\* What each step of a scan does.
ScanMoves(t) ==
    /\ pc[t] = "colId" => pc'[t] = "colNext" /\ col'[t] = col[t] /\ UNCHANGED <<word, rwSet, fault, stk>>
    /\ pc[t] = "colNext" =>
         /\ UNCHANGED <<word, rwSet, stk>>
         /\ \/ /\ col[t].i > Len(allocations[col[t].page])
               /\ pc'[t] = Idle /\ col'[t] = NoLocals /\ UNCHANGED fault
            \/ /\ col[t].i <= Len(allocations[col[t].page])
               /\ \/ /\ allocations[col[t].page][col[t].i] \notin lookup
                     /\ pc'[t] = Idle /\ col'[t] = NoLocals
                  \/ /\ rootCount[allocations[col[t].page][col[t].i]] > 0
                     /\ pc'[t] = "colNext" /\ WalkLocals(t, col[t].i + 1, col[t].slot, col[t].obj)
                     /\ UNCHANGED fault
                  \/ /\ ~(rootCount[allocations[col[t].page][col[t].i]] > 0)
                     /\ pc'[t] = "colTry"
                     /\ WalkLocals(t, col[t].i, col[t].slot, allocations[col[t].page][col[t].i])
                     /\ UNCHANGED fault
    /\ pc[t] = "colTry" =>
         /\ UNCHANGED <<fault, stk>>
         /\ \/ TakeWrite(t, Candidate(t)) /\ pc'[t] = "colUntry" /\ col'[t] = col[t]
            \/ /\ word[Candidate(t)] # Free /\ UNCHANGED <<word, rwSet>>
               /\ pc'[t] = "colNext" /\ WalkLocals(t, col[t].i + 1, col[t].slot, Null)
    /\ pc[t] = "colUntry" =>
         DropLock(t, Candidate(t)) /\ pc'[t] = "colRead" /\ col'[t] = col[t] /\ UNCHANGED <<fault, stk>>
    /\ pc[t] = "colRead" =>
         /\ UNCHANGED <<fault, stk>>
         /\ \/ TakeRead(Candidate(t)) /\ pc'[t] = "colFlag" /\ col'[t] = col[t]
            \/ /\ CanMissRead(Candidate(t)) /\ UNCHANGED <<word, rwSet>>
               /\ pc'[t] = "colNext" /\ WalkLocals(t, col[t].i + 1, col[t].slot, Null)
    /\ pc[t] = "colFlag" =>
         /\ UNCHANGED <<word, rwSet, fault>> /\ col'[t] = col[t]
         /\ \/ Candidate(t) \in garbage /\ pc'[t] = "colUpgrade" /\ UNCHANGED stk
            \/ Candidate(t) \notin garbage /\ pc'[t] = "findEnter" /\ stk'[t] = <<Frame(Candidate(t))>>
    /\ pc[t] = "colRelease" =>
         /\ DropLock(t, Candidate(t)) /\ UNCHANGED <<fault, stk>>
         /\ pc'[t] = "colNext" /\ WalkLocals(t, col[t].i + 1, col[t].slot, Null)
    /\ pc[t] = "colUpgrade" =>
         /\ UNCHANGED stk
         /\ \/ /\ CanUpgrade(Candidate(t)) /\ TakeUpgrade(t, Candidate(t))
               /\ pc'[t] = "desUnregister" /\ col'[t] = col[t] /\ UNCHANGED fault
            \/ /\ ~CanUpgrade(Candidate(t)) /\ UNCHANGED <<word, rwSet>>
               /\ pc'[t] = Idle /\ col'[t] = NoLocals

LEMMA ScanSteps ==
    ASSUME RootInv, NEW t \in Threads, Threads = {t}, Placed(t), ScanStep(t)
    PROVE  /\ pc[t] \in ScanLabels \cup {"colId", "colNext"} /\ col[t] \in Walks /\ col[t].back = "colNext"
           /\ pc[t] \in ScanLabels => Candidate(t) \in Objects
           /\ ScanMoves(t)
           /\ UNCHANGED <<rootCount, refBy, garbage, field, allocated, lookup, allocations,
                          roots, roPins, rwPins, loc>>
<1>0. /\ pc = [u \in Threads |-> pc[u]] /\ col = [u \in Threads |-> col[u]]
      /\ HeapTypes /\ WalkPlaces(t) /\ stk = [u \in Threads |-> stk[u]]
  BY DEF RootInv, HandleTypes, Placed, HeapTypes
<1> USE DEF headerVars, lockVars, heapVars, implVars, clientVars, opVars, colVars, Goto, StartCol
<1>1. /\ pc[t] \in ScanLabels \cup {"colId", "colNext"}
      /\ UNCHANGED <<rootCount, refBy, garbage, field, allocated, lookup, allocations,
                     roots, roPins, rwPins, loc>>
  BY <1>0, Zenon DEF ScanStep, CollectId, CollectEnd, CollectNext, CollectTry, CollectUntry, CollectRead,
              CollectFlag, CollectRelease, CollectUpgrade, ScanLabels
<1>2. /\ col[t] \in Walks /\ col[t].back = "colNext"
      /\ pc[t] \in ScanLabels => Candidate(t) \in Objects
  BY <1>1, <1>0 DEF WalkPlaces, ScanLabels, ListLabels, CandidateLabels
<1>3. SUFFICES ScanMoves(t)
  BY <1>1, <1>2
<1>4. NextCandidate(t) => pc'[t] = "colNext" /\ WalkLocals(t, col[t].i + 1, col[t].slot, Null)
  BY <1>2, WalkPasses, <1>0, ZenonT(30) DEF NextCandidate, WalkLocals
<1>5. CASE CollectId(t) \/ CollectEnd(t)
  BY <1>5, <1>0 DEF CollectId, CollectEnd, ScanMoves
<1>6. CASE CollectNext(t)
  <2>1. pc[t] = "colNext" /\ col[t].i <= Len(allocations[col[t].page]) /\ UNCHANGED <<word, rwSet, stk>>
    BY <1>6, Zenon DEF CollectNext
  <2>2. PICK o : o = allocations[col[t].page][col[t].i]
    OBVIOUS
  <2>3. o \in Objects
    BY <1>0, <1>2, <2>1, <2>2, ElementOfSeq DEF Walks, HeapTypes
  <2>4. CASE o \notin lookup /\ col[t].page # Large
    BY <2>1, <2>2, <2>4, <1>6, <1>0, Zenon DEF CollectNext, Abort, ScanMoves
  <2>5. CASE (o \in lookup \/ col[t].page = Large) /\ rootCount[o] > 0
    <3>1. PICK c : c = [col[t] EXCEPT !.i = @ + 1]
      BY Zenon
    <3>2. pc'[t] = "colNext" /\ col'[t] = c /\ fault' = fault
      BY <2>1, <2>2, <2>5, <3>1, <1>6, <1>0, Zenon DEF CollectNext
    <3>3. WalkLocals(t, col[t].i + 1, col[t].slot, col[t].obj)
      BY <3>1, <3>2, <1>2, WalkMoves DEF WalkLocals
    <3> QED
      BY <2>1, <2>2, <2>5, <3>2, <3>3 DEF ScanMoves
  <2>6. CASE (o \in lookup \/ col[t].page = Large) /\ ~(rootCount[o] > 0)
    <3>1. PICK c : c = [col[t] EXCEPT !.obj = o]
      BY Zenon
    <3>2. pc'[t] = "colTry" /\ col'[t] = c /\ fault' = fault
      BY <2>2, <2>6, <3>1, <1>6, <1>0, Zenon DEF CollectNext
    <3>3. /\ c.page = col[t].page /\ c.i = col[t].i /\ c.slot = col[t].slot
          /\ c.obj = o /\ c.back = col[t].back
      BY <2>3, <3>1, <1>2, WalkLooks
    <3>4. WalkLocals(t, col[t].i, col[t].slot, o)
      BY <3>2, <3>3 DEF WalkLocals
    <3> QED
      BY <2>1, <2>2, <2>6, <3>2, <3>4 DEF ScanMoves
  <2> QED
    BY <2>4, <2>5, <2>6
<1>7. CASE CollectTry(t)
  BY <1>7, <1>4, <1>0 DEF CollectTry, ScanMoves, TakeWrite
<1>8. CASE CollectUntry(t)
  BY <1>8, <1>0 DEF CollectUntry, ScanMoves
<1>9. CASE CollectRead(t)
  BY <1>9, <1>4, <1>0 DEF CollectRead, ScanMoves
<1>10. CASE CollectFlag(t)
  BY <1>10, <1>0 DEF CollectFlag, ScanMoves
<1>11. CASE CollectRelease(t)
  BY <1>11, <1>4, <1>0 DEF CollectRelease, ScanMoves
<1>12. CASE CollectUpgrade(t)
  BY <1>12, <1>0, Zenon DEF CollectUpgrade, ScanMoves, Abort
<1> QED
  BY <1>5, <1>6, <1>7, <1>8, <1>9, <1>10, <1>11, <1>12 DEF ScanStep

\* A search with its top frame's referrer read.
Looking(s, r) == [s EXCEPT ![Len(s)].ref = r]

\* What each step of a search does.
SearchMoves(t) ==
    /\ pc[t] # "findReturn" => UNCHANGED garbage
    /\ pc[t] \in {"findEnter", "findFlag", "findScan", "findDescend"} => UNCHANGED <<word, rwSet>>
    /\ pc[t] = "findEnter" =>
         /\ stk'[t] = stk[t]
         /\ \/ Marked(t, Top(t).obj) /\ pc'[t] = "findReturn" /\ col'[t].found = FALSE
            \/ rootCount[Top(t).obj] > 0 /\ pc'[t] = "findReturn" /\ col'[t].found = TRUE
            \/ pc'[t] = "findFlag"
    /\ pc[t] = "findFlag" =>
         /\ stk'[t] = stk[t]
         /\ \/ Top(t).obj \in garbage /\ pc'[t] = "findReturn" /\ col'[t].found = FALSE
            \/ Top(t).obj \notin garbage /\ pc'[t] = "findScan"
    /\ pc[t] = "findScan" =>
         \/ /\ Top(t).k > Len(refBy[Top(t).obj]) /\ stk'[t] = stk[t]
            /\ pc'[t] = "findReturn" /\ col'[t].found = FALSE
         \/ /\ ~(Top(t).k > Len(refBy[Top(t).obj])) /\ stk'[t] = stk[t]
            /\ rootCount[refBy[Top(t).obj][Top(t).k]] > 0
            /\ pc'[t] = "findReturn" /\ col'[t].found = TRUE
         \/ /\ ~(Top(t).k > Len(refBy[Top(t).obj]))
            /\ ~(rootCount[refBy[Top(t).obj][Top(t).k]] > 0)
            /\ pc'[t] = "findDescend"
            /\ stk'[t] = Looking(stk[t], refBy[Top(t).obj][Top(t).k])
    /\ pc[t] = "findDescend" =>
         \/ /\ Top(t).ref \in garbage
            /\ pc'[t] = "findScan" /\ stk'[t] = Advance(stk[t])
         \/ pc'[t] = "findLock" /\ stk'[t] = stk[t]
    /\ pc[t] = "findLock" =>
         \/ /\ TakeRead(Top(t).ref)
            /\ pc'[t] = "findEnter" /\ stk'[t] = Append(stk[t], Frame(Top(t).ref))
         \/ /\ CanMissRead(Top(t).ref) /\ UNCHANGED <<word, rwSet>>
            /\ pc'[t] = "findReturn" /\ col'[t].found = TRUE /\ stk'[t] = stk[t]
    /\ pc[t] = "findReturn" =>
         /\ col'[t].found = col[t].found
         /\ \/ /\ Len(stk[t]) = 1 /\ stk'[t] = <<>> /\ UNCHANGED <<word, rwSet, garbage>>
               /\ IF col[t].found THEN pc'[t] = "colRelease" ELSE pc'[t] = "colUpgrade"
            \/ /\ Len(stk[t]) # 1 /\ col[t].found
               /\ DropLock(t, Top(t).obj) /\ UNCHANGED garbage
               /\ pc'[t] = "findReturn" /\ stk'[t] = Below(t)
            \/ /\ Len(stk[t]) # 1 /\ ~col[t].found
               /\ UNCHANGED <<word, rwSet>> /\ garbage' = garbage \cup {Top(t).obj}
               /\ pc'[t] = "findRelease" /\ stk'[t] = stk[t]
    /\ pc[t] = "findRelease" =>
         /\ Len(stk[t]) # 1 /\ DropLock(t, Top(t).obj)
         /\ pc'[t] = "findScan" /\ stk'[t] = Advance(Below(t))

LEMMA SearchSteps ==
    ASSUME RootInv, NEW t \in Threads, Threads = {t}, Placed(t), Find(t)
    PROVE  /\ pc[t] \in FindLabels /\ col[t] \in Walks /\ col[t].back = "colNext" /\ Candidate(t) \in Objects
           /\ stk[t] \in Seq(Frames) /\ stk[t] # <<>> /\ stk[t][1].obj = Candidate(t)
           /\ WalkLocals(t, col[t].i, col[t].slot, col[t].obj)
           /\ SearchMoves(t)
           /\ UNCHANGED <<rootCount, refBy, field, allocated, lookup, allocations, fault,
                          roots, roPins, rwPins, loc>>
<1>0. /\ pc = [u \in Threads |-> pc[u]] /\ col = [u \in Threads |-> col[u]]
      /\ HeapTypes /\ WalkPlaces(t) /\ SearchPlaces(t) /\ stk = [u \in Threads |-> stk[u]]
  BY DEF RootInv, HandleTypes, Placed, HeapTypes
<1> USE DEF headerVars, lockVars, heapVars, implVars, clientVars, opVars, colVars, Goto, StartCol
<1>1. /\ pc[t] \in FindLabels
      /\ UNCHANGED <<rootCount, refBy, field, allocated, lookup, allocations, fault,
                     roots, roPins, rwPins, loc>>
  BY <1>0, Zenon DEF Find, FindEnter, FindFlag, FindScan, FindDescend, FindLock, FindReturn, FindRelease, FindLabels
<1>2. /\ col[t] \in Walks /\ col[t].back = "colNext" /\ Candidate(t) \in Objects
      /\ stk[t] \in Seq(Frames) /\ stk[t] # <<>> /\ stk[t][1].obj = Candidate(t)
  BY <1>1, <1>0 DEF WalkPlaces, SearchPlaces, FindLabels, ListLabels, CandidateLabels, HeapTypes
<1>3. \A f \in BOOLEAN : FindReturns(t, f) =>
         /\ pc'[t] = "findReturn" /\ col'[t].found = f
         /\ WalkLocals(t, col[t].i, col[t].slot, col[t].obj)
  BY <1>2, WalkFinds, <1>0 DEF FindReturns, WalkLocals
<1>4. col'[t] = col[t] => WalkLocals(t, col[t].i, col[t].slot, col[t].obj)
  BY DEF WalkLocals
<1>5. SUFFICES SearchMoves(t) /\ WalkLocals(t, col[t].i, col[t].slot, col[t].obj)
  BY <1>1, <1>2
<1>6. CASE FindEnter(t)
  BY <1>6, <1>0, <1>3, <1>4, Zenon DEF FindEnter, SearchMoves
<1>7. CASE FindFlag(t)
  BY <1>7, <1>0, <1>3, <1>4, Zenon DEF FindFlag, SearchMoves
<1>8. CASE FindScan(t)
  <2>1. UNCHANGED <<word, rwSet, garbage>> /\ pc[t] = "findScan"
    BY <1>8 DEF FindScan
  <2>2. pc'[t] # "findDescend" => stk' = stk
    BY <1>8 DEF FindScan
  <2>3. CASE Top(t).k > Len(refBy[Top(t).obj])
    BY <2>1, <2>2, <2>3, <1>8, <1>0, <1>3, Zenon DEF FindScan, SearchMoves
  <2>4. CASE ~(Top(t).k > Len(refBy[Top(t).obj])) /\ rootCount[refBy[Top(t).obj][Top(t).k]] > 0
    BY <2>1, <2>2, <2>4, <1>8, <1>0, <1>3, Zenon DEF FindScan, SearchMoves
  <2>5. CASE ~(Top(t).k > Len(refBy[Top(t).obj])) /\ ~(rootCount[refBy[Top(t).obj][Top(t).k]] > 0)
    BY <2>5, <1>8, <1>0, <2>1, <1>4, Zenon DEF FindScan, Looking, SearchMoves
  <2> QED
    BY <2>3, <2>4, <2>5
<1>9. CASE FindDescend(t)
  BY <1>9, <1>0, <1>4, Zenon DEF FindDescend, SearchMoves
<1>10. CASE FindLock(t)
  BY <1>10, <1>0, <1>3, <1>4, Zenon DEF FindLock, SearchMoves
<1>11. CASE FindReturn(t)
  BY <1>11, <1>0, <1>4 DEF FindReturn, SearchMoves
<1>12. CASE FindRelease(t)
  <2>1. Len(stk[t]) # 1
    BY <1>12, <1>0 DEF FindRelease, SearchPlaces
  <2> QED
    BY <2>1, <1>12, <1>0, <1>4, Zenon DEF FindRelease, SearchMoves
<1> QED
  BY <1>6, <1>7, <1>8, <1>9, <1>10, <1>11, <1>12 DEF Find

\* The objects that have been, or may be, destroyed.
Gone == garbage \cup Dead

\* Whoever refers to o is garbage.
Condemned(o) == \A j \in DOMAIN refBy[o] : refBy[o][j] \in garbage

\* By the fields f nothing outside of G refers to anything in G.
Keeps(f, G) == \A p \in Objects \ G, s \in Slots : f[p][s] \notin G

GoingDown(t) == Severed(t) \/ pc[t] = "tearSever"

\* What the program has a handle to, is about to have a handle to, or is about to
\* store is not gone, and neither is what is referred to from there.
Spared(t) ==
    /\ \A o \in Gone : rootCount[o] = 0
    /\ pc[t] \in PinLabels => loc[t].obj \notin Gone
    /\ pc[t] \in SetLabels => loc[t].new \notin Gone
    /\ pc[t] = "dropFlag" => rootCount[loc[t].obj] = 0
    /\ IF GoingDown(t) THEN \A o \in Objects : rootCount[o] = 0 ELSE garbage \subseteq Born
    /\ ~Severed(t) => Keeps(Counting(t), Gone)

\* A search through back references rb, with root counts rc and garbage G: no object
\* on its stack has a root, the referrers it is done with are garbage, each frame is
\* that of the referrer the one below it has come to, and owners rank lower.
SearchDone(s, rb, rc, G) ==
    \A f \in 1 .. Len(s) :
        /\ rc[s[f].obj] = 0
        /\ \A j \in 1 .. s[f].k - 1 : j \in DOMAIN rb[s[f].obj] /\ rb[s[f].obj][j] \in G

SearchLinked(s, rb) ==
    \A f \in 1 .. Len(s) - 1 :
        s[f].k \in DOMAIN rb[s[f].obj] /\ s[f + 1].obj = rb[s[f].obj][s[f].k]

SearchRanked(s) ==
    \A f, g \in 1 .. Len(s) : f < g => Rank[s[g].obj] < Rank[s[f].obj]

Searched(s, rb, rc, G) == SearchDone(s, rb, rc, G) /\ SearchLinked(s, rb) /\ SearchRanked(s)

Hunted(t) ==
    /\ pc[t] \in CandidateLabels =>
         rootCount[Candidate(t)] = 0 /\ (col[t].back # "tearLarge" => Candidate(t) \in Born)
    /\ pc[t] \in {"colUpgrade", "desUnregister"} =>
         col[t].back = "tearLarge" \/ Candidate(t) \in garbage \/ Condemned(Candidate(t))
    /\ pc[t] \in DestroyLabels \ {"desUnregister"} => Candidate(t) \in garbage
    /\ pc[t] \in FindLabels => Searched(stk[t], refBy, rootCount, garbage)
    /\ pc[t] \in {"findDescend", "findLock"} =>
         /\ Top(t).k \in DOMAIN refBy[Top(t).obj]
         /\ Top(t).ref = refBy[Top(t).obj][Top(t).k]
         /\ rootCount[Top(t).ref] = 0
    /\ pc[t] = "findReturn" /\ ~col[t].found => Top(t).obj \in garbage \/ Condemned(Top(t).obj)
    /\ pc[t] = "findRelease" => Top(t).obj \in garbage

-------------------------------------------------------------------------------

LEMMA HeldIsKnown ==
    ASSUME NEW f \in [Objects -> [Slots -> Objects \cup {Null}]], NEW list \in Seq(Objects),
           NEW x, NEW p \in Objects, NEW s \in Slots, f[p][s] = x, NEW n \in Nat,
           Cardinality(At(list, p)) = Cardinality(Holding(f, x, p)) + n
    PROVE  At(list, p) # {}
<1>1. Holding(f, x, p) \in SUBSET Slots /\ s \in Holding(f, x, p)
  BY DEF Holding
<1>2. Cardinality(Holding(f, x, p)) \in Nat /\ Cardinality(Holding(f, x, p)) > 0
  BY <1>1, SomeSlots
<1>3. Cardinality(At(list, p)) > 0
  BY <1>2
<1> QED
  BY <1>3, SomeReferrers

\* An object that only garbage refers to is no loss.
LEMMA KeepsMore ==
    ASSUME NEW f \in [Objects -> [Slots -> Objects \cup {Null}]], NEW list \in Seq(Objects),
           NEW G, NEW x \in Objects, Keeps(f, G),
           \A p \in Objects : Cardinality(At(list, p)) = Cardinality(Holding(f, x, p)),
           \A j \in DOMAIN list : list[j] \in G
    PROVE  Keeps(f, G \cup {x})
<1> SUFFICES ASSUME NEW p \in Objects \ (G \cup {x}), NEW s \in Slots, f[p][s] = x
             PROVE  FALSE
  BY DEF Keeps
<1>1. Cardinality(At(list, p)) = Cardinality(Holding(f, x, p)) + 0
  BY SomeReferrers
<1>2. At(list, p) # {}
  BY <1>1, HeldIsKnown
<1> QED
  BY <1>2 DEF At

\* What the program has handles to is counted.
LEMMA HandlesAreCounted ==
    ASSUME RootInv, NEW t \in Threads, NEW o \in Objects, Owns(t, o) \/ Pins(t, o)
    PROVE  rootCount[o] > 0
<1>1. /\ rootCount[o] = RootsTo(o) + Cardinality(Pinners(o)) + Cardinality(Droppers(o))
      /\ roots[t][o] \in 0 .. MaxRoots /\ MaxRoots \in Nat \ {0}
      /\ RootsTo(o) = Cardinality(Held(roots, o))
  BY GraphAssumption DEF RootInv, CountsExact, HandleTypes, RootsTo, RootHandles, Held
<1>2. /\ IsFiniteSet(Held(roots, o)) /\ RootsTo(o) \in Nat
      /\ IsFiniteSet(Pinners(o)) /\ Cardinality(Pinners(o)) \in Nat /\ Cardinality(Droppers(o)) \in Nat
  BY <1>1, FiniteHandles
<1>3. CASE Owns(t, o)
  <2>1. <<t, 1>> \in Held(roots, o)
    BY <1>1, <1>3 DEF Held, Owns
  <2>2. RootsTo(o) # 0
    BY <2>1, <1>1, <1>2, FS_EmptySet
  <2> QED
    BY <2>2, <1>1, <1>2
<1>4. CASE Pins(t, o)
  BY <1>4, <1>2, FS_EmptySet, <1>1 DEF Pinners, Pins
<1> QED
  BY <1>3, <1>4

LEMMA GoneFacts ==
    ASSUME RootInv, HeapTypes
    PROVE  Gone \subseteq Objects /\ Null \notin Gone /\ Born \subseteq Objects /\ lookup \subseteq Born
  BY GraphAssumption DEF RootInv, HandleTypes, NoHandlesAhead, HeapTypes, Gone, Dead, Born, Objects, Null

\* What the program can name when it is in no operation.
LEMMA NamedIsSpared ==
    ASSUME RootInv, NEW t \in Threads, Placed(t), Spared(t), pc[t] = Idle, NEW o \in Objects,
           Owns(t, o) \/ Pins(t, o) \/ o \in FieldValues(t)
    PROVE  o \notin Gone
<1>1. \A p \in Objects : Owns(t, p) \/ Pins(t, p) => p \notin Gone
  BY HandlesAreCounted DEF RootInv, HandleTypes, Spared
<1>2. CASE o \in FieldValues(t)
  <2>1. PICK p \in roPins[t] \cup rwPins[t], s \in Slots : o = field[p][s]
    BY <1>2 DEF FieldValues
  <2>2. p \in Objects /\ Pins(t, p)
    BY <2>1 DEF Pins, RootInv, HandleTypes
  <2>3. ~Severed(t) /\ Counting(t) = field
    BY DEF Severed, Counting, ListLabels, Idle
  <2> QED
    BY <1>1, <2>1, <2>2, <2>3 DEF Spared, Keeps
<1> QED
  BY <1>1, <1>2

LEMMA HandleSpared ==
    ASSUME RootInv, RootInv', NEW t \in Threads, Threads = {t}, Placed(t), Placed(t)', Ledger(t)',
           Spared(t), HandleStep(t)
    PROVE  Spared(t)' /\ Hunted(t)'
<1>0. /\ Still(t) /\ ~Severed(t) /\ ~Severed(t)' /\ col' = col /\ pc'[t] \notin ListLabels
      /\ pc = [u \in Threads |-> pc[u]] /\ loc = [u \in Threads |-> loc[u]]
      /\ rootCount \in [Objects -> Nat] /\ rootCount' \in [Objects -> Nat] /\ allocated \in Nat
      /\ HeapTypes /\ HandleLocals(t) /\ OpPlaces(t)
      /\ \A o \in Objects \ Born : rootCount[o] = 0
  BY HandleIsStill, GraphAssumption DEF RootInv, HandleTypes, Placed, NoHandlesAhead
<1>1. Gone \subseteq Objects /\ Null \notin Gone /\ Born \subseteq Objects /\ lookup \subseteq Born
  BY <1>0, GoneFacts
<1> USE DEF headerVars, heapVars, implVars, clientVars, opVars, colVars, Goto, StartOp, EndOp, Idle
<1>2. Hunted(t)'
  BY <1>0 DEF Hunted, CandidateLabels, FindLabels, ScanLabels, DestroyLabels, ListLabels
<1> SUFFICES Spared(t)'
  BY <1>2
<1>3. Counting(t) = field /\ Counting(t)' = field
  BY <1>0 DEF Still, Counting, SetLabels, DestroyLabels
<1>4. Keeps(field, Gone) /\ \A o \in Gone : rootCount[o] = 0
  BY <1>0, <1>3 DEF Spared
<1>5. pc[t] # "tearSever" /\ pc'[t] # "tearSever"
  <2>1. CASE New(t) \/ PinLock(t) \/ PinCount(t)
    BY <2>1, <1>0 DEF New, PinLock, PinCount
  <2>2. CASE Drop(t)
    BY <2>2, <1>0 DEF Drop, DropTest, DropLockObject, DropCount, DropFlag, DropRelease, AfterDrop
  <2>3. ASSUME NEW o \in Born, CopyRoot(t, o) \/ DropRoot(t, o) \/ Unpin(t, o) \/ Pin(t, o, "ro") \/ Pin(t, o, "rw")
        PROVE  pc[t] # "tearSever" /\ pc'[t] # "tearSever"
    BY <2>3, <1>0 DEF CopyRoot, DropRoot, Unpin, Pin
  <2> QED
    BY <2>1, <2>2, <2>3 DEF HandleStep
<1>6. garbage \subseteq Born /\ pc'[t] \notin SetLabels
  BY <1>0, <1>5 DEF Spared, GoingDown, Still
<1>7. ASSUME Gone' = Gone, garbage' = garbage, \A o \in Gone : rootCount'[o] = 0,
             pc'[t] \in PinLabels => loc'[t].obj \notin Gone,
             pc'[t] = "dropFlag" => rootCount'[loc'[t].obj] = 0
      PROVE  Spared(t)'
  BY <1>0, <1>3, <1>4, <1>5, <1>6, <1>7 DEF Spared, GoingDown, Still
<1>8. CASE New(t)
  BY <1>8, <1>0, <1>1, <1>6, <1>4, <1>7 DEF New, RegisterObject, Born, Gone, Dead, PinLabels
<1>9. ASSUME NEW o \in Objects, rootCount' = [rootCount EXCEPT ![o] = @ + 1], o \notin Gone,
             UNCHANGED <<garbage, allocated, lookup>>, pc'[t] = "idle"
      PROVE  Spared(t)'
  BY <1>9, <1>0, <1>1, <1>4, <1>7 DEF Gone, Dead, Born, PinLabels
<1>10. CASE PinLock(t) \/ PinCount(t)
  <2>1. loc[t].obj \in Objects /\ loc[t].obj \notin Gone
    BY <1>0, <1>1, <1>10 DEF PinLock, PinCount, Spared, PinLabels, HandleLocals
  <2>2. CASE PinLock(t)
    BY <2>2, <1>0, <1>4, <2>1, <1>7 DEF PinLock, Gone, Dead, Born
  <2>3. CASE PinCount(t)
    BY <2>1, <2>3, <1>0, <1>9, Zenon DEF PinCount, CountRoot
  <2> QED
    BY <1>10, <2>2, <2>3
<1>11. CASE Drop(t)
  <2>1. loc[t] \in [obj : Born, hold : BOOLEAN]
    BY <1>11, <1>0 DEF Drop, DropTest, DropLockObject, DropCount, DropFlag, DropRelease, HandleLocals, OpPlaces, DropLabels
  <2>2. CASE DropTest(t) \/ DropLockObject(t) \/ DropRelease(t)
    BY <2>2, <1>0, <1>4, <1>7 DEF DropTest, DropLockObject, DropRelease, Gone, Dead, Born, PinLabels
  <2>3. CASE DropCount(t)
    <3>1. PICK o \in Objects : o = loc[t].obj
      BY <2>1, <1>1
    <3>2. /\ Gone' = Gone /\ garbage' = garbage /\ rootCount' = [rootCount EXCEPT ![o] = @ - 1]
          /\ pc'[t] \notin PinLabels
          /\ pc'[t] = "dropFlag" => rootCount[o] = 1 /\ loc' = loc
      BY <2>3, <3>1, <1>0 DEF DropCount, AfterDrop, Gone, Dead, Born, PinLabels
    <3>3. rootCount[o] # 0
      <4>1. t \in Droppers(o)
        BY <2>3, <3>1 DEF DropCount, Droppers, DropLabels
      <4>2. Cardinality(Droppers(o)) # 0
        BY <4>1, FiniteHandles, FS_EmptySet
      <4>3. rootCount[o] = RootsTo(o) + Cardinality(Pinners(o)) + Cardinality(Droppers(o))
        BY DEF RootInv, CountsExact
      <4>4. RootsTo(o) \in Nat /\ Cardinality(Pinners(o)) \in Nat /\ Cardinality(Droppers(o)) \in Nat
        BY FiniteHandles, Zenon DEF RootsTo, RootHandles, Held
      <4> QED
        BY <4>2, <4>3, <4>4
    <3>4. \A x \in Gone : rootCount'[x] = 0
      BY <1>1, <1>4, <3>2, <3>3, <1>0
    <3>5. /\ pc'[t] = "dropFlag" => rootCount'[loc'[t].obj] = 0
          /\ pc'[t] \in PinLabels => loc'[t].obj \notin Gone
      BY <3>1, <3>2, <1>0
    <3> QED
      BY <3>2, <3>4, <3>5, <1>7
  <2>4. CASE DropFlag(t)
    <3>1. PICK o \in Objects : o = loc[t].obj /\ o \in Born
      BY <2>1, <1>1
    <3>2. /\ rootCount' = rootCount /\ lookup' = lookup /\ allocated' = allocated
          /\ pc'[t] \in {"dropRelease", "idle"} /\ pc[t] = "dropFlag"
      BY <2>4, <1>0 DEF DropFlag, AfterDrop
    <3>5. garbage' = garbage \/ (garbage' = garbage \cup {o} /\ refBy[o] = <<>>)
      BY <2>4, <3>1 DEF DropFlag
    <3>3. CASE garbage' = garbage
      BY <3>2, <3>3, <1>4, <1>7 DEF Gone, Dead, Born, PinLabels
    <3>4. CASE garbage' = garbage \cup {o} /\ refBy[o] = <<>>
      <4>1. Gone' = Gone \cup {o} /\ rootCount[o] = 0
        BY <3>1, <3>2, <3>4 DEF Gone, Dead, Born, Spared
      <4>2. /\ Tally(t)' /\ refBy' = refBy /\ \A x, p : ~Pending(t, x, p)'
            /\ field \in [Objects -> [Slots -> Objects \cup {Null}]] /\ refBy[o] \in Seq(Objects)
        BY <1>0, <1>6, <3>2 DEF Ledger, Still, HeapTypes, Pending
      <4>3. \A p \in Objects : Cardinality(At(refBy[o], p)) = Cardinality(Holding(field, o, p))
        BY <4>2, <1>3, SomeSlots DEF Tally, Referring, Holding
      <4>4. \A j \in DOMAIN refBy[o] : refBy[o][j] \in Gone
        BY <3>4
      <4>5. PICK list \in Seq(Objects) : list = refBy[o]
        BY <4>2
      <4>6. Keeps(field, Gone \cup {o})
        BY <4>2, <4>3, <4>4, <4>5, <1>4, KeepsMore
      <4>7. \A x \in Gone' : rootCount'[x] = 0
        BY <4>1, <3>2, <1>4
      <4>8. garbage' \subseteq Born'
        BY <3>1, <3>2, <3>4, <1>6, Zenon DEF Born
      <4>9. Keeps(Counting(t)', Gone')
        BY <4>1, <4>6, <1>3
      <4>10. pc'[t] \notin PinLabels \cup {"dropFlag"} /\ ~GoingDown(t)'
        BY <3>2, <1>0, <1>5 DEF PinLabels, GoingDown
      <4> QED
        BY <4>7, <4>8, <4>9, <4>10, <1>0, <1>6 DEF Spared
    <3> QED
      BY <3>5, <3>3, <3>4
  <2> QED
    BY <1>11, <2>2, <2>3, <2>4 DEF Drop
<1>12. ASSUME NEW o \in Born, CopyRoot(t, o) \/ DropRoot(t, o) \/ Unpin(t, o) \/ Pin(t, o, "ro") \/ Pin(t, o, "rw")
       PROVE  Spared(t)'
  <2>1. o \in Objects /\ pc[t] = Idle
    BY <1>1, <1>12 DEF CopyRoot, DropRoot, Unpin, Pin
  <2>2. CASE CopyRoot(t, o)
    BY <2>1, <2>2, NamedIsSpared, <1>9, Zenon DEF CopyRoot, CountRoot
  <2>3. CASE DropRoot(t, o) \/ Unpin(t, o)
    BY <2>3, <1>0, <1>4, <1>7 DEF DropRoot, Unpin, Gone, Dead, Born, PinLabels
  <2>4. CASE Pin(t, o, "ro") \/ Pin(t, o, "rw")
    BY <2>1, <2>4, NamedIsSpared, <1>0, <1>4, <1>7 DEF Pin, Gone, Dead, Born
  <2> QED
    BY <1>12, <2>2, <2>3, <2>4
<1> QED
  BY <1>8, <1>10, <1>11, <1>12 DEF HandleStep

LEMMA SearchStarts ==
    ASSUME NEW rb, NEW rc, NEW G, NEW o \in Objects, rc[o] = 0
    PROVE  Searched(<<Frame(o)>>, rb, rc, G)
  BY DEF Frame, SearchDone, SearchLinked, SearchRanked, Searched

\* The top frame may get on as long as what it has passed is garbage.
LEMMA SearchGetsOn ==
    ASSUME NEW rb, NEW rc, NEW G, NEW n \in Nat \ {0},
           NEW s \in Seq(Frames), Len(s) = n, Searched(s, rb, rc, G),
           NEW z \in Seq(Frames), Len(z) = n, \A f \in 1 .. n - 1 : z[f] = s[f], z[n].obj = s[n].obj,
           \A j \in 1 .. z[n].k - 1 : j \in DOMAIN rb[s[n].obj] /\ rb[s[n].obj][j] \in G
    PROVE  Searched(z, rb, rc, G)
<1>1. \A f \in 1 .. n : f \in 1 .. n - 1 \/ f = n
  OBVIOUS
<1>2. \A f \in 1 .. n - 1 : f \in 1 .. n /\ f + 1 \in 1 .. n
  OBVIOUS
<1>3. \A f \in 1 .. n : z[f].obj = s[f].obj
  BY <1>1
<1>4. ASSUME NEW f \in 1 .. n
      PROVE  rc[z[f].obj] = 0 /\ \A j \in 1 .. z[f].k - 1 : j \in DOMAIN rb[z[f].obj] /\ rb[z[f].obj][j] \in G
  BY <1>2, <1>3, <1>1 DEF Searched, SearchDone
<1>5. ASSUME NEW f \in 1 .. n - 1
      PROVE  z[f].k \in DOMAIN rb[z[f].obj] /\ z[f + 1].obj = rb[z[f].obj][z[f].k]
  BY <1>2, <1>3, Zenon DEF Searched, SearchLinked
<1>6. \A f, g \in 1 .. n : f < g => Rank[z[g].obj] < Rank[z[f].obj]
  BY <1>3 DEF Searched, SearchRanked
<1>7. SearchDone(z, rb, rc, G)
  BY <1>4 DEF SearchDone
<1>8. SearchLinked(z, rb)
  BY <1>5, Zenon DEF SearchLinked
<1>9. SearchRanked(z)
  BY <1>6, Zenon DEF SearchRanked
<1> QED
  BY <1>7, <1>8, <1>9 DEF Searched

LEMMA SearchAdvances ==
    ASSUME NEW rb, NEW rc, NEW G, NEW n \in Nat \ {0},
           NEW s \in Seq(Frames), Len(s) = n, Searched(s, rb, rc, G),
           s[n].k \in DOMAIN rb[s[n].obj], rb[s[n].obj][s[n].k] \in G
    PROVE  Searched(Advance(s), rb, rc, G)
<1>1. s # <<>>
  OBVIOUS
<1>2. PICK z \in Seq(Frames) : z = Advance(s) /\ Len(z) = n /\ (\A f \in 1 .. n - 1 : z[f] = s[f])
         /\ z[n] = [obj |-> s[n].obj, k |-> s[n].k + 1, ref |-> Null]
  BY <1>1, StackFacts
<1>3. n \in 1 .. n /\ s[n].k \in Nat \ {0}
  <2>1. n \in 1 .. n
    OBVIOUS
  <2> QED
    BY <1>1, <2>1, StackFacts, Zenon DEF Frames
<1>4. z[n].obj = s[n].obj /\ z[n].k = s[n].k + 1
  BY <1>2
<1>5. \A j \in 1 .. z[n].k - 1 : j \in 1 .. s[n].k - 1 \/ j = s[n].k
  BY <1>3, <1>4
<1>6. \A j \in 1 .. s[n].k - 1 : j \in DOMAIN rb[s[n].obj] /\ rb[s[n].obj][j] \in G
  BY <1>3 DEF Searched, SearchDone
<1>7. \A j \in 1 .. z[n].k - 1 : j \in DOMAIN rb[s[n].obj] /\ rb[s[n].obj][j] \in G
  BY <1>5, <1>6
<1>8. Searched(z, rb, rc, G)
  BY <1>2, <1>4, <1>7, SearchGetsOn, Zenon
<1> QED
  BY <1>2, <1>8

LEMMA LookingFacts ==
    ASSUME NEW n \in Nat \ {0}, NEW s \in Seq(Frames), Len(s) = n, NEW r \in Objects
    PROVE  /\ Looking(s, r) \in Seq(Frames) /\ Len(Looking(s, r)) = n
           /\ \A f \in 1 .. n - 1 : Looking(s, r)[f] = s[f]
           /\ Looking(s, r)[n].obj = s[n].obj /\ Looking(s, r)[n].k = s[n].k
           /\ Looking(s, r)[n].ref = r
<1>1. DOMAIN s = 1 .. n /\ s \in [1 .. n -> Frames] /\ n \in 1 .. n /\ s[n] \in Frames
  BY LenProperties
<1>2. PICK top : top = [obj |-> s[n].obj, k |-> s[n].k, ref |-> r]
  BY Zenon
<1>3. top \in Frames /\ top.obj = s[n].obj /\ top.k = s[n].k /\ top.ref = r
  BY <1>1, <1>2 DEF Frames
<1>4. [s[n] EXCEPT !.ref = r] = top
  BY <1>1, <1>2 DEF Frames
<1>5. PICK z : z = Looking(s, r) /\ z = [s EXCEPT ![n] = top]
  BY <1>4, Zenon DEF Looking
<1>6. z \in [1 .. n -> Frames] /\ z[n] = top /\ \A f \in 1 .. n - 1 : z[f] = s[f]
  BY <1>1, <1>3, <1>5
<1>7. z \in Seq(Frames) /\ Len(z) = n
  BY <1>6
<1> QED
  BY <1>3, <1>5, <1>6, <1>7

\* The stack z is s, of n frames, with frame e on top.
OnTop(z, s, n, e) ==
    z \in Seq(Frames) /\ Len(z) = n + 1 /\ z[n + 1] = e /\ \A f \in 1 .. n : z[f] = s[f]

LEMMA OneOnTop ==
    ASSUME NEW n \in Nat, NEW s \in Seq(Frames), Len(s) = n, NEW e \in Frames
    PROVE  OnTop(Append(s, e), s, n, e)
<1>1. PICK z : z = Append(s, e)
  BY Zenon
<1>2. z \in Seq(Frames) /\ Len(z) = n + 1 /\ z[n + 1] = e /\ \A f \in 1 .. n : z[f] = s[f]
  BY <1>1, AppendProperties
<1> QED
  BY <1>1, <1>2, Zenon DEF OnTop

LEMMA SearchDescends ==
    ASSUME NEW rb, NEW rc, NEW G, NEW n \in Nat \ {0},
           NEW s \in Seq(Frames), Len(s) = n, Searched(s, rb, rc, G),
           NEW r \in Objects, s[n].k \in DOMAIN rb[s[n].obj], r = rb[s[n].obj][s[n].k],
           rc[r] = 0, Acyclic, Rank[r] < Rank[s[n].obj]
    PROVE  Searched(Append(s, Frame(r)), rb, rc, G)
<1>0. Frame(r) = [obj |-> r, k |-> 1, ref |-> Null]
  BY DEF Frame
<1>1. PICK e \in Frames : e = Frame(r) /\ e.obj = r /\ e.k = 1
  BY <1>0 DEF Frames
<1>a. PICK z : z = Append(s, e) /\ OnTop(z, s, n, e)
  <2>1. n \in Nat
    OBVIOUS
  <2> QED
    BY <2>1, OneOnTop, Zenon
<1>2. z \in Seq(Frames) /\ Len(z) = n + 1 /\ z[n + 1] = e /\ \A f \in 1 .. n : z[f] = s[f]
  BY <1>a, Zenon DEF OnTop
<1>3. /\ \A f \in 1 .. n + 1 : f \in 1 .. n \/ f = n + 1
      /\ \A f \in 1 .. n : f \in 1 .. n - 1 \/ f = n
      /\ \A f \in 1 .. n - 1 : f \in 1 .. n /\ f + 1 \in 1 .. n
      /\ n \in 1 .. n
      /\ \A f \in 1 .. n : f # n => f < n
  OBVIOUS
<1>4. \A f \in 1 .. n : s[f].obj \in Objects
  <2>1. \A f \in 1 .. n : s[f] \in Frames
    BY LenProperties
  <2> QED
    BY <2>1 DEF Frames
<1>5. ASSUME NEW f \in 1 .. n + 1
      PROVE  rc[z[f].obj] = 0 /\ \A j \in 1 .. z[f].k - 1 : j \in DOMAIN rb[z[f].obj] /\ rb[z[f].obj][j] \in G
  <2>1. CASE f \in 1 .. n
    BY <1>2, <2>1 DEF Searched, SearchDone
  <2>2. CASE f = n + 1
    <3>1. z[f].obj = r /\ z[f].k = 1
      BY <1>1, <1>2, <2>2, Zenon
    <3>2. rc[r] = 0 /\ ~\E j \in 1 .. 1 - 1 : TRUE
      OBVIOUS
    <3> QED
      BY <3>1, <3>2, Zenon
  <2> QED
    BY <1>3, <2>1, <2>2
<1>6. ASSUME NEW f \in 1 .. n
      PROVE  z[f].k \in DOMAIN rb[z[f].obj] /\ z[f + 1].obj = rb[z[f].obj][z[f].k]
  <2>1. CASE f \in 1 .. n - 1
    BY <1>2, <1>3, <2>1 DEF Searched, SearchLinked
  <2>2. CASE f = n
    BY <1>1, <1>2, <2>2, Zenon
  <2> QED
    BY <1>3, <2>1, <2>2
<1>7. \A f \in 1 .. n : Rank[r] < Rank[s[f].obj]
  BY <1>3, <1>4, RankAscends DEF Searched, SearchRanked
<1>8. ASSUME NEW f \in 1 .. n + 1, NEW g \in 1 .. n + 1, f < g PROVE Rank[z[g].obj] < Rank[z[f].obj]
  <2>1. CASE g \in 1 .. n
    BY <1>8, <2>1, <1>2 DEF Searched, SearchRanked
  <2>2. CASE g = n + 1
    <3>1. f \in 1 .. n
      BY <1>8, <2>2
    <3>2. z[g].obj = r /\ z[f].obj = s[f].obj
      BY <1>1, <1>2, <2>2, <3>1, Zenon
    <3> QED
      BY <1>7, <3>1, <3>2
  <2> QED
    BY <1>3, <2>1, <2>2
<1>9. n + 1 - 1 = n
  OBVIOUS
<1>10. Searched(z, rb, rc, G)
  <2>1. SearchDone(z, rb, rc, G)
    BY <1>2, <1>5 DEF SearchDone
  <2>2. SearchLinked(z, rb)
    BY <1>2, <1>6, <1>9 DEF SearchLinked
  <2>3. SearchRanked(z)
    BY <1>2, <1>8 DEF SearchRanked
  <2> QED
    BY <2>1, <2>2, <2>3 DEF Searched
<1> QED
  BY <1>1, <1>a, <1>10, Zenon

LEMMA SearchGrows ==
    ASSUME NEW rb, NEW rc, NEW G, NEW G2, G \subseteq G2, NEW s, Searched(s, rb, rc, G)
    PROVE  Searched(s, rb, rc, G2)
  BY DEF Searched, SearchDone

\* A stack without its top frame.
Under(s) == SubSeq(s, 1, Len(s) - 1)

LEMMA SearchReturns ==
    ASSUME NEW rb, NEW rc, NEW G, NEW n \in Nat, n > 1,
           NEW s \in Seq(Frames), Len(s) = n, Searched(s, rb, rc, G),
           NEW b, b = Under(s)
    PROVE  /\ Searched(b, rb, rc, G) /\ b \in Seq(Frames) /\ Len(b) = n - 1 /\ n - 1 \in Nat \ {0}
           /\ b[n - 1] = s[n - 1]
           /\ s[n - 1].k \in DOMAIN rb[s[n - 1].obj] /\ s[n].obj = rb[s[n - 1].obj][s[n - 1].k]
<1>1. b \in Seq(Frames) /\ Len(b) = n - 1 /\ \A f \in 1 .. n - 1 : b[f] = s[f]
  BY StackBelow DEF Under
<1>2. /\ \A f \in 1 .. n - 1 : f \in 1 .. n
      /\ \A f \in 1 .. n - 1 - 1 : f \in 1 .. n - 1 /\ f + 1 \in 1 .. n - 1
      /\ n - 1 \in 1 .. n - 1 /\ n - 1 + 1 = n /\ n - 1 \in Nat \ {0}
  OBVIOUS
<1>3. Searched(b, rb, rc, G)
  <2>1. SearchDone(b, rb, rc, G)
    BY <1>1, <1>2 DEF Searched, SearchDone
  <2>2. SearchLinked(b, rb)
    BY <1>1, <1>2 DEF Searched, SearchLinked
  <2>3. SearchRanked(b)
    BY <1>1, <1>2 DEF Searched, SearchRanked
  <2> QED
    BY <2>1, <2>2, <2>3 DEF Searched
<1>4. s[n - 1].k \in DOMAIN rb[s[n - 1].obj] /\ s[n].obj = rb[s[n - 1].obj][s[n - 1].k]
  BY <1>2 DEF Searched, SearchLinked
<1> QED
  BY <1>1, <1>2, <1>3, <1>4

LEMMA ScanSpared ==
    ASSUME RootInv, NEW t \in Threads, Threads = {t}, Placed(t), Placed(t)',
           Ledger(t), Spared(t), Hunted(t), ScanStep(t)
    PROVE  Spared(t)' /\ Hunted(t)'
<1>0. /\ Still(t) /\ ~Severed(t) /\ ~Severed(t)'
      /\ pc[t] \in ScanLabels \cup {"colId", "colNext"} /\ col[t] \in Walks /\ col[t].back = "colNext"
      /\ pc[t] \in ScanLabels => Candidate(t) \in Objects
      /\ ScanMoves(t)
      /\ UNCHANGED <<rootCount, refBy, garbage, field, allocated, lookup, allocations, loc>>
      /\ HeapTypes /\ lookup \subseteq Born /\ rootCount \in [Objects -> Nat]
  BY SearchIsStill, ScanSteps DEF Placed, RootInv, NoHandlesAhead, HandleTypes
<1>1. Gone' = Gone /\ Born' = Born
  BY <1>0 DEF Gone, Dead, Born
<1>2. Counting(t) = field /\ Counting(t)' = field
  BY <1>0 DEF Still, Counting, SetLabels, DestroyLabels
<1>3. /\ pc[t] \notin {"tearSever", "dropFlag"} \cup PinLabels \cup SetLabels
      /\ pc'[t] \in ScanLabels \cup {"colId", "colNext", "findEnter", "desUnregister", Idle}
  BY <1>0 DEF ScanMoves, ScanLabels, PinLabels, SetLabels
<1>4. Spared(t)'
  BY <1>3, <1>0, <1>1, <1>2 DEF ScanLabels, PinLabels, SetLabels, Idle, Spared, GoingDown
<1> SUFFICES Hunted(t)'
  BY <1>4
<1>5. \A o : Condemned(o)' <=> Condemned(o)
  BY <1>0 DEF Condemned
<1>6. ASSUME pc'[t] \notin CandidateLabels PROVE Hunted(t)'
  BY <1>6 DEF Hunted, CandidateLabels, FindLabels, DestroyLabels, ScanLabels
<1>7. ASSUME pc[t] \in ScanLabels, pc'[t] \in ScanLabels, pc'[t] # "colUpgrade", col'[t] = col[t]
      PROVE  Hunted(t)'
  BY <1>0, <1>1, <1>7 DEF Hunted, CandidateLabels, FindLabels, DestroyLabels, ScanLabels, Candidate
<1>8. CASE pc[t] \in {"colId", "colNext"}
  <2>1. CASE pc'[t] # "colTry"
    BY <1>0, <1>8, <2>1, <1>6
    DEF ScanMoves, CandidateLabels, FindLabels, ScanLabels, DestroyLabels, Idle
  <2>2. CASE pc'[t] = "colTry"
    <3>1. PICK list \in Seq(Objects) : list = allocations[col[t].page]
      BY <1>0 DEF Walks, HeapTypes
    <3>2. /\ pc[t] = "colNext" /\ col[t].i <= Len(list)
          /\ ~(rootCount[list[col[t].i]] > 0)
          /\ WalkLocals(t, col[t].i, col[t].slot, list[col[t].i])
      BY <1>0, <1>8, <2>2, <3>1 DEF ScanMoves, Idle
    <3>3. col[t].i \in DOMAIN list /\ col[t].page \in Lists
      BY <1>0, <3>1, <3>2, LenProperties DEF Walks
    <3>4. list[col[t].i] \in Born
      BY <3>1, <3>3 DEF Ledger, Kinds
    <3>5. Candidate(t)' \in Born' /\ rootCount'[Candidate(t)'] = 0
      BY <1>0, <1>1, <3>1, <3>2, <3>3, <3>4 DEF WalkLocals, Candidate
    <3> QED
      BY <2>2, <3>5 DEF Hunted, Candidate, FindLabels, DestroyLabels
  <2> QED
    BY <2>1, <2>2
<1>9. CASE pc[t] \in {"colTry", "colUntry", "colRead", "colRelease"}
  BY <1>0, <1>9, <1>6, <1>7 DEF ScanMoves, CandidateLabels, FindLabels, ScanLabels, DestroyLabels
<1>10. CASE pc[t] = "colFlag"
  <2>1. /\ col'[t] = col[t] /\ Candidate(t) \in Objects
        /\ rootCount[Candidate(t)] = 0 /\ Candidate(t) \in Born
    BY <1>0, <1>10 DEF ScanMoves, Hunted, CandidateLabels, ScanLabels
  <2>2. CASE Candidate(t) \in garbage
    BY <1>0, <1>10, <2>2, <2>1, <1>1 DEF ScanMoves, Hunted, Candidate, FindLabels, DestroyLabels
  <2>3. CASE Candidate(t) \notin garbage
    <3>1. pc'[t] = "findEnter" /\ stk'[t] = <<Frame(Candidate(t))>>
      BY <1>0, <1>10, <2>3 DEF ScanMoves
    <3>2. Searched(stk'[t], refBy, rootCount, garbage)
      BY <2>1, <3>1, SearchStarts
    <3> QED
      BY <2>1, <3>1, <3>2, <1>0, <1>1 DEF Hunted, Candidate, DestroyLabels
  <2> QED
    BY <2>2, <2>3
<1>11. CASE pc[t] = "colUpgrade"
  <2>1. CASE pc'[t] = "desUnregister"
    BY <1>0, <1>11, <2>1, <1>1, <1>5
    DEF ScanMoves, Idle, Hunted, CandidateLabels, ScanLabels, Candidate, FindLabels, Condemned
  <2>2. CASE pc'[t] # "desUnregister"
    BY <1>0, <1>11, <2>2, <1>6
    DEF ScanMoves, CandidateLabels, FindLabels, ScanLabels, DestroyLabels, Idle
  <2> QED
    BY <2>1, <2>2
<1> QED
  BY <1>0, <1>8, <1>9, <1>10, <1>11 DEF ScanLabels

\* Between assignments the referrers of an object have it in a field; owners rank lower.
LEMMA ReferrersAreOwners ==
    ASSUME NEW t \in Threads, Placed(t), Ledger(t), ~Severed(t), pc[t] \notin SetLabels \cup DestroyLabels,
           NEW x \in Objects, NEW j \in DOMAIN refBy[x]
    PROVE  refBy[x][j] \in Objects /\ refBy[x][j] \in Born /\ (Acyclic => Rank[refBy[x][j]] < Rank[x])
<1>1. /\ field \in [Objects -> [Slots -> Objects \cup {Null}]] /\ refBy[x] \in Seq(Objects)
      /\ Tally(t) /\ Upwards(t) /\ Counting(t) = field /\ \A p : ~Pending(t, x, p)
  BY Zenon DEF Placed, HeapTypes, Ledger, Counting, Pending, SetLabels, DestroyLabels
<1>2. PICK list \in Seq(Objects) : list = refBy[x]
  BY <1>1
<1>3. PICK n \in Nat : n = Len(list) /\ DOMAIN list = 1 .. n
  BY LenProperties
<1>4. PICK p \in Objects : p = list[j]
  BY <1>2, <1>3
<1>5. At(list, p) # {}
  BY <1>2, <1>4 DEF At
<1>6. Cardinality(At(list, p)) = Cardinality(Holding(field, x, p))
  BY <1>1, <1>2, SomeSlots DEF Tally, Referring, Holding
<1>7. PICK s \in Slots : field[p][s] = x
  <2>1. IsFiniteSet(At(list, p))
    <3>1. At(list, p) \in SUBSET (1 .. n) /\ 1 \in Int /\ n \in Int
      BY <1>3 DEF At
    <3> QED
      BY <3>1, FS_Interval, FS_Subset, Zenon
  <2>2. Cardinality(At(list, p)) # 0
    BY <1>5, <2>1, FS_EmptySet, Zenon
  <2>3. Holding(field, x, p) # {}
    BY <1>6, <2>2, FS_EmptySet, Zenon
  <2> QED
    BY <2>3 DEF Holding
<1>8. x # Null
  BY GraphAssumption DEF Objects, Null
<1> QED
  BY <1>1, <1>2, <1>4, <1>7, <1>8 DEF Upwards, Ascends

LEMMA FindSpared ==
    ASSUME RootInv, NEW t \in Threads, Threads = {t}, Placed(t), Placed(t)', Ledger(t), Acyclic,
           Spared(t), Hunted(t), Find(t)
    PROVE  Spared(t)' /\ Hunted(t)'
<1>0. /\ pc[t] \in FindLabels /\ col[t] \in Walks /\ col[t].back = "colNext" /\ Candidate(t) \in Objects
      /\ stk[t] \in Seq(Frames) /\ stk[t] # <<>> /\ stk[t][1].obj = Candidate(t)
      /\ col'[t].back = col[t].back /\ col'[t].obj = col[t].obj
      /\ SearchMoves(t)
      /\ UNCHANGED <<rootCount, refBy, field, allocated, lookup, loc>>
  BY SearchSteps DEF WalkLocals
<1>a. /\ Still(t) /\ ~Severed(t) /\ ~Severed(t)'
  BY SearchIsStill
<1>b. /\ field \in [Objects -> [Slots -> Objects \cup {Null}]] /\ refBy \in [Objects -> Seq(Objects)]
      /\ garbage \subseteq Objects /\ Gone \subseteq Objects
      /\ Born \subseteq Objects /\ rootCount \in [Objects -> Nat]
  BY GoneFacts DEF Placed, HeapTypes, RootInv, HandleTypes
<1>c. /\ pc[t] \notin SetLabels \cup DestroyLabels \cup PinLabels \cup {"dropFlag", "tearSever"}
      /\ pc'[t] \in FindLabels \cup {"colRelease", "colUpgrade"}
      /\ pc'[t] \notin SetLabels \cup DestroyLabels \cup PinLabels \cup {"dropFlag", "tearSever"}
  BY <1>0 DEF SearchMoves, FindLabels, SetLabels, DestroyLabels, PinLabels
<1>1. Counting(t) = field /\ Counting(t)' = field /\ Born' = Born /\ garbage \subseteq Born
  BY <1>0, <1>a, <1>c DEF Counting, SetLabels, DestroyLabels, Born, Spared, GoingDown
<1>2. PICK s \in Seq(Frames) : s = stk[t]
  BY <1>0
<1>3. PICK n \in Nat \ {0} : n = Len(s)
  BY <1>0, <1>2, StackFacts
<1>4. PICK top \in Frames : top = s[n] /\ top = Top(t)
  BY <1>0, <1>2, <1>3, StackFacts DEF Top
<1>5. PICK x \in Objects, k \in Nat \ {0} : x = top.obj /\ k = top.k
  BY DEF Frames
<1>6. /\ Searched(s, refBy, rootCount, garbage)
      /\ rootCount[Candidate(t)] = 0 /\ Candidate(t) \in Born
  BY <1>0, <1>2 DEF Hunted, CandidateLabels
<1>7. /\ rootCount[x] = 0
      /\ \A j \in 1 .. k - 1 : j \in DOMAIN refBy[x] /\ refBy[x][j] \in garbage
  <2>1. n \in 1 .. n
    OBVIOUS
  <2> QED
    BY <2>1, <1>3, <1>4, <1>5, <1>6, Zenon DEF Searched, SearchDone
<1>8. /\ refBy[x] \in Seq(Objects) /\ Len(refBy[x]) \in Nat /\ DOMAIN refBy[x] = 1 .. Len(refBy[x])
      /\ \A j \in DOMAIN refBy[x] : refBy[x][j] \in Objects /\ refBy[x][j] \in Born /\ Rank[refBy[x][j]] < Rank[x]
  BY <1>b, <1>c, <1>a, ReferrersAreOwners, LenProperties
<1>9. ASSUME Keeps(field, Gone'), \A o \in Gone' : rootCount[o] = 0, garbage' \subseteq Born
      PROVE  Spared(t)'
  BY <1>9, <1>0, <1>a, <1>c, <1>1 DEF Spared, GoingDown
<1>10. ASSUME garbage' = garbage PROVE Spared(t)'
  BY <1>10, <1>0, <1>9, <1>1, <1>a DEF Gone, Dead, Born, Spared
<1>11. ASSUME pc'[t] \in FindLabels \ {"findDescend", "findLock", "findReturn", "findRelease"},
              Searched(stk'[t], refBy, rootCount, garbage')
       PROVE  Hunted(t)'
  BY <1>11, <1>0, <1>1, <1>6, SMTT(15) DEF Hunted, Candidate, FindLabels, DestroyLabels
<1>12. ASSUME pc'[t] = "findReturn", Searched(stk'[t], refBy, rootCount, garbage'), garbage' = garbage,
              stk'[t] = stk[t], x \in garbage \/ Condemned(x)
       PROVE  Hunted(t)'
  BY <1>12, <1>2, <1>4, <1>5, <1>0, <1>1, <1>6
  DEF Top, Condemned, Hunted, Candidate, FindLabels, DestroyLabels
<1>18. ASSUME pc'[t] = "findReturn", Searched(stk'[t], refBy, rootCount, garbage'), col'[t].found = TRUE
       PROVE  Hunted(t)'
  BY <1>18, <1>0, <1>1, <1>6 DEF Hunted, Candidate, FindLabels, DestroyLabels
<1>13. CASE pc[t] = "findEnter"
  <2>1. garbage' = garbage /\ stk'[t] = stk[t]
    BY <1>13, <1>0 DEF SearchMoves
  <2>2. ~Marked(t, x)
    <3> SUFFICES ASSUME NEW f \in DOMAIN Below(t), Below(t)[f].obj = x PROVE FALSE
      BY DEF Marked
    <3>1. CASE n = 1
      <4>1. Below(t) = SubSeq(s, 1, 0)
        BY <1>2, <1>3, <3>1 DEF Below
      <4>2. SubSeq(s, 1, 0) = <<>>
        OBVIOUS
      <4>3. DOMAIN Below(t) = {}
        BY <4>1, <4>2
      <4> QED
        BY <4>3
    <3>2. CASE n # 1
      <4>1. n > 1
        BY <3>2
      <4>2. PICK b \in Seq(Frames) : b = SubSeq(s, 1, n - 1) /\ Len(b) = n - 1 /\ \A g \in 1 .. n - 1 : b[g] = s[g]
        BY <4>1, <1>3, StackBelow, Zenon
      <4>3. Below(t) = b
        BY <4>2, <1>2, <1>3 DEF Below
      <4>4. f \in 1 .. n - 1
        BY <4>2, <4>3, LenProperties
      <4>5. s[f].obj = x /\ f \in 1 .. n /\ n \in 1 .. n /\ f < n
        BY <4>2, <4>3, <4>4
      <4>6. Rank[s[n].obj] < Rank[s[f].obj]
        BY <4>5, <1>3, <1>6 DEF Searched, SearchRanked
      <4>7. Rank[x] < Rank[x] /\ Rank[x] \in Nat
        BY <4>5, <4>6, <1>4, <1>5, RankAscends
      <4> QED
        BY <4>7
    <3> QED
      BY <3>1, <3>2
  <2>3. pc'[t] = "findFlag"
    BY <2>2, <1>13, <1>0, <1>4, <1>5, <1>7 DEF SearchMoves
  <2> QED
    BY <2>1, <2>3, <1>2, <1>6, <1>10, <1>11 DEF FindLabels
<1>14. CASE pc[t] = "findFlag"
  BY <1>14, <1>0, <1>4, <1>5, <1>2, <1>6, <1>10, <1>11, <1>12 DEF SearchMoves, FindLabels
<1>15. CASE pc[t] = "findScan"
  <2>1. garbage' = garbage
    BY <1>15, <1>0 DEF SearchMoves
  <2>2. CASE k > Len(refBy[x])
    <3>1. pc'[t] = "findReturn" /\ stk'[t] = stk[t]
      BY <2>2, <1>15, <1>0, <1>4, <1>5 DEF SearchMoves
    <3>2. \A j \in DOMAIN refBy[x] : j \in 1 .. k - 1
      BY <2>2, <1>8
    <3>3. Condemned(x)
      BY <3>2, <1>7 DEF Condemned
    <3> QED
      BY <2>1, <3>1, <3>3, <1>2, <1>6, <1>10, <1>12
  <2>3. CASE ~(k > Len(refBy[x]))
    <3>1. PICK r \in Objects : r = refBy[x][k] /\ k \in DOMAIN refBy[x]
      BY <2>3, <1>8
    <3>2. \/ pc'[t] = "findReturn" /\ col'[t].found = TRUE /\ stk'[t] = stk[t]
          \/ pc'[t] = "findDescend" /\ ~(rootCount[r] > 0) /\ stk'[t] = Looking(s, r)
      BY <2>3, <3>1, <1>15, <1>0, <1>2, <1>4, <1>5 DEF SearchMoves
    <3>3. CASE pc'[t] = "findReturn" /\ col'[t].found = TRUE /\ stk'[t] = stk[t]
      BY <3>3, <2>1, <1>2, <1>6, <1>10, <1>18, Zenon
    <3>4. CASE pc'[t] = "findDescend" /\ ~(rootCount[r] > 0) /\ stk'[t] = Looking(s, r)
      <4>1. PICK z \in Seq(Frames) : /\ z = Looking(s, r) /\ Len(z) = n
                                     /\ \A f \in 1 .. n - 1 : z[f] = s[f]
                                     /\ z[n].obj = x /\ z[n].k = k /\ z[n].ref = r
        <5>1. PICK z : z = Looking(s, r)
          OBVIOUS
        <5>2. /\ z \in Seq(Frames) /\ Len(z) = n /\ \A f \in 1 .. n - 1 : z[f] = s[f]
              /\ z[n].obj = s[n].obj /\ z[n].k = s[n].k /\ z[n].ref = r
          BY <5>1, <1>3, LookingFacts
        <5> QED
          BY <5>1, <5>2, <1>4, <1>5, Zenon
      <4>2. Searched(z, refBy, rootCount, garbage)
        <5>1. z[n].obj = s[n].obj /\ s[n].obj = x
          BY <4>1, <1>4, <1>5
        <5>2. \A j \in 1 .. z[n].k - 1 : j \in DOMAIN refBy[s[n].obj] /\ refBy[s[n].obj][j] \in garbage
          BY <4>1, <5>1, <1>7
        <5>3. Searched(s, refBy, rootCount, garbage) /\ Len(s) = n
          BY <1>3, <1>6
        <5>4. Len(z) = n /\ (\A f \in 1 .. n - 1 : z[f] = s[f]) /\ z[n].obj = s[n].obj
          BY <4>1, <5>1
        <5> QED
          BY <5>2, <5>3, <5>4, SearchGetsOn, Zenon
      <4>3. rootCount[r] = 0
        BY <3>4, <1>b
      <4>4. Top(t)' = z[n]
        BY <3>4, <4>1 DEF Top
      <4> QED
        BY <2>1, <3>1, <3>4, <4>1, <4>2, <4>3, <4>4, <1>0, <1>1, <1>6, <1>10
           DEF Hunted, Candidate, FindLabels, DestroyLabels
    <3> QED
      BY <3>2, <3>3, <3>4, Zenon
  <2> QED
    BY <2>2, <2>3
<1>16. CASE pc[t] \in {"findDescend", "findLock"}
  <2>1. garbage' = garbage
    BY <1>16, <1>0 DEF SearchMoves
  <2>2. PICK r \in Objects : r = top.ref /\ k \in DOMAIN refBy[x] /\ r = refBy[x][k] /\ rootCount[r] = 0 /\ Rank[r] < Rank[x]
    BY <1>16, <1>4, <1>5, <1>8 DEF Hunted
  <2>3. CASE pc'[t] = "findScan"
    <3>1. r \in garbage /\ stk'[t] = Advance(s)
      BY <2>2, <2>3, <1>16, <1>0, <1>2, <1>4, Zenon DEF SearchMoves
    <3>2. Searched(Advance(s), refBy, rootCount, garbage)
      BY <3>1, <2>2, <1>3, <1>4, <1>5, <1>6, SearchAdvances, Zenon
    <3> QED
      BY <2>1, <2>3, <3>1, <3>2, <1>10, <1>11 DEF FindLabels
  <2>4. CASE pc'[t] = "findLock"
    <3>1. stk'[t] = stk[t] /\ Top(t)' = top
      BY <2>4, <1>16, <1>0, <1>2, <1>4 DEF SearchMoves, Top
    <3> QED
      BY <2>1, <2>2, <2>4, <3>1, <1>0, <1>1, <1>2, <1>5, <1>6, <1>10
         DEF Hunted, Candidate, FindLabels, DestroyLabels
  <2>5. CASE pc'[t] = "findEnter"
    <3>1. stk'[t] = Append(s, Frame(r))
      BY <2>2, <2>5, <1>16, <1>0, <1>2, <1>4, Zenon DEF SearchMoves
    <3>2. Searched(Append(s, Frame(r)), refBy, rootCount, garbage)
      BY <2>2, <1>3, <1>4, <1>5, <1>6, SearchDescends, Zenon
    <3> QED
      BY <2>1, <2>5, <3>1, <3>2, <1>10, <1>11 DEF FindLabels
  <2>6. CASE pc'[t] = "findReturn"
    BY <2>6, <1>16, <1>0, <2>1, <1>2, <1>6, <1>10, <1>18, Zenon DEF SearchMoves
  <2> QED
    BY <2>3, <2>4, <2>5, <2>6, <1>16, <1>0 DEF SearchMoves
<1>19. ASSUME n # 1
       PROVE  \E b \in Seq(Frames) :
                 /\ b = Below(t)
                 /\ Searched(b, refBy, rootCount, garbage)
                 /\ Len(b) = n - 1 /\ n - 1 \in Nat \ {0}
                 /\ b[n - 1] = s[n - 1]
                 /\ s[n - 1].k \in DOMAIN refBy[s[n - 1].obj] /\ s[n].obj = refBy[s[n - 1].obj][s[n - 1].k]
  <2>1. n > 1
    BY <1>19
  <2>2. PICK b : b = Under(s)
    OBVIOUS
  <2>3. /\ Searched(b, refBy, rootCount, garbage) /\ b \in Seq(Frames)
        /\ Len(b) = n - 1 /\ n - 1 \in Nat \ {0}
        /\ b[n - 1] = s[n - 1]
        /\ s[n - 1].k \in DOMAIN refBy[s[n - 1].obj] /\ s[n].obj = refBy[s[n - 1].obj][s[n - 1].k]
    BY <2>1, <2>2, <1>3, <1>6, SearchReturns
  <2>4. Below(t) = b
    BY <2>2, <1>2 DEF Below, Under
  <2> QED
    BY <2>3, <2>4
<1>17. CASE pc[t] = "findReturn"
  <2>0. col[t].found \/ x \in garbage \/ Condemned(x)
    BY <1>17, <1>4, <1>5 DEF Hunted
  <2>1. CASE n = 1
    <3>1. /\ garbage' = garbage /\ pc'[t] \in {"colRelease", "colUpgrade"}
          /\ pc'[t] = "colUpgrade" => ~col[t].found
      BY <2>1, <1>17, <1>0, <1>2, <1>3 DEF SearchMoves
    <3>2. x = Candidate(t)
      BY <2>1, <1>0, <1>2, <1>4, <1>5
    <3>3. Condemned(x)' <=> Condemned(x)
      BY <1>0, <3>1 DEF Condemned
    <3> QED
      BY <2>0, <3>1, <3>2, <3>3, <1>0, <1>1, <1>6, <1>10
         DEF Hunted, Candidate, FindLabels, DestroyLabels, Condemned
  <2>2. CASE n # 1 /\ col[t].found
    <3>1. PICK b \in Seq(Frames) : b = Below(t) /\ Searched(b, refBy, rootCount, garbage)
      BY <2>2, <1>19
    <3>2. garbage' = garbage /\ pc'[t] = "findReturn" /\ stk'[t] = b /\ col'[t].found
      BY <3>1, <2>2, <1>17, <1>0, <1>2, <1>3, Zenon DEF SearchMoves
    <3> QED
      BY <3>1, <3>2, <1>10, <1>0, <1>1, <1>6 DEF Hunted, Candidate, FindLabels, DestroyLabels
  <2>3. CASE n # 1 /\ ~col[t].found
    <3>1. garbage' = garbage \cup {x} /\ pc'[t] = "findRelease" /\ stk'[t] = stk[t]
      BY <2>3, <1>17, <1>0, <1>2, <1>3, <1>4, <1>5 DEF SearchMoves
    <3>2. x \in garbage \/ Condemned(x)
      BY <2>0, <2>3
    <3>3. Searched(stk'[t], refBy, rootCount, garbage')
      BY <3>1, <1>2, <1>6, SearchGrows
    <3>4. Gone' = Gone \cup {x}
      BY <3>1, <1>0 DEF Gone, Dead, Born
    <3>5. x \in Born
      <4>1. PICK y \in Objects : y = s[n - 1].obj
        <5>1. n - 1 \in 1 .. n /\ s # <<>>
          BY <2>3, <1>0, <1>2
        <5>2. s[n - 1] \in Frames
          BY <5>1, <1>3, StackFacts
        <5> QED
          BY <5>2 DEF Frames
      <4>2. \A j \in DOMAIN refBy[y] : refBy[y][j] \in Born
        BY <1>a, <1>c, ReferrersAreOwners
      <4> QED
        BY <4>1, <4>2, <2>3, <1>19, <1>4, <1>5
    <3>6. Keeps(field, Gone) /\ \A o \in Gone : rootCount[o] = 0
      BY <1>1, <1>a DEF Spared
    <3>7. Keeps(field, Gone \cup {x})
      <4>1. CASE x \in garbage
        BY <4>1, <3>6, Zenon DEF Gone
      <4>2. CASE Condemned(x)
        <5>1. \A p \in Objects : Cardinality(At(refBy[x], p)) = Cardinality(Holding(field, x, p))
          BY <1>1, <1>a, <1>17, SomeSlots DEF Ledger, Tally, Referring, Pending, Holding
        <5>2. PICK list \in Seq(Objects) : list = refBy[x]
          BY <1>8
        <5>3. \A j \in DOMAIN list : list[j] \in Gone
          BY <5>2, <4>2 DEF Condemned, Gone
        <5> QED
          BY <5>1, <5>2, <5>3, <3>6, <1>b, KeepsMore, Zenon
      <4> QED
        BY <4>1, <4>2, <3>2
    <3>8. Spared(t)'
      BY <3>1, <3>4, <3>5, <3>7, <1>1, <3>6, <1>7, <1>9
    <3>9. Top(t)' = top
      BY <3>1, <1>4 DEF Top
    <3> QED
      BY <3>1, <3>3, <3>8, <3>9, <1>0, <1>1, <1>5, <1>6 DEF Hunted, Candidate, FindLabels, DestroyLabels
  <2> QED
    BY <2>1, <2>2, <2>3
<1>20. CASE pc[t] = "findRelease"
  <2>1. n # 1 /\ garbage' = garbage /\ pc'[t] = "findScan" /\ stk'[t] = Advance(Below(t))
    BY <1>20, <1>0, <1>2, <1>3 DEF SearchMoves
  <2>2. PICK b \in Seq(Frames) :
           /\ b = Below(t)
           /\ Searched(b, refBy, rootCount, garbage)
           /\ Len(b) = n - 1 /\ n - 1 \in Nat \ {0}
           /\ b[n - 1] = s[n - 1]
           /\ s[n - 1].k \in DOMAIN refBy[s[n - 1].obj] /\ s[n].obj = refBy[s[n - 1].obj][s[n - 1].k]
    BY <2>1, <1>19
  <2>3. PICK m \in Nat \ {0} : m = n - 1
    BY <2>2
  <2>4. x \in garbage
    BY <1>20, <1>4, <1>5 DEF Hunted
  <2>5. Len(b) = m /\ b[m].k \in DOMAIN refBy[b[m].obj] /\ refBy[b[m].obj][b[m].k] \in garbage
    BY <2>2, <2>3, <2>4, <1>4, <1>5
  <2>6. Searched(Advance(b), refBy, rootCount, garbage)
    BY <2>2, <2>5, SearchAdvances, Zenon
  <2> QED
    BY <2>1, <2>2, <2>6, <1>10, <1>11 DEF FindLabels
<1> QED
  BY <1>0, <1>13, <1>14, <1>15, <1>16, <1>17, <1>20 DEF FindLabels

LEMMA OtherWalksSpared ==
    ASSUME RootInv, RootInv', NEW t \in Threads, Threads = {t}, Placed(t), Placed(t)',
           Spared(t), Hunted(t),
           FastNext(t) \/ FastEnd(t) \/ NewLarge(t) \/ Destroy(t) \/ \E p \in Lists : CollectBegin(t, p)
    PROVE  Spared(t)' /\ Hunted(t)'
<1>0. /\ Still(t) /\ ~Severed(t) /\ ~Severed(t)'
      /\ pc = [u \in Threads |-> pc[u]] /\ col = [u \in Threads |-> col[u]]
      /\ WalkPlaces(t) /\ HeapTypes /\ lookup \subseteq Born /\ allocated \in Nat
      /\ rootCount \in [Objects -> Nat]
      /\ \A o \in Objects \ Born : rootCount[o] = 0
  BY OtherWalksAreStill, GraphAssumption DEF Placed, RootInv, NoHandlesAhead, HandleTypes
<1>1. Counting(t) = field /\ Counting(t)' = field
  BY <1>0 DEF Still, Counting, SetLabels, DestroyLabels
<1> USE DEF headerVars, heapVars, implVars, clientVars, opVars, colVars, Goto, StartCol, Idle
<1>2. /\ pc[t] \in {"fastNext", "idle"} /\ garbage' = garbage
      /\ pc'[t] \in {"fastNext", "desUnregister", "tearSever", "colId", "idle"}
  BY <1>0, Zenon DEF FastNext, FastEnd, Abort, NewLarge, Destroy, CollectBegin
<1>3. /\ Keeps(field, Gone) /\ (\A o \in Gone : rootCount[o] = 0) /\ garbage \subseteq Born
  BY <1>0, <1>1, <1>2 DEF Spared, GoingDown
<1>4. ASSUME Gone' = Gone, \A o \in Gone : rootCount'[o] = 0, pc'[t] # "tearSever"
      PROVE  Spared(t)'
  BY <1>0, <1>2, <1>3, <1>1, <1>4 DEF Still, PinLabels, SetLabels, Spared, GoingDown
<1>5. ASSUME pc'[t] # "desUnregister" PROVE Hunted(t)'
  BY <1>2, <1>5 DEF Hunted, CandidateLabels, FindLabels, DestroyLabels, ScanLabels
<1>6. CASE FastNext(t)
  <2>1. UNCHANGED <<rootCount, lookup, allocated>> /\ pc[t] = "fastNext" /\ pc'[t] # "tearSever"
    BY <1>6, <1>0, Zenon DEF FastNext, Abort
  <2>2. Gone' = Gone /\ Born' = Born
    BY <2>1, <1>2 DEF Gone, Dead, Born
  <2>3. Spared(t)'
    BY <2>1, <1>3, <2>2, <1>4
  <2>4. CASE pc'[t] = "desUnregister"
    <3>1. PICK o : o = allocations[Large][col[t].i]
      OBVIOUS
    <3>2. PICK c : c = [col[t] EXCEPT !.obj = o]
      BY Zenon
    <3>3. col'[t] = c /\ o \in garbage
      BY <2>1, <2>4, <3>1, <3>2, <1>6, <1>0, Zenon DEF FastNext, Abort
    <3>4. col[t] \in Walks
      BY <2>1, <1>0 DEF WalkPlaces, ListLabels
    <3>5. c.obj = o
      BY <3>2, <3>4 DEF Walks
    <3>6. rootCount[o] = 0 /\ o \in Born
      BY <3>3, <1>3 DEF Gone
    <3> QED
      BY <2>1, <2>2, <2>3, <2>4, <3>3, <3>5, <3>6, <1>2 DEF Hunted, Candidate, FindLabels
  <2> QED
    BY <2>3, <2>4, <1>5
<1>7. CASE FastEnd(t)
  <2>1. pc'[t] = "idle"
    BY <1>7, <1>0 DEF FastEnd
  <2>2. CASE UNCHANGED <<rootCount, heapVars, roots>>
    BY <2>2, <1>2, <1>3, <2>1, <1>4, <1>5 DEF Gone, Dead, Born
  <2>3. CASE ~UNCHANGED <<rootCount, heapVars, roots>>
    <3>1. PICK o : o = allocated + 1
      OBVIOUS
    <3>2. allocated' = o /\ lookup' = lookup \cup {o} /\ rootCount' = [rootCount EXCEPT ![o] = 1]
      BY <1>7, <2>3, <3>1 DEF FastEnd, RegisterObject
    <3>3. Born' = Born \cup {o} /\ o \notin Born
      BY <3>1, <3>2, <1>0 DEF Born
    <3>4. Gone' = Gone /\ o \notin Gone
      BY <3>2, <3>3, <1>0, <1>2, <1>3 DEF Gone, Dead
    <3>5. \A x \in Gone : rootCount'[x] = 0
      BY <3>2, <3>4, <1>0, <1>3
    <3> QED
      BY <2>1, <3>4, <3>5, <1>4, <1>5
  <2> QED
    BY <2>2, <2>3
<1>8. CASE NewLarge(t) \/ Destroy(t) \/ \E p \in Lists : CollectBegin(t, p)
  <2>1. UNCHANGED <<rootCount, lookup, allocated, roots, roPins, rwPins>> /\ pc[t] = "idle" /\ pc'[t] # "desUnregister"
    BY <1>8, <1>0 DEF NewLarge, Destroy, CollectBegin
  <2>2. Gone' = Gone /\ Hunted(t)'
    BY <2>1, <1>2, <1>5 DEF Gone, Dead, Born
  <2>3. \A o \in Gone : rootCount'[o] = 0
    BY <2>1, <1>3
  <2>4. CASE pc'[t] = "tearSever"
    <3>1. Destroy(t)
      BY <1>8, <2>4, <1>0 DEF NewLarge, CollectBegin
    <3>2. \A o \in Objects : rootCount[o] = 0
      <4> SUFFICES ASSUME NEW o \in Born, o \in Objects PROVE rootCount[o] = 0
        BY <1>0
      <4>1. /\ roots[t][o] \in Nat /\ Handles(t, o) = 0
            /\ rootCount[o] = RootsTo(o) + Cardinality(Pinners(o)) + Cardinality(Droppers(o))
            /\ MaxRoots \in Nat
        BY <3>1, GraphAssumption DEF Destroy, RootInv, HandleTypes, CountsExact
      <4>2. roots[t][o] = 0 /\ ~Pins(t, o)
        BY <4>1 DEF Handles
      <4>3. Pinners(o) = {}
        BY <4>2 DEF Pinners, Pins
      <4>4. Droppers(o) = {}
        BY <2>1 DEF Droppers, DropLabels
      <4>5. RootsTo(o) = Cardinality(Held(roots, o))
        BY DEF RootsTo, RootHandles, Held
      <4>6. Held(roots, o) = {}
        BY <4>1, <4>2 DEF Held
      <4>7. Cardinality(Pinners(o)) = 0 /\ Cardinality(Droppers(o)) = 0 /\ RootsTo(o) = 0
        BY <4>3, <4>4, <4>5, <4>6, FS_EmptySet
      <4> QED
        BY <4>1, <4>7
    <3>3. Keeps(Counting(t)', Gone')
      BY <2>2, <1>1, <1>3
    <3>4. \A o \in Objects : rootCount'[o] = 0
      BY <3>2, <2>1
    <3> QED
      BY <2>2, <2>3, <2>4, <3>3, <3>4 DEF Spared, GoingDown, PinLabels, SetLabels
  <2>5. CASE pc'[t] # "tearSever"
    BY <2>2, <2>3, <2>5, <1>4
  <2> QED
    BY <2>4, <2>5
<1> QED
  BY <1>6, <1>7, <1>8

LEMMA SetFieldSpared ==
    ASSUME RootInv, NEW t \in Threads, Threads = {t}, Placed(t), Placed(t)', Spared(t),
           NEW o \in Born, NEW s \in Slots, NEW x \in {Null} \cup Objects, SetField(t, o, s, x)
    PROVE  Spared(t)' /\ Hunted(t)'
<1>0. pc = [u \in Threads |-> pc[u]] /\ loc = [u \in Threads |-> loc[u]] /\ HeapTypes
  BY DEF RootInv, HandleTypes, Placed
<1> USE DEF headerVars, heapVars, implVars, clientVars, opVars, colVars, Goto, StartOp, Idle
<1>1. /\ UNCHANGED <<rootCount, garbage, field, lookup, allocated, col>> /\ pc[t] = "idle"
      /\ pc'[t] \in {"setUpgrade", "setCheck"} /\ loc'[t].new = x
  BY <1>0 DEF SetField
<1>2. Gone' = Gone /\ Born' = Born
  BY <1>1 DEF Gone, Dead, Born
<1>3. x \notin Gone
  <2>1. CASE x = Null
    BY <2>1, <1>0, GoneFacts
  <2>2. CASE x # Null
    BY <2>2, <1>1, NamedIsSpared, Zenon DEF SetField, Sources, Pins
  <2> QED
    BY <2>1, <2>2
<1>4. ~Severed(t) /\ ~Severed(t)' /\ ~GoingDown(t) /\ ~GoingDown(t)'
  BY <1>1 DEF Severed, GoingDown, ListLabels
<1>5. Counting(t) = field /\ Counting(t)' = field
  BY <1>1 DEF Counting
<1>6. Hunted(t)'
  BY <1>1 DEF Hunted, CandidateLabels, FindLabels, DestroyLabels, ScanLabels
<1> QED
  BY <1>1, <1>2, <1>3, <1>4, <1>5, <1>6 DEF Spared, PinLabels

\* Nothing is lost when a field gets a value that is not gone.
LEMMA KeepsStored ==
    ASSUME NEW f \in [Objects -> [Slots -> Objects \cup {Null}]], NEW G, Keeps(f, G),
           NEW p \in Objects, NEW s \in Slots, NEW z \in Objects \cup {Null}, z \notin G,
           NEW g, g = Stored(f, p, s, z)
    PROVE  Keeps(g, G)
  BY FieldChanged DEF Stored, Keeps

LEMMA AssignSpared ==
    ASSUME RootInv, NEW t \in Threads, Threads = {t}, Placed(t), Placed(t)', Ledger(t), Ledger(t)',
           Spared(t), Assign(t)
    PROVE  Spared(t)' /\ Hunted(t)'
<1>0. /\ pc[t] \in SetLabels /\ pc'[t] \in SetLabels \cup {Idle}
      /\ loc[t].obj \in Objects /\ loc[t].slot \in Slots
      /\ loc[t].new \in Objects \cup {Null} /\ loc[t].old \in Objects \cup {Null}
      /\ AssignMoves(t)
      /\ UNCHANGED <<rootCount, allocated, lookup>>
      /\ field \in [Objects -> [Slots -> Objects \cup {Null}]]
      /\ field' \in [Objects -> [Slots -> Objects \cup {Null}]]
      /\ refBy \in [Objects -> Seq(Objects)] /\ Upwards(t)
  BY AssignSteps DEF Placed, HeapTypes, Ledger
<1>1. ~Severed(t) /\ ~Severed(t)' /\ ~GoingDown(t) /\ ~GoingDown(t)'
  BY <1>0 DEF Severed, GoingDown, SetLabels, ListLabels, Idle
<1>2. Hunted(t)'
  BY <1>0 DEF Hunted, CandidateLabels, FindLabels, DestroyLabels, ScanLabels, SetLabels, Idle
<1> SUFFICES Spared(t)'
  BY <1>2
<1>3. /\ loc[t].new \notin Gone /\ Keeps(Counting(t), Gone) /\ (\A o \in Gone : rootCount[o] = 0)
      /\ garbage \subseteq Born
  BY <1>0, <1>1 DEF Spared
<1>4. pc'[t] \in SetLabels => loc'[t].new = loc[t].new /\ loc'[t].obj = loc[t].obj /\ loc'[t].slot = loc[t].slot
  BY <1>0 DEF AssignMoves, AssignLeaves, AssignLocals, SetLabels, Idle
<1>5. Born' = Born
  BY <1>0 DEF Born
<1>6. PICK p \in Objects, s \in Slots, z \in Objects \cup {Null} :
         p = loc[t].obj /\ s = loc[t].slot /\ z = loc[t].new
  BY <1>0, Zenon
<1>7. Keeps(Counting(t)', Gone)
  <2>1. CASE pc[t] \in {"setUpgrade", "setCheck", "setNewLock", "setOldLock", "setDowngrade"}
    BY <1>0, <2>1, <1>3, Zenon DEF AssignMoves, AssignLeaves, Idle, Counting, SetLabels
  <2>2. CASE pc[t] \in {"setAdd", "setRemove"}
    <3>1. field' = field /\ Counting(t) = field
      BY <1>0, <2>2, Zenon DEF AssignMoves, Counting
    <3>2. CASE pc'[t] \in {"setOldRelease", "setStore"}
      BY <3>1, <3>2, <1>4, <1>6, <1>0, <1>3, KeepsStored, Zenon DEF Counting, Stored, SetLabels
    <3>3. CASE pc'[t] \notin {"setOldRelease", "setStore"}
      BY <3>1, <3>3, <1>0, <1>3, Zenon DEF Counting, SetLabels, Idle
    <3> QED
      BY <3>2, <3>3
  <2>3. CASE pc[t] = "setOldRelease"
    BY <1>0, <2>3, <1>4, <1>3, Zenon DEF AssignMoves, Counting, SetLabels
  <2>4. CASE pc[t] = "setStore"
    BY <1>0, <2>4, <1>3, Zenon DEF AssignMoves, AssignLeaves, Counting, Idle
  <2> QED
    BY <2>1, <2>2, <2>3, <2>4, <1>0 DEF SetLabels
<1>8. ASSUME Keeps(Counting(t)', Gone'), garbage' \subseteq Born, \A o \in Gone' : rootCount[o] = 0,
             loc[t].new \notin Gone'
      PROVE  Spared(t)'
  BY <1>8, <1>0, <1>1, <1>4, <1>5 DEF Spared, PinLabels, SetLabels, Idle
<1>9. CASE garbage' = garbage
  BY <1>0, <1>5, <1>9, <1>3, <1>7, <1>8 DEF Gone, Dead
<1>10. CASE garbage' # garbage
  <2>1. pc[t] = "setRemove" /\ Unreference(t, loc[t].obj, loc[t].old) /\ Refers(loc[t].obj, loc[t].old)
        /\ pc'[t] \in {"setOldRelease", "setStore"}
    BY <1>0, <1>10, Zenon DEF AssignMoves, SetLabels
  <2>2. PICK old \in Objects : old = loc[t].old /\ old \in Born /\ old # z
    BY <2>1, <1>0, <1>6 DEF Placed, OpPlaces, Upwards
  <2>3. PICK rest : rest = SwapRemove(refBy[old], p)
    OBVIOUS
  <2>4. refBy'[old] = rest /\ garbage' = garbage \cup {old} /\ rest = <<>> /\ rootCount[old] = 0
    BY <2>1, <2>2, <2>3, <1>0, <1>6, <1>10 DEF Unreference
  <2>5. Gone' = Gone \cup {old}
    BY <2>4, <1>0, <1>5 DEF Gone, Dead
  <2>6. PICK g \in [Objects -> [Slots -> Objects \cup {Null}]] : g = Counting(t)'
    BY <2>1, <1>0, <1>4, <1>6, FieldChanged, Zenon DEF AssignMoves, Counting, Stored, SetLabels
  <2>7. \A q \in Objects : Cardinality(At(rest, q)) = Cardinality(Holding(g, old, q))
    BY <1>1, <2>1, <2>4, <2>6, SomeSlots DEF Ledger, Pending, Tally, Referring, Holding
  <2>8. rest \in Seq(Objects) /\ \A j \in DOMAIN rest : rest[j] \in Gone
    BY <2>4
  <2>9. Keeps(g, Gone \cup {old})
    BY <2>6, <2>7, <2>8, <1>7, KeepsMore, Zenon
  <2>10. loc[t].new \notin Gone'
    BY <2>2, <2>5, <1>3, <1>6
  <2> QED
    BY <2>2, <2>4, <2>5, <2>6, <2>9, <2>10, <1>3, <1>8
<1> QED
  BY <1>9, <1>10

LEMMA DestroySpared ==
    ASSUME RootInv, NEW t \in Threads, Threads = {t}, Placed(t), Placed(t)', Ledger(t), Ledger(t)',
           Spared(t), Hunted(t), DestroyObject(t)
    PROVE  Spared(t)' /\ Hunted(t)'
<1>0. /\ pc[t] \in DestroyLabels /\ col[t] \in Walks /\ Candidate(t) \in Objects
      /\ pc[t] \in {"desClear", "desRelease"} => ~FieldsDone(t) /\ FieldValue(t) \in Objects
      /\ DestroyMoves(t)
      /\ UNCHANGED <<rootCount, allocated>>
      /\ field \in [Objects -> [Slots -> Objects \cup {Null}]]
      /\ refBy \in [Objects -> Seq(Objects)] /\ Upwards(t) /\ lookup \subseteq Born
      /\ col[t].back \in Backs
      /\ pc[t] = "desClear" => Refers(Candidate(t), FieldValue(t))
  BY DestroySteps, DestroyedRefers, Zenon DEF Placed, HeapTypes, Ledger, RootInv, NoHandlesAhead, Walks
<1>1. PICK c \in Objects : c = Candidate(t)
  BY <1>0
<1>2. /\ pc'[t] \in DestroyLabels \cup Backs
      /\ pc'[t] \in DestroyLabels => Candidate(t)' = c /\ pc'[t] # "desUnregister"
      /\ col'[t].back = col[t].back
      /\ pc[t] # "desUnregister" => lookup' = lookup
      /\ pc[t] \notin {"desUnregister", "desClear"} => garbage' = garbage
      /\ pc'[t] = "desRelease" <=> pc[t] = "desClear"
  BY <1>0, <1>1 DEF DestroyMoves, WalkLocals, DestroyLabels, Candidate, Backs
<1>3. Born' = Born
  BY <1>0 DEF Born
<1>4. Severed(t)' <=> Severed(t)
  BY <1>0, <1>2 DEF Severed, DestroyLabels, ListLabels, Backs
<1>5. /\ rootCount[c] = 0 /\ (~Severed(t) => c \in Born)
      /\ pc[t] = "desUnregister" => Severed(t) \/ c \in garbage \/ Condemned(c)
      /\ pc[t] # "desUnregister" => c \in garbage
  BY <1>0, <1>1 DEF Hunted, CandidateLabels, Severed, DestroyLabels, ListLabels
<1>6. garbage \subseteq garbage' /\ c \in garbage'
  <2>1. CASE pc[t] = "desUnregister"
    BY <2>1, <1>0, <1>1 DEF DestroyMoves
  <2>2. CASE pc[t] = "desClear"
    BY <2>2, <1>0, <1>5 DEF DestroyMoves, Unreference
  <2>3. CASE pc[t] \notin {"desUnregister", "desClear"}
    BY <2>3, <1>2, <1>5
  <2> QED
    BY <2>1, <2>2, <2>3
<1>7. Hunted(t)'
  BY <1>0, <1>2, <1>3, <1>4, <1>5, <1>6
     DEF Hunted, CandidateLabels, FindLabels, ScanLabels, DestroyLabels, Severed, ListLabels, Backs
<1> SUFFICES Spared(t)'
  BY <1>7
<1>8. pc'[t] \notin PinLabels \cup SetLabels \cup {"dropFlag", "tearSever"}
  BY <1>2 DEF PinLabels, SetLabels, DestroyLabels, Backs
<1>9. CASE Severed(t)
  <2>1. \A o \in Objects : rootCount[o] = 0
    BY <1>9 DEF Spared, GoingDown
  <2>2. \A o \in Gone' : rootCount'[o] = 0
    <3>1. garbage' \subseteq Objects /\ lookup' \subseteq lookup /\ Born \subseteq Objects
      BY <1>0, <1>2, GoneFacts, Zenon DEF DestroyMoves, Placed, HeapTypes
    <3> QED
      BY <3>1, <2>1, <1>0, <1>3 DEF Gone, Dead
  <2>3. \A o \in Objects : rootCount'[o] = 0
    BY <2>1, <1>0
  <2> QED
    BY <2>2, <2>3, <1>4, <1>8, <1>9 DEF Spared, GoingDown
<1>10. CASE ~Severed(t)
  <2>1. ~GoingDown(t) /\ ~GoingDown(t)'
    BY <1>0, <1>4, <1>8, <1>10 DEF GoingDown, DestroyLabels
  <2>2. Keeps(Counting(t), Gone) /\ (\A o \in Gone : rootCount[o] = 0) /\ garbage \subseteq Born
    BY <1>10, <2>1 DEF Spared
  <2>3. ASSUME Keeps(Counting(t)', Gone'), \A o \in Gone' : rootCount[o] = 0, garbage' \subseteq Born
        PROVE  Spared(t)'
    BY <2>3, <2>1, <1>0, <1>3, <1>8 DEF Spared
  <2>4. CASE pc[t] = "desUnregister"
    <3>1. /\ garbage' = garbage \cup {c} /\ lookup' = lookup \ {c} /\ field' = field /\ pc'[t] = "desField"
      BY <2>4, <1>0, <1>1 DEF DestroyMoves
    <3>2. Gone' = Gone \cup {c} /\ Counting(t) = field /\ Counting(t)' = field
      BY <2>4, <3>1, <1>3, <1>5, <1>10 DEF Gone, Dead, Counting
    <3>3. Keeps(field, Gone \cup {c})
      <4>1. CASE c \in garbage
        BY <4>1, <3>2, <2>2 DEF Gone
      <4>2. CASE Condemned(c)
        <5>1. \A p \in Objects : Cardinality(At(refBy[c], p)) = Cardinality(Holding(field, c, p))
          BY <2>4, <3>2, <1>10, SomeSlots DEF Ledger, Tally, Referring, Pending, Holding
        <5>2. PICK list \in Seq(Objects) : list = refBy[c]
          BY <1>0
        <5>3. \A j \in DOMAIN list : list[j] \in Gone
          BY <5>2, <4>2 DEF Condemned, Gone
        <5>4. Keeps(field, Gone)
          BY <3>2, <2>2
        <5> QED
          BY <5>1, <5>2, <5>3, <5>4, <1>0, KeepsMore, Zenon
      <4> QED
        BY <4>1, <4>2, <2>4, <1>5, <1>10
    <3>4. Keeps(Counting(t)', Gone') /\ garbage' \subseteq Born
      BY <3>1, <3>2, <3>3, <2>2, <1>5, <1>10
    <3>5. \A o \in Gone' : rootCount[o] = 0
      BY <3>2, <2>2, <1>5
    <3> QED
      BY <3>4, <3>5, <2>3
  <2>5. CASE pc[t] = "desClear"
    <3>1. PICK s \in Slots, v \in Objects : s = col[t].slot /\ v = FieldValue(t) /\ v = field[c][s] /\ v \in Born
      BY <2>5, <1>0, <1>1 DEF FieldsDone, FieldValue, Objects, Null, Upwards
    <3>2. /\ Unreference(t, c, v) /\ pc'[t] = "desRelease" /\ col'[t] = col[t] /\ field' = field /\ lookup' = lookup
      BY <2>5, <3>1, <1>0, <1>1 DEF DestroyMoves
    <3>3. PICK f \in [Objects -> [Slots -> Objects \cup {Null}]] : f = field /\ f = Counting(t)
      BY <2>5, <1>0 DEF Counting
    <3>4. PICK g : g = Stored(f, c, s, Null)
      OBVIOUS
    <3>5. g = Counting(t)'
      BY <3>1, <3>2, <3>3, <3>4, <1>1, Zenon DEF Counting, Stored, Candidate
    <3>6. g \in [Objects -> [Slots -> Objects \cup {Null}]]
      BY <3>4, FieldChanged DEF Stored
    <3>7. Keeps(g, Gone)
      BY GoneFacts, <3>3, <2>2, <3>4, KeepsStored DEF Placed
    <3>8. CASE garbage' = garbage
      BY <3>2, <3>8, <1>3, <3>5, <3>7, <2>2, <2>3 DEF Gone, Dead
    <3>9. CASE garbage' # garbage
      <4>1. PICK rest : rest = SwapRemove(refBy[v], c)
        OBVIOUS
      <4>2. refBy'[v] = rest /\ garbage' = garbage \cup {v} /\ rest = <<>> /\ rootCount[v] = 0
        BY <3>2, <3>9, <4>1, <1>0 DEF Unreference
      <4>3. Gone' = Gone \cup {v}
        BY <4>2, <3>2, <1>3 DEF Gone, Dead
      <4>4. \A q \in Objects : Cardinality(At(rest, q)) = Cardinality(Holding(g, v, q))
        BY <3>2, <1>4, <1>10, <4>2, <3>5, SomeSlots DEF Ledger, Pending, Tally, Referring, Holding
      <4>5. rest \in Seq(Objects) /\ \A j \in DOMAIN rest : rest[j] \in Gone
        BY <4>2
      <4>6. Keeps(g, Gone \cup {v})
        BY <3>6, <3>7, <4>4, <4>5, KeepsMore, Zenon
      <4>7. \A o \in Gone' : rootCount[o] = 0
        BY <4>2, <4>3, <2>2
      <4> QED
        BY <3>1, <3>5, <4>2, <4>3, <4>6, <4>7, <2>2, <2>3
    <3> QED
      BY <3>8, <3>9
  <2>6. CASE pc[t] \notin {"desUnregister", "desClear"}
    <3>1. Gone' = Gone /\ garbage' = garbage
      BY <2>6, <1>2, <1>3 DEF Gone, Dead
    <3>2. Counting(t)' = Counting(t)
      <4>1. pc'[t] \notin SetLabels \cup {"desRelease"} /\ pc[t] \notin SetLabels
        BY <2>6, <1>0, <1>2, <1>8 DEF SetLabels, DestroyLabels
      <4>2. CASE pc[t] = "desRelease"
        BY <4>1, <4>2, <1>0, Zenon DEF Counting, SetLabels, DestroyMoves
      <4>3. CASE pc[t] # "desRelease"
        BY <2>6, <4>3, <1>0, <4>1 DEF DestroyMoves, DestroyLabels, Counting, SetLabels
      <4> QED
        BY <4>2, <4>3
    <3> QED
      BY <3>1, <3>2, <2>2, <2>3
  <2> QED
    BY <2>4, <2>5, <2>6
<1> QED
  BY <1>9, <1>10

LEMMA TearDownSpared ==
    ASSUME RootInv, NEW t \in Threads, Threads = {t}, Placed(t), Placed(t)', Spared(t), TearDown(t)
    PROVE  Spared(t)' /\ Hunted(t)'
<1>0. /\ pc = [u \in Threads |-> pc[u]] /\ col = [u \in Threads |-> col[u]]
      /\ WalkPlaces(t) /\ WalkPlaces(t)' /\ HeapTypes /\ HeapTypes' /\ lookup \subseteq Born
      /\ allocations \in [Lists -> Seq(Objects)]
  BY DEF Placed, HeapTypes, RootInv, NoHandlesAhead, HandleTypes
<1> USE DEF headerVars, heapVars, implVars, clientVars, opVars, colVars, Goto, StartCol
<1>1. /\ pc[t] \in {"tearSever", "tearPages", "tearLarge"}
      /\ UNCHANGED <<rootCount, allocated>> /\ lookup' \subseteq lookup
      /\ pc'[t] \in {"tearPages", "tearLarge", "down", "desUnregister"}
      /\ pc'[t] = "desUnregister" => pc[t] = "tearLarge" /\ TearLarge(t)
  BY <1>0 DEF TearSever, TearPagesEnd, TearLarge, TearPages, TearDown
<1>2. GoingDown(t)
  BY <1>0, <1>1 DEF GoingDown, Severed, WalkPlaces, ListLabels
<1>3. \A o \in Objects : rootCount[o] = 0 /\ rootCount'[o] = 0
  BY <1>1, <1>2 DEF Spared
<1>4. pc'[t] = "desUnregister" => col'[t].back = "tearLarge"
  BY <1>0, <1>1 DEF WalkPlaces, ListLabels, TearLarge, Walks
<1>5. Severed(t)'
  BY <1>0, <1>1, <1>4 DEF WalkPlaces, Severed, ListLabels
<1>6. \A o \in Gone' : rootCount'[o] = 0
  <2>1. Gone' \subseteq Objects
    BY <1>0, <1>1, GoneFacts DEF HeapTypes, Born, Gone, Dead
  <2> QED
    BY <2>1, <1>3
<1>7. Spared(t)'
  BY <1>1, <1>3, <1>5, <1>6 DEF Spared, GoingDown, PinLabels, SetLabels
<1>8. CASE pc'[t] = "desUnregister"
  BY <1>0, <1>8, <1>3, <1>4, <1>7 DEF WalkPlaces, CandidateLabels, DestroyLabels, Hunted, FindLabels
<1>9. CASE pc'[t] # "desUnregister"
  BY <1>1, <1>7, <1>9 DEF Hunted, CandidateLabels, FindLabels, ScanLabels, DestroyLabels
<1> QED
  BY <1>8, <1>9

\* What can be got at in k steps, by the levels f before.
NextReach(f, k) ==
    IF k = 0 THEN HandleSet
    ELSE f[k - 1] \cup ({FieldOf(p, s) : p \in f[k - 1], s \in Slots} \ {Null})

Reaches(n) == CHOOSE f : f = [k \in 0 .. n |-> NextReach(f, k)]

LEMMA ReachesExist ==
    ASSUME NEW n \in Nat
    PROVE  Reaches(n) = [k \in 0 .. n |-> NextReach(Reaches(n), k)]
<1> DEFINE good == {p \in Nat : \E f : f = [k \in 0 .. p |-> NextReach(f, k)]}
<1>1. 0 \in good
  <2> DEFINE f == [k \in 0 .. 0 |-> HandleSet]
  <2>1. f = [k \in 0 .. 0 |-> NextReach(f, k)]
    BY DEF NextReach
  <2> QED
    BY <2>1
<1>2. ASSUME NEW p \in Nat, p \in good PROVE p + 1 \in good
  <2>1. PICK f : f = [k \in 0 .. p |-> NextReach(f, k)]
    BY <1>2
  <2> DEFINE last == f[p] \cup ({FieldOf(q, s) : q \in f[p], s \in Slots} \ {Null})
             g == [k \in 0 .. p + 1 |-> IF k = p + 1 THEN last ELSE f[k]]
  <2> HIDE DEF last
  <2>2. \A k \in 0 .. p : g[k] = f[k]
    OBVIOUS
  <2>3. g[p + 1] = last
    OBVIOUS
  <2>4. \A k \in 0 .. p : f[k] = NextReach(f, k)
    BY <2>1
  <2>5. g = [k \in 0 .. p + 1 |-> g[k]]
    OBVIOUS
  <2> HIDE DEF g
  <2>6. ASSUME NEW k \in 0 .. p + 1
        PROVE  g[k] = NextReach(g, k)
    <3>1. CASE k = p + 1
      BY <2>2, <3>1, <2>3 DEF NextReach, last
    <3>2. CASE k \in 0 .. p /\ k # 0
      <4>1. g[k] = f[k] /\ g[k - 1] = f[k - 1]
        BY <2>2, <3>2
      <4>2. NextReach(g, k) = NextReach(f, k)
        BY <4>1, <3>2 DEF NextReach
      <4> QED
        BY <2>4, <3>2, <4>1, <4>2
    <3>3. CASE k = 0
      <4>1. NextReach(g, k) = NextReach(f, k)
        BY <3>3 DEF NextReach
      <4> QED
        BY <2>2, <2>4, <3>3, <4>1
    <3> QED
      BY <3>1, <3>2, <3>3
  <2>7. g = [k \in 0 .. p + 1 |-> NextReach(g, k)]
    BY <2>5, <2>6
  <2> QED
    BY <2>7
<1> HIDE DEF good
<1>3. n \in good
  BY <1>1, <1>2, AllNumbers
<1>4. \E f : f = [k \in 0 .. n |-> NextReach(f, k)]
  BY <1>3 DEF good
<1> QED
  BY <1>4 DEF Reaches

\* A set that has the handles, and what the fields of its members refer to, has all
\* that can be reached.
LEMMA ReachesNoMore ==
    ASSUME NEW A, HandleSet \subseteq A,
           \A p \in A, s \in Slots : FieldOf(p, s) \in A \cup {Null}
    PROVE  Reachable \subseteq A
<1> DEFINE f == Reaches(MaxObjects)
<1>1. MaxObjects \in Nat
  BY GraphAssumption
<1>2. f = [k \in 0 .. MaxObjects |-> NextReach(f, k)]
  BY <1>1, ReachesExist
<1>3. Reachable = f[MaxObjects]
  BY DEF Reachable, ReachFrom, Reaches, NextReach
<1> HIDE DEF f
<1> DEFINE good == {k \in Nat : k <= MaxObjects => f[k] \subseteq A}
<1>4. \A k \in 0 .. MaxObjects : f[k] = NextReach(f, k)
  BY <1>2, Zenon
<1>5. 0 \in good
  <2>1. 0 \in 0 .. MaxObjects /\ NextReach(f, 0) = HandleSet
    BY <1>1 DEF NextReach
  <2>2. f[0] = HandleSet
    BY <1>4, <2>1
  <2> QED
    BY <2>2
<1>6. ASSUME NEW k \in Nat, k \in good PROVE k + 1 \in good
  <2> SUFFICES ASSUME k + 1 <= MaxObjects PROVE f[k + 1] \subseteq A
    OBVIOUS
  <2>1. k <= MaxObjects /\ k + 1 \in 0 .. MaxObjects /\ k + 1 # 0 /\ (k + 1) - 1 = k
    BY <1>1
  <2>2. f[k] \subseteq A
    BY <1>6, <2>1
  <2>3. f[k + 1] = NextReach(f, k + 1)
    BY <1>4, <2>1
  <2>4. f[k + 1] = f[k] \cup ({FieldOf(p, s) : p \in f[k], s \in Slots} \ {Null})
    BY <2>1, <2>3 DEF NextReach
  <2> QED
    BY <2>2, <2>4
<1> HIDE DEF good
<1>7. MaxObjects \in good
  BY <1>1, <1>5, <1>6, AllNumbers
<1> QED
  BY <1>1, <1>3, <1>7 DEF good

LEMMA InitSpared == ASSUME NEW t \in Threads, Init PROVE Spared(t) /\ Hunted(t)
<1>1. /\ pc[t] = Idle /\ garbage = {} /\ lookup = {} /\ allocated = 0
      /\ rootCount = [o \in Objects |-> 0]
  BY DEF Init
<1>2. Gone = {}
  BY <1>1 DEF Gone, Dead, Born
<1>3. /\ ~GoingDown(t) /\ pc[t] \notin PinLabels \cup SetLabels \cup CandidateLabels \cup DestroyLabels \cup FindLabels
      /\ pc[t] \notin {"dropFlag", "colUpgrade", "desUnregister", "findDescend", "findLock", "findReturn",
                    "findRelease"}
  BY <1>1 DEF GoingDown, Severed, ListLabels, PinLabels, SetLabels, CandidateLabels, ScanLabels,
              DestroyLabels, FindLabels, Idle
<1>4. Keeps(Counting(t), Gone)
  BY <1>2 DEF Keeps
<1>5. Spared(t)
  BY <1>1, <1>2, <1>3, <1>4 DEF Spared
<1>6. Hunted(t)
  BY <1>3 DEF Hunted
<1> QED
  BY <1>5, <1>6

LEMMA NextSpared ==
    ASSUME RootInv, RootInv', NEW t \in Threads, Threads = {t}, Placed(t), Placed(t)',
           Ledger(t), Ledger(t)', Acyclic, Spared(t), Hunted(t), [Next]_vars
    PROVE  Spared(t)' /\ Hunted(t)'
<1>1. CASE UNCHANGED vars
  <2>1. /\ refBy' = refBy /\ field' = field /\ garbage' = garbage /\ lookup' = lookup
        /\ rootCount' = rootCount /\ allocations' = allocations
        /\ pc' = pc /\ loc' = loc /\ col' = col /\ stk' = stk /\ allocated' = allocated
    BY <1>1 DEF vars, headerVars, heapVars, opVars, colVars, implVars
  <2>2. /\ Counting(t)' = Counting(t) /\ Gone' = Gone /\ Candidate(t)' = Candidate(t)
        /\ (GoingDown(t)' <=> GoingDown(t)) /\ (Severed(t)' <=> Severed(t))
    BY <2>1 DEF Counting, Candidate, Gone, Dead, Born, GoingDown, Severed
  <2>3. Spared(t)'
    BY <2>1, <2>2 DEF Spared, Keeps, Born
  <2>4. Hunted(t)'
    BY <2>1, <2>2 DEF Hunted, Condemned, Top, Born
  <2> QED
    BY <2>3, <2>4
<1>2. CASE Next
  <2>3. CASE HandleStep(t)
    BY <2>3, HandleSpared
  <2>4. CASE ScanStep(t)
    BY <2>4, ScanSpared
  <2>5. CASE Find(t)
    BY <2>5, FindSpared
  <2>6. CASE FastNext(t) \/ FastEnd(t) \/ NewLarge(t) \/ Destroy(t) \/ \E p \in Lists : CollectBegin(t, p)
    BY <2>6, OtherWalksSpared
  <2>7. CASE DestroyObject(t)
    BY <2>7, DestroySpared
  <2>8. CASE TearDown(t)
    BY <2>8, TearDownSpared
  <2>9. CASE Assign(t)
    BY <2>9, AssignSpared
  <2>10. CASE \E o \in Born, s \in Slots, x \in {Null} \cup Objects : SetField(t, o, s, x)
    BY <2>10, SetFieldSpared
  <2> QED
    BY <1>2, <2>3, <2>4, <2>5, <2>6, <2>7, <2>8, <2>9, <2>10, OneThreadSteps
    DEF Collect, HandleStep, ScanStep
<1> QED
  BY <1>1, <1>2

\* Nothing outside of what is gone refers to anything in it, so nothing in it is
\* reached.
LEMMA ReachableIsSpared ==
    ASSUME RootInv, NEW t \in Threads, Threads = {t}, Placed(t), Spared(t), Hunted(t)
    PROVE  ReachableIsAlive
<1>1. /\ HeapTypes /\ Born \subseteq Objects /\ Gone \subseteq Objects /\ Null \notin Gone
      /\ \A o \in Gone : rootCount[o] = 0
  BY GoneFacts DEF Placed, Spared
<1>2. HandleSet \subseteq Objects \ Gone
  BY <1>1, HandlesAreCounted DEF HandleSet
<1>3. CASE Severed(t)
  <2>1. \A o \in Objects : rootCount[o] = 0
    BY <1>3 DEF Spared, GoingDown
  <2>2. HandleSet = {}
    BY <1>1, HandlesAreCounted, <2>1 DEF HandleSet
  <2>3. Reachable \subseteq {}
    BY <2>2, ReachesNoMore
  <2> QED
    BY <2>3 DEF ReachableIsAlive
<1>4. CASE ~Severed(t)
  <2>1. Keeps(Counting(t), Gone)
    BY <1>4 DEF Spared
  <2>2. ASSUME NEW p \in Objects \ Gone, NEW s \in Slots
        PROVE  FieldOf(p, s) \in (Objects \ Gone) \cup {Null}
    <3>1. field[p][s] \in Objects \cup {Null}
      BY <1>1 DEF HeapTypes
    <3>2. CASE BeingStored(t, p, s)
      BY <3>2 DEF BeingStored, SetLabels, FieldOf, Spared, Placed, OpPlaces, Assignments
    <3>3. CASE ~BeingStored(t, p, s)
      <4>1. FieldOf(p, s) = field[p][s]
        BY <3>3 DEF FieldOf
      <4>2. Counting(t)[p][s] = field[p][s]
        <5>1. CASE pc[t] \in {"setOldRelease", "setStore"}
          BY <5>1, <1>1, <3>3, FieldChanged
          DEF Counting, Placed, OpPlaces, SetLabels, Assignments, HeapTypes, BeingStored
        <5>2. CASE pc[t] = "desRelease"
          BY <5>2, <1>1 DEF Hunted, DestroyLabels, Gone, Counting, HeapTypes
        <5>3. CASE pc[t] \notin {"setOldRelease", "setStore", "desRelease"}
          BY <5>3 DEF Counting
        <5> QED
          BY <5>1, <5>2, <5>3
      <4>3. field[p][s] \notin Gone
        BY <2>1, <4>2 DEF Keeps
      <4> QED
        BY <3>1, <4>1, <4>3
    <3> QED
      BY <3>2, <3>3
  <2>3. Reachable \subseteq Objects \ Gone
    BY <1>2, <2>2, ReachesNoMore, Zenon
  <2> QED
    BY <2>3 DEF ReachableIsAlive, Gone
<1> QED
  BY <1>3, <1>4

\* With one thread, and fields by which no cycle can come about: whatever is
\* assigned, released and collected, at every step of it, an object the program can
\* still get at is neither marked as garbage nor destroyed.
\* This is what a collector is for (CollectOnPage, TryFindRootFor, DestroyObject,
\* SetField and the handles: gc.cpp:336-486, 601-688, 1095-1223).
THEOREM ReachableSurvives ==
    ASSUME \E t : Threads = {t}, Acyclic
    PROVE  Spec => []ReachableIsAlive
<1> PICK t : Threads = {t}
  OBVIOUS
<1>0. t \in Threads
  OBVIOUS
<1> DEFINE Inv == RootInv /\ Placed(t) /\ Ledger(t) /\ Spared(t) /\ Hunted(t)
<1>1. Inv => ReachableIsAlive
  BY <1>0, ReachableIsSpared
<1>2. Init => Inv
  BY <1>0, InitRootInv, InitPlaced, InitLedger, InitSpared
<1>3. Inv /\ [Next]_vars => Inv'
  BY NextRootInv, <1>0, NextPlaced, NextLedger, NextSpared
<1> QED
  BY <1>1, <1>2, <1>3, PTL DEF Spec

-------------------------------------------------------------------------------
(* One thread: who holds the locks *)

\* What has read access to o: a pin, a handle that is being pinned or dropped, the
\* candidate of a scan, an object on the stack of a search.
Reads(t, o) ==
    \/ o \in roPins[t]
    \/ pc[t] = "pinCount" /\ loc[t].mode = "ro" /\ loc[t].obj = o
    \/ pc[t] \in {"dropCount", "dropFlag", "dropRelease"} /\ loc[t].hold = TRUE /\ loc[t].obj = o
    \/ pc[t] \in {"colFlag", "colRelease", "colUpgrade"} /\ Candidate(t) = o
    \/ pc[t] \in FindLabels /\ \E f \in 1 .. Len(stk[t]) : stk[t][f].obj = o

\* What has write access to o; the lock of a destroyed object stays taken.
Writes(t, o) ==
    \/ o \in rwPins[t]
    \/ o \in Dead
    \/ pc[t] = "pinCount" /\ loc[t].mode = "rw" /\ loc[t].obj = o
    \/ pc[t] = "dropRelease" /\ loc[t].obj = o
    \/ pc[t] \in SetLabels \ {"setUpgrade"} /\ loc[t].role = "ro_pin" /\ loc[t].new = o
    \/ pc[t] = "setAdd" /\ loc[t].hold = TRUE /\ loc[t].new = o
    \/ pc[t] = "setRemove" /\ loc[t].hold = TRUE /\ loc[t].old = o
    \/ pc[t] = "colUntry" /\ Candidate(t) = o
    \/ pc[t] \in DestroyLabels /\ Candidate(t) = o
    \/ pc[t] = "desClear" /\ FieldValue(t) = o

Reading(t) == {o \in Objects : Reads(t, o)}
Writing(t) == {o \in Objects : Writes(t, o)}

\* No lock word says more than that its object is in the set R, or in W.
Locked(w, R, W) ==
    \A o \in Objects : /\ w[o] \in {Free, 1, WriteHeld}
                       /\ w[o] = 1 => o \in R
                       /\ w[o] = WriteHeld => o \in W

\* A handle is dropped with the lock exactly when it may be the last one.
Dropped(t) ==
    /\ pc[t] = "dropTest" => loc[t].hold = FALSE
    /\ pc[t] = "dropLock" => loc[t].hold = FALSE /\ rootCount[loc[t].obj] = 1
    /\ pc[t] = "dropCount" => \/ loc[t].hold = TRUE /\ word[loc[t].obj] = 1
                              \/ loc[t].hold = FALSE /\ rootCount[loc[t].obj] # 1
    /\ pc[t] = "dropFlag" => loc[t].hold = TRUE /\ word[loc[t].obj] = 1

Locks(t) ==
    /\ Locked(word, Reading(t), Writing(t))
    /\ Dropped(t)
    /\ pc[t] \in {"colFlag", "colUpgrade"} \cup FindLabels => word[Candidate(t)] = 1

-------------------------------------------------------------------------------

LEMMA WordFacts == Free = 0 /\ WriteHeld \in Nat /\ WriteHeld > 1 /\ Released(Free) = Free
                   /\ Released(1) = Free /\ Released(WriteHeld) = Free
                   /\ Readable(Free) /\ Readable(1) /\ ~Readable(WriteHeld)
  BY WriteMaskAssumption DEF Free, WriteHeld, Released, Readable, ClearWriteBit

LEMMA SameLocked ==
    ASSUME NEW R, NEW W, NEW R2, NEW W2, Locked(word, R, W), word' = word,
           \A x \in Objects : (x \in R => x \in R2) /\ (x \in W => x \in W2)
    PROVE  Locked(word', R2, W2)
  BY DEF Locked

LEMMA WriteLocked ==
    ASSUME NEW t \in Threads, NEW o \in Objects, word \in [Objects -> Nat], TakeWrite(t, o),
           NEW R, NEW W, NEW R2, NEW W2, Locked(word, R, W), o \in W2,
           \A x \in Objects \ {o} : (x \in R => x \in R2) /\ (x \in W => x \in W2)
    PROVE  Locked(word', R2, W2) /\ word'[o] = WriteHeld /\ \A x \in Objects \ {o} : word'[x] = word[x]
  BY WordFacts DEF TakeWrite, Locked

LEMMA ReadLocked ==
    ASSUME NEW o \in Objects, word \in [Objects -> Nat], TakeRead(o),
           NEW R, NEW W, NEW R2, NEW W2, Locked(word, R, W), o \notin R, o \in R2,
           \A x \in Objects \ {o} : (x \in R => x \in R2) /\ (x \in W => x \in W2)
    PROVE  Locked(word', R2, W2) /\ word'[o] = 1 /\ \A x \in Objects \ {o} : word'[x] = word[x]
  BY WordFacts DEF Locked, TakeRead

LEMMA DropLocked ==
    ASSUME NEW t \in Threads, NEW o \in Objects, word \in [Objects -> Nat], DropLock(t, o),
           NEW R, NEW W, NEW R2, NEW W2, Locked(word, R, W),
           \A x \in Objects \ {o} : (x \in R => x \in R2) /\ (x \in W => x \in W2)
    PROVE  Locked(word', R2, W2) /\ word'[o] = Free /\ \A x \in Objects \ {o} : word'[x] = word[x]
  BY WordFacts DEF DropLock, Locked

LEMMA UpgradeLocked ==
    ASSUME NEW t \in Threads, NEW o \in Objects, word \in [Objects -> Nat], TakeUpgrade(t, o),
           NEW R, NEW W, NEW R2, NEW W2, Locked(word, R, W), o \in W2,
           \A x \in Objects \ {o} : (x \in R => x \in R2) /\ (x \in W => x \in W2)
    PROVE  Locked(word', R2, W2) /\ word'[o] = WriteHeld /\ \A x \in Objects \ {o} : word'[x] = word[x]
  BY WordFacts DEF TakeUpgrade, lockVars, Locked

\* SetField turns its write access into the read access of a pin.
LEMMA DowngradeLocked ==
    ASSUME NEW o \in Objects, word \in [Objects -> Nat],
           word[o] = WriteHeld, word' = [word EXCEPT ![o] = 1],
           NEW R, NEW W, NEW R2, NEW W2, Locked(word, R, W), o \in R2,
           \A x \in Objects \ {o} : (x \in R => x \in R2) /\ (x \in W => x \in W2)
    PROVE  Locked(word', R2, W2)
  BY WordFacts DEF Locked

\* Whoever has no handle to an object has no pin to it.
LEMMA PinsAreCounted ==
    ASSUME RootInv, NEW t \in Threads, NEW o \in Objects,
           rootCount[o] = 0 \/ (rootCount[o] = 1 /\ t \in Droppers(o))
    PROVE  ~Pins(t, o) /\ o \notin roPins[t] /\ o \notin rwPins[t]
<1>1. rootCount[o] = RootsTo(o) + Cardinality(Pinners(o)) + Cardinality(Droppers(o))
  BY DEF RootInv, CountsExact
<1>2. /\ IsFiniteSet(Pinners(o)) /\ Cardinality(Pinners(o)) \in Nat
      /\ IsFiniteSet(Droppers(o)) /\ Cardinality(Droppers(o)) \in Nat /\ RootsTo(o) \in Nat
  BY FiniteHandles, Zenon DEF RootsTo, RootHandles, Held
<1>3. t \in Droppers(o) => Cardinality(Droppers(o)) # 0
  BY <1>2, FS_EmptySet
<1>4. Cardinality(Pinners(o)) = 0
  BY <1>1, <1>2, <1>3
<1>5. Pinners(o) = {}
  BY <1>2, <1>4, FS_EmptySet
<1> QED
  BY <1>5 DEF Pinners, Pins

\* No entry twice.
Distinct(list) == \A i, j \in DOMAIN list : list[i] = list[j] => i = j

Among(e, list) == \E i \in DOMAIN list : list[i] = e

LEMMA SwapRemoveDistinct ==
    ASSUME NEW T, NEW list \in Seq(T), NEW e, Distinct(list), Among(e, list)
    PROVE  Distinct(SwapRemove(list, e)) /\ ~Among(e, SwapRemove(list, e))
<1>1. PICK n \in Nat : n = Len(list) /\ DOMAIN list = 1 .. n
  BY LenProperties
<1>2. PICK k \in 1 .. n : list[k] = e
  BY <1>1 DEF Among
<1>3. \A j \in 1 .. k - 1 : j \in 1 .. n /\ j # k
  BY <1>1, <1>2
<1>4. \A j \in 1 .. n : list[j] = e => j = k
  BY <1>1, <1>2 DEF Distinct
<1>5. k = CHOOSE i \in DOMAIN list : list[i] = e /\ \A j \in 1 .. i - 1 : list[j] # e
  BY <1>3, <1>4, <1>1, <1>2
<1>6. PICK rest : rest = SwapRemove(list, e)
  OBVIOUS
<1>7. rest = [i \in 1 .. n - 1 |-> IF i = k THEN list[n] ELSE list[i]]
  BY <1>1, <1>5, <1>6 DEF SwapRemove
<1>8. n \in 1 .. n /\ \A i \in 1 .. n - 1 : i \in 1 .. n /\ i # n
  BY <1>1, <1>2
<1>9. ASSUME NEW i \in 1 .. n - 1 PROVE rest[i] # e
  BY <1>4, <1>7, <1>8
<1>10. ASSUME NEW i \in 1 .. n - 1, NEW j \in 1 .. n - 1, rest[i] = rest[j] PROVE i = j
  BY <1>1, <1>7, <1>8, <1>10, Zenon DEF Distinct
<1> QED
  BY <1>6, <1>7, <1>9, <1>10, Zenon DEF Distinct, Among

LEMMA RemoveFirstDistinct ==
    ASSUME NEW T, NEW list \in Seq(T), NEW e, Distinct(list), Among(e, list)
    PROVE  Distinct(RemoveFirst(list, e)) /\ ~Among(e, RemoveFirst(list, e))
<1>1. PICK n \in Nat : n = Len(list) /\ DOMAIN list = 1 .. n
  BY LenProperties
<1>2. At(list, e) # {}
  BY DEF At, Among
<1>3. PICK k \in At(list, e) :
              /\ k \in 1 .. Len(list) /\ Len(list) \in Nat \ {0}
              /\ RemoveFirst(list, e) \in Seq(T)
              /\ Len(RemoveFirst(list, e)) = Len(list) - 1
              /\ \A j \in 1 .. Len(list) - 1 :
                    RemoveFirst(list, e)[j] = IF j < k THEN list[j] ELSE list[j + 1]
  BY <1>2, FirstRemoved
<1>4. PICK rest \in Seq(T) : rest = RemoveFirst(list, e) /\ Len(rest) = n - 1
  BY <1>1, <1>3
<1>5. DOMAIN rest = 1 .. n - 1
  BY <1>4, LenProperties
<1>6. k \in 1 .. n /\ \A i \in 1 .. n - 1 : rest[i] = IF i < k THEN list[i] ELSE list[i + 1]
  BY <1>1, <1>3, <1>4
<1>7. \A a, b \in 1 .. n : list[a] = list[b] => a = b
  BY <1>1 DEF Distinct
<1>8. list[k] = e /\ \A j \in 1 .. n : list[j] = e => j = k
  BY <1>6, <1>7, <1>3 DEF At
<1>9. ASSUME NEW i \in 1 .. n - 1 PROVE rest[i] # e
  <2>1. i \in 1 .. n /\ i + 1 \in 1 .. n
    BY <1>1
  <2>2. CASE i < k
    BY <2>1, <2>2, <1>6, <1>8
  <2>3. CASE ~(i < k)
    BY <2>3, <1>6, <2>1, <1>8
  <2> QED
    BY <2>2, <2>3
<1>10. ASSUME NEW i \in 1 .. n - 1, NEW j \in 1 .. n - 1, rest[i] = rest[j] PROVE i = j
  <2>1. PICK a \in 1 .. n : a = (IF i < k THEN i ELSE i + 1) /\ rest[i] = list[a]
    BY <1>1, <1>6
  <2>2. PICK b \in 1 .. n : b = (IF j < k THEN j ELSE j + 1) /\ rest[j] = list[b]
    BY <1>1, <1>6
  <2>3. a = b
    BY <2>1, <2>2, <1>7, <1>10, Zenon
  <2>4. i \in Int /\ j \in Int /\ k \in Int
    BY <1>6
  <2> QED
    BY <2>1, <2>2, <2>3, <2>4
<1> QED
  BY <1>4, <1>5, <1>9, <1>10 DEF Distinct, Among

LEMMA FrontDistinct ==
    ASSUME NEW T, NEW list \in Seq(T), Distinct(list), list # <<>>
    PROVE  /\ Distinct(SubSeq(list, 1, Len(list) - 1))
           /\ ~Among(list[Len(list)], SubSeq(list, 1, Len(list) - 1))
  BY LenProperties, FrontSeq DEF Distinct, Among

\* What DestroyFree leaves of a list without doubles: it has no doubles, and the
\* destroyed object is on it no more, except in the teardown.
LEMMA ShrunkDistinct ==
    ASSUME HeapTypes, NEW t \in Threads, col[t] \in Walks, Distinct(Listed(t)),
           col[t].back = "colNext" => Among(Candidate(t), Listed(t)),
           col[t].back = "fastNext" => Listed(t) # <<>> /\ Candidate(t) = Listed(t)[Len(Listed(t))]
    PROVE  Distinct(Shrunk(t)) /\ (col[t].back # "tearLarge" => ~Among(Candidate(t), Shrunk(t)))
<1>1. PICK list \in Seq(Objects) : list = Listed(t)
  BY DEF HeapTypes, Listed, Walks
<1>2. PICK o : o = Candidate(t)
  OBVIOUS
<1>3. CASE col[t].back = "colNext" /\ col[t].page # Large
  BY <1>3, <1>1, <1>2, RemoveFirstDistinct DEF Shrunk
<1>4. CASE col[t].back = "colNext" /\ col[t].page = Large
  BY <1>4, <1>1, <1>2, SwapRemoveDistinct DEF Shrunk
<1>5. CASE col[t].back = "fastNext"
  BY <1>5, <1>1, <1>2, FrontDistinct DEF Shrunk
<1>6. CASE col[t].back = "tearLarge"
  BY <1>6, <1>1 DEF Shrunk
<1>7. col[t].back \in Backs
  BY DEF Walks
<1> QED
  BY <1>3, <1>4, <1>5, <1>6, <1>7 DEF Backs

\* An object is on one list, once, and it has been allocated.
Arranged ==
    /\ \A l \in Lists : Distinct(allocations[l])
    /\ \A l \in Lists : \A i \in DOMAIN allocations[l] : allocations[l][i] \in Born
    /\ \A l, m \in Lists : l # m =>
          \A i \in DOMAIN allocations[l] : ~Among(allocations[l][i], allocations[m])

\* What is on a list is registered, but for the object that is being destroyed.
Registered(t) ==
    ~Severed(t) =>
       \A l \in Lists : \A i \in DOMAIN allocations[l] :
          allocations[l][i] \in lookup \/ (pc[t] \in DestroyLabels /\ allocations[l][i] = Candidate(t))

\* Where on its list the candidate is.
Found(t) ==
    /\ pc[t] \in CandidateLabels /\ col[t].back = "colNext" =>
         col[t].i \in DOMAIN Listed(t) /\ Candidate(t) = Listed(t)[col[t].i]
    /\ pc[t] \in DestroyLabels /\ col[t].back = "fastNext" =>
         Listed(t) # <<>> /\ Candidate(t) = Listed(t)[Len(Listed(t))]
    /\ pc[t] \in DestroyLabels => Candidate(t) \in Born
    /\ pc[t] \in DestroyLabels \ {"desUnregister"} => Candidate(t) \notin lookup

Listings(t) == Arranged /\ Registered(t) /\ Found(t)

-------------------------------------------------------------------------------

LEMMA AppendDistinct ==
    ASSUME NEW T, NEW list \in Seq(T), NEW x \in T, Distinct(list), ~Among(x, list)
    PROVE  /\ Distinct(Append(list, x))
           /\ \A i \in DOMAIN Append(list, x) : Append(list, x)[i] = x \/ Among(Append(list, x)[i], list)
           /\ \A e : Among(e, Append(list, x)) => e = x \/ Among(e, list)
<1>1. PICK n \in Nat : n = Len(list) /\ DOMAIN list = 1 .. n
  BY LenProperties
<1>2. PICK longer : longer = Append(list, x)
  BY Zenon
<1>3. /\ longer \in Seq(T) /\ Len(longer) = n + 1
      /\ \A i \in 1 .. n : longer[i] = list[i]
      /\ longer[n + 1] = x
  BY <1>1, <1>2, AppendProperties
<1>4. DOMAIN longer = 1 .. n + 1
  BY <1>3, LenProperties
<1>5. \A i \in 1 .. n + 1 : i \in 1 .. n \/ i = n + 1
  BY <1>1
<1>6. \A i \in 1 .. n : list[i] # x
  BY <1>1 DEF Among
<1>7. \A i, j \in 1 .. n : list[i] = list[j] => i = j
  BY <1>1 DEF Distinct
<1>8. Distinct(longer)
  BY <1>4, <1>3, <1>5, <1>6, <1>7 DEF Distinct
<1>9. \A i \in DOMAIN longer : longer[i] = x \/ Among(longer[i], list)
  BY <1>1, <1>3, <1>4, <1>5 DEF Among
<1>10. \A e : Among(e, longer) => e = x \/ Among(e, list)
  BY <1>9 DEF Among
<1> QED
  BY <1>2, <1>8, <1>9, <1>10

LEMMA ToTheEndDistinct ==
    ASSUME NEW T, NEW list \in Seq(T), Distinct(list), NEW i \in Nat \ {0}, i <= Len(list),
           NEW rest, rest = ToTheEnd(list, i)
    PROVE  Distinct(rest)
<1>0. /\ rest \in Seq(T) /\ Len(rest) = Len(list) /\ Len(list) \in Nat \ {0}
      /\ rest[Len(list)] = list[i]
      /\ i # Len(list) => rest[i] = list[Len(list)]
      /\ \A j \in 1 .. Len(list) : j \notin {i, Len(list)} => rest[j] = list[j]
  BY ToTheEndSeq
<1>1. PICK n \in Nat \ {0} : n = Len(list) /\ DOMAIN list = 1 .. n
  BY <1>0, LenProperties
<1>2. /\ rest \in Seq(T) /\ Len(rest) = n
      /\ rest[n] = list[i] /\ (i # n => rest[i] = list[n])
      /\ \A j \in 1 .. n : j \notin {i, n} => rest[j] = list[j]
  BY <1>0, <1>1
<1>3. DOMAIN rest = 1 .. n
  BY <1>2, LenProperties
<1>4. \A a, b \in 1 .. n : list[a] = list[b] => a = b
  BY <1>1 DEF Distinct
<1>5. i \in 1 .. n /\ n \in 1 .. n
  BY <1>1
<1>6. ASSUME NEW a \in 1 .. n, NEW b \in 1 .. n, rest[a] = rest[b] PROVE a = b
  BY <1>2, <1>5, <1>4, <1>6
<1> QED
  BY <1>3, <1>6 DEF Distinct

LEMMA SameArranged ==
    ASSUME Arranged, allocations' = allocations, Born \subseteq Born'
    PROVE  Arranged'
  BY DEF Arranged

LEMMA ListShrinks ==
    ASSUME Arranged, allocations \in [Lists -> Seq(Objects)], Born \subseteq Born',
           NEW l \in Lists, NEW rest, allocations' = [allocations EXCEPT ![l] = rest],
           SubList(rest, allocations[l]), Distinct(rest)
    PROVE  /\ Arranged' /\ allocations'[l] = rest
           /\ \A m \in Lists \ {l} : allocations'[m] = allocations[m]
           /\ \A m \in Lists : \A i \in DOMAIN allocations'[m] : Among(allocations'[m][i], allocations[m])
  BY DEF SubList, Among, Arranged

LEMMA ListGrows ==
    ASSUME Arranged, allocations \in [Lists -> Seq(Objects)], allocated \in Nat,
           NEW l \in Lists, Registers(l)
    PROVE  /\ Arranged'
           /\ \A m \in Lists : \A i \in DOMAIN allocations'[m] :
                 allocations'[m][i] = allocated + 1 \/ Among(allocations'[m][i], allocations[m])
<1>1. PICK x \in Objects : x = allocated + 1
  BY DEF Registers
<1>2. PICK list \in Seq(Objects) : list = allocations[l]
  OBVIOUS
<1>3. PICK longer : longer = Append(list, x)
  BY Zenon
<1>4. allocations'[l] = longer /\ \A m \in Lists \ {l} : allocations'[m] = allocations[m]
  BY <1>1, <1>2, <1>3 DEF Registers
<1>5. x \notin Born /\ x \in Born' /\ Born \subseteq Born'
  BY <1>1 DEF Registers, Born
<1>6. \A m \in Lists : \A e : Among(e, allocations[m]) => e \in Born
  BY DEF Arranged, Among
<1>7. \A m, k \in Lists : \A e : m # k => ~(Among(e, allocations[m]) /\ Among(e, allocations[k]))
  BY DEF Arranged, Among
<1>8. Distinct(list) /\ ~Among(x, list)
  BY <1>2, <1>5, <1>6 DEF Arranged
<1>9. /\ Distinct(longer)
      /\ \A i \in DOMAIN longer : longer[i] = x \/ Among(longer[i], list)
      /\ \A e : Among(e, longer) => e = x \/ Among(e, list)
  BY <1>3, <1>8, AppendDistinct
<1>10. \A m \in Lists : \A i \in DOMAIN allocations'[m] :
          allocations'[m][i] = x \/ Among(allocations'[m][i], allocations[m])
  BY <1>2, <1>4, <1>9 DEF Among
<1>11. \A m \in Lists : Distinct(allocations'[m])
  BY <1>4, <1>9 DEF Arranged
<1>12. \A m \in Lists : \A i \in DOMAIN allocations'[m] : allocations'[m][i] \in Born'
  BY <1>5, <1>6, <1>10, Zenon
<1>13. ASSUME NEW m \in Lists, NEW k \in Lists, m # k, NEW e, Among(e, allocations'[m]), Among(e, allocations'[k])
       PROVE  FALSE
  BY <1>2, <1>4, <1>9, <1>5, <1>6, <1>7, <1>13
<1>14. \A m, k \in Lists : m # k => \A i \in DOMAIN allocations'[m] : ~Among(allocations'[m][i], allocations'[k])
  BY <1>13, Zenon DEF Among
<1>15. Arranged'
  BY <1>11, <1>12, <1>14 DEF Arranged
<1> QED
  BY <1>1, <1>10, <1>15

\* A step that is not on the way through a list, and registers at most one object.
LEMMA ListsKept ==
    ASSUME RootInv, NEW t \in Threads, Placed(t), Listings(t),
           pc[t] \notin DestroyLabels, pc'[t] \notin DestroyLabels,
           ~Severed(t)' => ~Severed(t), lookup \subseteq lookup',
           pc'[t] \in CandidateLabels =>
              /\ allocations' = allocations
              /\ col'[t].back = "colNext" => col'[t].i \in DOMAIN Listed(t)' /\ Candidate(t)' = Listed(t)'[col'[t].i],
           \/ allocations' = allocations /\ allocated' = allocated
           \/ \E p \in Lists : Registers(p)
    PROVE  Listings(t)'
<1>0. /\ allocations \in [Lists -> Seq(Objects)] /\ allocated \in Nat /\ lookup \subseteq Born
      /\ Arranged
  BY GraphAssumption DEF Placed, HeapTypes, RootInv, HandleTypes, NoHandlesAhead, Listings
<1>1. Found(t)'
  BY DEF Found, CandidateLabels
<1>2. CASE allocations' = allocations /\ allocated' = allocated
  BY <1>0, <1>2, SameArranged, <1>1, Zenon DEF Born, Listings, Registered
<1>3. ASSUME NEW p \in Lists, Registers(p) PROVE Listings(t)'
  <2>1. /\ Arranged'
        /\ \A m \in Lists : \A i \in DOMAIN allocations'[m] :
              allocations'[m][i] = allocated + 1 \/ Among(allocations'[m][i], allocations[m])
    BY <1>0, <1>3, ListGrows
  <2>2. lookup' = lookup \cup {allocated + 1}
    BY <1>3 DEF Registers
  <2>3. ~Severed(t) => \A m \in Lists : \A e : Among(e, allocations[m]) => e \in lookup
    BY DEF Listings, Registered, Among
  <2>4. Registered(t)'
    BY <2>1, <2>2, <2>3 DEF Registered
  <2> QED
    BY <1>1, <2>1, <2>4 DEF Listings
<1> QED
  BY <1>2, <1>3

LEMMA HandleListings ==
    ASSUME RootInv, NEW t \in Threads, Threads = {t}, Placed(t), Listings(t), HandleStep(t)
    PROVE  Listings(t)' /\ fault' = fault
<1>0. /\ Still(t) /\ ~Severed(t) /\ ~Severed(t)' /\ pc'[t] \notin ListLabels
      /\ allocated \in 0 .. MaxObjects /\ MaxObjects \in Nat /\ Pages \subseteq Lists
  BY HandleIsStill, GraphAssumption DEF RootInv, HandleTypes, Lists
<1> USE DEF headerVars, heapVars, implVars, clientVars, opVars, colVars, Goto, StartOp, EndOp, Idle
<1>1. /\ fault' = fault
      /\ \/ allocations' = allocations /\ allocated' = allocated /\ lookup' = lookup
         \/ \E p \in Lists : Registers(p)
  <2>1. CASE New(t)
    <3>1. allocated + 1 \in Objects
      BY <2>1, <1>0 DEF New, Objects
    <3> QED
      BY <2>1, <3>1, <1>0, Zenon DEF New, RegisterObject, Registers
  <2>2. CASE PinLock(t) \/ PinCount(t) \/ Drop(t)
    BY <2>2 DEF PinLock, PinCount, Drop, DropTest, DropLockObject, DropCount, DropFlag, DropRelease
  <2>3. CASE \E o \in Born : CopyRoot(t, o) \/ DropRoot(t, o) \/ Unpin(t, o)
                             \/ Pin(t, o, "ro") \/ Pin(t, o, "rw")
    BY <2>3 DEF CopyRoot, DropRoot, Unpin, Pin
  <2> QED
    BY <2>1, <2>2, <2>3 DEF HandleStep
<1>2. lookup \subseteq lookup'
  BY <1>1 DEF Registers
<1>3. /\ pc[t] \notin DestroyLabels /\ pc'[t] \notin DestroyLabels
      /\ pc'[t] \notin CandidateLabels
  BY <1>0 DEF Still, ListLabels, CandidateLabels, FindLabels, ScanLabels, DestroyLabels
<1>4. Listings(t)'
  BY <1>0, <1>1, <1>2, <1>3, ListsKept, SMTT(15)
<1> QED
  BY <1>1, <1>4

LEMMA AssignedRefers ==
    ASSUME RootInv, NEW t \in Threads, Placed(t), Ledger(t), pc[t] = "setRemove"
    PROVE  Refers(loc[t].obj, loc[t].old)
<1>1. /\ loc[t] \in Assignments /\ loc[t].obj \in Objects
      /\ loc[t].old = field[loc[t].obj][loc[t].slot] /\ loc[t].old # loc[t].new /\ loc[t].old # Null
      /\ refBy \in [Objects -> Seq(Objects)] /\ field \in [Objects -> [Slots -> Objects \cup {Null}]]
  BY DEF Placed, OpPlaces, HeapTypes, SetLabels, Assignments
<1>2. PICK p \in Objects, s \in Slots, v \in Objects :
         p = loc[t].obj /\ s = loc[t].slot /\ v = loc[t].old /\ v = field[p][s] /\ v # loc[t].new
  BY <1>1 DEF Assignments
<1>3. ~Severed(t) /\ Counting(t) = field /\ ~Pending(t, v, p)
  BY <1>2 DEF Counting, Pending, Severed, ListLabels
<1>4. PICK h \in Nat : h = Cardinality(Holding(field, v, p)) /\ h > 0
  BY <1>2, SomeSlots, Zenon DEF Holding
<1>5. PICK r \in Nat : r = Cardinality(At(refBy[v], p)) /\ (r > 0 => At(refBy[v], p) # {})
  BY <1>1, SomeReferrers, Zenon
<1>6. Cardinality(Referring(v, p)) = Cardinality(Holding(Counting(t), v, p)) + 0
  BY <1>3 DEF Ledger, Tally
<1>7. At(refBy[v], p) # {}
  BY <1>3, <1>4, <1>5, <1>6 DEF Referring
<1> QED
  BY <1>2, <1>7 DEF Refers, At

LEMMA AssignListings ==
    ASSUME RootInv, NEW t \in Threads, Threads = {t}, Placed(t), Ledger(t), Listings(t),
           Assign(t) \/ \E o \in Born, s \in Slots, x \in {Null} \cup Objects : SetField(t, o, s, x)
    PROVE  Listings(t)' /\ fault' = fault
<1> USE DEF headerVars, heapVars, implVars, clientVars, opVars, colVars, Goto, StartOp, EndOp, Idle
<1>0. pc = [u \in Threads |-> pc[u]]
  BY DEF RootInv, HandleTypes
<1>1. /\ pc[t] \in SetLabels \cup {Idle} /\ pc'[t] \in SetLabels \cup {Idle}
      /\ UNCHANGED <<allocations, allocated, lookup, fault>>
  <2>1. CASE Assign(t)
    BY <2>1, AssignSteps, AssignedRefers, Zenon DEF AssignMoves, SetLabels
  <2>2. CASE \E o \in Born, s \in Slots, x \in {Null} \cup Objects : SetField(t, o, s, x)
    BY <2>2, <1>0 DEF SetField, SetLabels
  <2> QED
    BY <2>1, <2>2
<1>2. /\ pc[t] \notin DestroyLabels /\ pc'[t] \notin DestroyLabels \cup CandidateLabels
      /\ ~Severed(t) /\ ~Severed(t)'
  BY <1>1 DEF SetLabels, DestroyLabels, CandidateLabels, ScanLabels, FindLabels, Severed, ListLabels
<1>3. Listings(t)'
  BY <1>1, <1>2, ListsKept
<1> QED
  BY <1>1, <1>3

\* A step that leaves the lists and the candidate as they are.
LEMMA SameFound ==
    ASSUME NEW t \in Threads, Found(t), UNCHANGED <<allocations, allocated>>,
           pc[t] \in CandidateLabels, pc'[t] \in DestroyLabels => pc[t] \in DestroyLabels,
           WalkLocals(t, col[t].i, col'[t].slot, col[t].obj),
           pc'[t] \in DestroyLabels \ {"desUnregister"} => Candidate(t) \notin lookup'
    PROVE  Found(t)'
  BY DEF WalkLocals, Listed, Candidate, Born, Found, CandidateLabels

LEMMA ScanListings ==
    ASSUME RootInv, NEW t \in Threads, Threads = {t}, Placed(t), Placed(t)', Listings(t), ScanStep(t),
           pc[t] = "colUpgrade" => CanUpgrade(Candidate(t))
    PROVE  Listings(t)' /\ fault' = fault
<1>0. /\ pc[t] \in ScanLabels \cup {"colId", "colNext"} /\ col[t] \in Walks /\ col[t].back = "colNext"
      /\ ScanMoves(t) /\ UNCHANGED <<allocated, lookup, allocations>>
      /\ ~Severed(t) /\ ~Severed(t)'
  BY ScanSteps, SearchIsStill
<1>1. Arranged /\ Registered(t) /\ Found(t) /\ Listed(t) \in Seq(Objects) /\ col[t].i \in Nat \ {0}
      /\ col[t].page \in Lists
  BY <1>0 DEF Listings, Placed, HeapTypes, Listed, Walks
<1>2. Arranged'
  BY <1>0, <1>1, SameArranged DEF Born
<1>3. \A l \in Lists : \A i \in DOMAIN allocations[l] : allocations[l][i] \in lookup
  BY <1>0, <1>1 DEF Registered, ScanLabels, DestroyLabels
<1>4. Registered(t)'
  BY <1>0, <1>3 DEF Registered
<1>5. col[t].i <= Len(Listed(t)) => col[t].i \in DOMAIN Listed(t)
  BY <1>1, LenProperties
<1>6. fault' = fault
  <2>1. CASE pc[t] = "colNext"
    BY <1>1, <1>3, <1>5, <2>1, <1>0 DEF Listed, ScanMoves
  <2>2. CASE pc[t] # "colNext"
    BY <2>2, <1>0 DEF ScanMoves, ScanLabels
  <2> QED
    BY <2>1, <2>2
<1>7. CASE pc[t] \in {"colId", "colNext"}
  <2>1. CASE pc'[t] = "colTry"
    BY <2>1, <1>7, <1>0, <1>2, <1>4, <1>5, <1>6
    DEF ScanMoves, Listed, Idle, WalkLocals, Candidate, Found, Listings, DestroyLabels
  <2>2. CASE pc'[t] # "colTry"
    BY <2>2, <1>7, <1>0, <1>2, <1>4, <1>6
    DEF ScanMoves, CandidateLabels, ScanLabels, FindLabels, DestroyLabels, Idle, Found, Listings
  <2> QED
    BY <2>1, <2>2
<1>8. CASE pc[t] \in ScanLabels
  <2>1. Candidate(t) \in Born
    BY <1>8, <1>0, <1>1 DEF Found, CandidateLabels, Arranged, Listed
  <2>2. \/ pc'[t] \notin CandidateLabels
        \/ pc'[t] \in ScanLabels \cup {"findEnter", "desUnregister"} /\ col'[t] = col[t]
    BY <1>8, <1>0 DEF ScanMoves, ScanLabels, CandidateLabels, FindLabels, DestroyLabels, Idle
  <2>3. CASE pc'[t] \notin CandidateLabels
    BY <2>3, <1>2, <1>4, <1>6 DEF Found, Listings, CandidateLabels
  <2>4. CASE pc'[t] \in ScanLabels \cup {"findEnter", "desUnregister"} /\ col'[t] = col[t]
    BY <2>4, <1>0, <2>1, <1>1, <1>8, <1>2, <1>4, <1>6
    DEF Listed, Candidate, Born, Found, CandidateLabels, ScanLabels, DestroyLabels, Listings
  <2> QED
    BY <2>2, <2>3, <2>4
<1> QED
  BY <1>0, <1>7, <1>8

LEMMA FindListings ==
    ASSUME RootInv, NEW t \in Threads, Threads = {t}, Placed(t), Placed(t)', Listings(t), Find(t)
    PROVE  Listings(t)' /\ fault' = fault
<1>0. /\ pc[t] \in FindLabels /\ WalkLocals(t, col[t].i, col[t].slot, col[t].obj) /\ SearchMoves(t)
      /\ UNCHANGED <<allocated, lookup, allocations, fault>>
      /\ ~Severed(t) /\ ~Severed(t)'
  BY SearchSteps, SearchIsStill
<1>1. pc'[t] \in FindLabels \cup {"colRelease", "colUpgrade"}
  BY <1>0 DEF SearchMoves, FindLabels
<1>2. Arranged'
  BY <1>0, SameArranged DEF Born, Listings
<1>3. pc[t] \notin DestroyLabels /\ pc'[t] \notin DestroyLabels /\ pc[t] \in CandidateLabels
  BY <1>0, <1>1 DEF FindLabels, DestroyLabels, CandidateLabels
<1>4. Registered(t)'
  BY <1>0, <1>3 DEF Registered, Listings
<1>5. col'[t].slot = col[t].slot
  BY <1>0 DEF WalkLocals
<1>6. Found(t)'
  BY <1>0, <1>3, <1>5, SameFound DEF Listings
<1> QED
  BY <1>0, <1>2, <1>4, <1>6 DEF Listings

LEMMA DestroyListings ==
    ASSUME RootInv, NEW t \in Threads, Threads = {t}, Placed(t), Placed(t)', Ledger(t), Kinds', Listings(t),
           DestroyObject(t)
    PROVE  Listings(t)' /\ fault' = fault
<1>0. /\ pc[t] \in DestroyLabels /\ col[t] \in Walks /\ DestroyMoves(t) /\ UNCHANGED allocated
      /\ Severed(t)' = Severed(t)
      /\ pc[t] = "desClear" => Refers(Candidate(t), FieldValue(t))
  BY DestroySteps, DestroyLedger
<1>1. /\ allocations \in [Lists -> Seq(Objects)] /\ col[t].page \in Lists /\ Arranged /\ Found(t)
      /\ col[t].back \in Backs /\ Registered(t) /\ HeapTypes
  BY <1>0, Zenon DEF Listings, Placed, HeapTypes, Walks
<1>2. fault' = fault
  BY <1>0 DEF DestroyMoves, DestroyLabels
<1>3. CASE pc'[t] \in DestroyLabels /\ allocations' = allocations
  <2>1. /\ WalkLocals(t, col[t].i, col'[t].slot, col[t].obj) /\ lookup' \in {lookup, lookup \ {Candidate(t)}}
        /\ pc[t] = "desUnregister" => lookup' = lookup \ {Candidate(t)}
        /\ pc'[t] # "desUnregister"
    BY <1>0, <1>1, <1>3 DEF DestroyMoves, DestroyLabels, WalkLocals, Backs, Idle
  <2>2. Candidate(t) \notin lookup' /\ pc[t] \in CandidateLabels
    BY <2>1, <1>0, <1>1 DEF Found, CandidateLabels
  <2>3. Found(t)'
    BY <2>1, <2>2, <1>0, <1>1, <1>3, SameFound
  <2>4. Arranged'
    BY <1>0, <1>1, <1>3, SameArranged DEF Born
  <2>5. Candidate(t)' = Candidate(t)
    BY <2>1 DEF WalkLocals, Candidate
  <2>6. Registered(t)'
    BY <2>1, <2>5, <1>0, <1>1, <1>3 DEF Registered
  <2> QED
    BY <2>3, <2>4, <2>6, <1>2 DEF Listings
<1>4. CASE allocations' = [allocations EXCEPT ![col[t].page] = Shrunk(t)] /\ pc'[t] = col[t].back
           /\ pc[t] = "desField"
  <2>1. lookup' = lookup
    BY <1>0, <1>4 DEF DestroyMoves
  <2>2. /\ Distinct(Listed(t))
        /\ col[t].back = "colNext" => Among(Candidate(t), Listed(t))
        /\ col[t].back = "fastNext" => Listed(t) # <<>> /\ Candidate(t) = Listed(t)[Len(Listed(t))]
    BY <1>0, <1>1 DEF Arranged, Listed, Found, Among, CandidateLabels
  <2>3. Distinct(Shrunk(t)) /\ (col[t].back # "tearLarge" => ~Among(Candidate(t), Shrunk(t)))
    BY <2>2, <1>0, <1>1, ShrunkDistinct
  <2>4. SubList(Shrunk(t), allocations[col[t].page])
    BY <1>0, <1>1, ShrunkEntries DEF Listed
  <2>5. Born \subseteq Born'
    BY <1>0 DEF Born
  <2>6. PICK l \in Lists, rest \in {Shrunk(t)} : l = col[t].page /\ rest = Shrunk(t)
    BY <1>1
  <2>7. allocations' = [allocations EXCEPT ![l] = rest] /\ SubList(rest, allocations[l]) /\ Distinct(rest)
    BY <1>4, <2>3, <2>4, <2>6
  <2>8. /\ Arranged' /\ allocations'[l] = rest
        /\ \A m \in Lists \ {l} : allocations'[m] = allocations[m]
        /\ \A m \in Lists : \A i \in DOMAIN allocations'[m] : Among(allocations'[m][i], allocations[m])
    BY <2>5, <2>7, <1>1, ListShrinks, Zenon
  <2>9. pc'[t] \notin CandidateLabels
    BY <1>1, <1>4 DEF Backs, CandidateLabels, ScanLabels, FindLabels, DestroyLabels
  <2>10. Found(t)'
    BY <2>9 DEF Found, CandidateLabels
  <2>11. Registered(t)'
    <3> SUFFICES ASSUME ~Severed(t), NEW m \in Lists, NEW i \in DOMAIN allocations'[m]
                 PROVE  allocations'[m][i] \in lookup
      BY <2>1, <1>0 DEF Registered
    <3>1. col[t].back # "tearLarge"
      BY <1>0 DEF Severed, ListLabels, DestroyLabels
    <3>2. Among(Candidate(t), Listed(t))
      <4>1. CASE col[t].back = "colNext"
        BY <4>1, <2>2
      <4>2. CASE col[t].back = "fastNext"
        BY <4>2, <2>2, <1>1, LenProperties, EmptySeq DEF Listed, Among
      <4> QED
        BY <4>1, <4>2, <3>1, <1>1 DEF Backs
    <3>3. allocations'[m][i] # Candidate(t)
      <4>1. CASE m = l
        BY <4>1, <3>1, <2>3, <2>6, <2>8 DEF Among
      <4>2. CASE m # l
        BY <4>2, <3>2, <2>6, <1>1, <2>8 DEF Arranged, Among, Listed
      <4> QED
        BY <4>1, <4>2
    <3>4. Among(allocations'[m][i], allocations[m])
      BY <2>8
    <3> QED
      BY <3>3, <3>4, <1>1 DEF Registered, Among
  <2> QED
    BY <2>8, <2>10, <2>11, <1>2 DEF Listings
<1>5. \/ pc'[t] \in DestroyLabels /\ allocations' = allocations
      \/ /\ allocations' = [allocations EXCEPT ![col[t].page] = Shrunk(t)] /\ pc'[t] = col[t].back
         /\ pc[t] = "desField"
  BY <1>0 DEF DestroyMoves, DestroyLabels
<1> QED
  BY <1>3, <1>4, <1>5

\* FastNext: the next large object lives, is destroyed, or cannot be locked.
FastMoves(t, o) ==
    \/ /\ o \notin garbage /\ pc'[t] = "fastNext"
       /\ WalkLocals(t, col[t].i + 1, col[t].slot, col[t].obj)
       /\ UNCHANGED <<allocations, word, rwSet, fault>>
    \/ /\ o \in garbage /\ allocations' = [allocations EXCEPT ![Large] = ToTheEnd(Listed(t), col[t].i)]
       /\ \/ /\ TakeWrite(t, o) /\ pc'[t] = "desUnregister"
             /\ WalkLocals(t, col[t].i, col[t].slot, o) /\ UNCHANGED fault
          \/ word[o] # Free /\ pc'[t] = Idle /\ UNCHANGED <<word, rwSet>>

LEMMA FastSteps ==
    ASSUME RootInv, NEW t \in Threads, Threads = {t}, Placed(t), FastNext(t)
    PROVE  /\ pc[t] = "fastNext" /\ col[t] \in Walks /\ col[t].page = Large /\ col[t].back = "fastNext"
           /\ Listed(t) \in Seq(Objects) /\ col[t].i \in DOMAIN Listed(t)
           /\ col[t].i \in Nat \ {0} /\ col[t].i <= Len(Listed(t))
           /\ FastMoves(t, Listed(t)[col[t].i])
           /\ UNCHANGED <<rootCount, refBy, garbage, field, allocated, lookup, roots, roPins, rwPins, loc, stk>>
<1>0. /\ pc = [u \in Threads |-> pc[u]] /\ col = [u \in Threads |-> col[u]]
      /\ HeapTypes /\ WalkPlaces(t) /\ allocations \in [Lists -> Seq(Objects)]
  BY DEF RootInv, HandleTypes, Placed, HeapTypes
<1> USE DEF headerVars, heapVars, implVars, clientVars, opVars, colVars, Goto, StartCol, Idle
<1>1. /\ pc[t] = "fastNext" /\ col[t] \in Walks /\ col[t].page = Large /\ col[t].back = "fastNext" /\ Large \in Lists
      /\ col[t].i \in Nat \ {0} /\ ~FastEnds(t)
      /\ UNCHANGED <<rootCount, refBy, garbage, field, allocated, lookup, roots, roPins, rwPins, loc, stk>>
  BY <1>0, Zenon DEF FastNext, WalkPlaces, ListLabels, Walks
<1>2. PICK list \in Seq(Objects) : list = allocations[Large] /\ list = Listed(t)
  BY <1>0, <1>1 DEF Listed
<1>3. col[t].i <= Len(list) /\ col[t].i \in DOMAIN list
  BY <1>1, <1>2, LenProperties DEF FastEnds
<1>4. PICK o : o = list[col[t].i]
  OBVIOUS
<1>5. CASE o \notin garbage
  BY <1>0, <1>1, <1>2, <1>4, <1>5, WalkMoves, <1>3 DEF FastNext, lockVars, WalkLocals, FastMoves
<1>6. CASE o \in garbage
  <2>1. allocations' = [allocations EXCEPT ![Large] = ToTheEnd(list, col[t].i)]
    BY <1>2, <1>4, <1>6, Zenon DEF FastNext, ToTheEnd
  <2>2. PICK c : c = [col[t] EXCEPT !.obj = o]
    BY Zenon
  <2>3. \/ TakeWrite(t, o) /\ pc'[t] = "desUnregister" /\ col'[t] = c /\ UNCHANGED fault
        \/ word[o] # Free /\ UNCHANGED lockVars /\ pc'[t] = Idle
    BY <2>2, <1>0, <1>2, <1>4, <1>6, Zenon DEF FastNext, Abort
  <2>4. col'[t] = c => WalkLocals(t, col[t].i, col[t].slot, o)
    BY <2>2, <1>1, WalkLooks DEF WalkLocals, Walks
  <2> QED
    BY <2>1, <2>3, <2>4, <1>1, <1>2, <1>3, <1>4, <1>6 DEF FastMoves, lockVars
<1> QED
  BY <1>5, <1>6

\* A dying object on the list of large objects is locked by nobody.
LEMMA FastFindsFree ==
    ASSUME RootInv, NEW t \in Threads, Threads = {t}, Placed(t), Spared(t), Listings(t), Locks(t),
           pc[t] = "fastNext", NEW o \in Objects, o \in garbage, o \in lookup
    PROVE  word[o] = Free
<1>1. rootCount[o] = 0
  BY DEF Spared, Gone
<1>2. o \notin roPins[t] /\ o \notin rwPins[t]
  BY <1>1, PinsAreCounted
<1>3. o \notin Reading(t) /\ o \notin Writing(t)
  BY <1>2 DEF Reading, Writing, Reads, Writes, Dead, SetLabels, DestroyLabels, FindLabels
<1> QED
  BY <1>3, WordFacts DEF Locks, Locked

LEMMA FastListings ==
    ASSUME RootInv, NEW t \in Threads, Threads = {t}, Placed(t), Placed(t)', Spared(t), Listings(t), Locks(t),
           FastNext(t)
    PROVE  Listings(t)' /\ fault' = fault
<1>0. /\ pc[t] = "fastNext" /\ col[t] \in Walks /\ col[t].page = Large /\ col[t].back = "fastNext"
      /\ Listed(t) \in Seq(Objects) /\ col[t].i \in DOMAIN Listed(t)
      /\ col[t].i \in Nat \ {0} /\ col[t].i <= Len(Listed(t)) /\ Large \in Lists
      /\ FastMoves(t, Listed(t)[col[t].i]) /\ UNCHANGED <<allocated, lookup>>
  BY FastSteps DEF Walks
<1>1. /\ ~Severed(t) /\ ~Severed(t)' /\ Arranged /\ Registered(t)
      /\ allocations \in [Lists -> Seq(Objects)]
  BY OtherWalksAreStill DEF Listings, Placed, HeapTypes
<1>2. PICK o \in Objects : o = Listed(t)[col[t].i]
  BY <1>0, LenProperties
<1>3. \A l \in Lists : \A i \in DOMAIN allocations[l] : allocations[l][i] \in lookup
  BY <1>0, <1>1 DEF Registered, DestroyLabels
<1>4. o \in lookup /\ o \in Born
  BY <1>0, <1>1, <1>2, <1>3 DEF Listed, Arranged
<1>5. FastMoves(t, o)
  BY <1>0, <1>2
<1>6. fault' = fault
  BY <1>0, <1>4, FastFindsFree, <1>5 DEF FastMoves
<1>7. CASE o \notin garbage
  BY <1>0, <1>5, <1>7, <1>1, <1>6, ListsKept, Zenon
 DEF FastMoves, DestroyLabels, CandidateLabels, ScanLabels, FindLabels
<1>8. CASE o \in garbage
  <2>1. PICK list \in Seq(Objects), n \in Nat \ {0} : list = Listed(t) /\ n = Len(list) /\ col[t].i <= n
    BY <1>0
  <2>2. PICK rest : rest = ToTheEnd(list, col[t].i)
    OBVIOUS
  <2>3. rest \in Seq(Objects) /\ Len(rest) = Len(list) /\ SubList(rest, list) /\ rest[Len(list)] = list[col[t].i]
    <3>1. PICK i \in Nat \ {0} : i = col[t].i /\ i <= Len(list)
      BY <2>1, <1>0
    <3>2. rest = ToTheEnd(list, i)
      BY <2>2, <3>1
    <3>3. rest \in Seq(Objects) /\ Len(rest) = Len(list) /\ SubList(rest, list) /\ rest[Len(list)] = list[i]
      BY <3>1, <3>2, ToTheEndSeq
    <3> QED
      BY <3>1, <3>3
  <2>4. Distinct(rest)
    BY <2>1, <1>0, <1>1, <2>2, ToTheEndDistinct DEF Arranged, Listed
  <2>5. allocations' = [allocations EXCEPT ![Large] = rest]
    BY <2>1, <2>2, <1>5, <1>8 DEF FastMoves
  <2>6. /\ Arranged' /\ allocations'[Large] = rest
        /\ \A m \in Lists : \A i \in DOMAIN allocations'[m] : Among(allocations'[m][i], allocations[m])
    BY <2>1, <2>3, <1>0, <2>4, <2>5, <1>1, ListShrinks, Zenon DEF Listed, Born
  <2>7. Registered(t)'
    BY <2>6, <1>0, <1>3 DEF Registered, Among
  <2>8. /\ pc'[t] \in {"desUnregister", Idle}
        /\ pc'[t] = "desUnregister" => WalkLocals(t, col[t].i, col[t].slot, o)
    BY <1>5, <1>8 DEF FastMoves, Idle
  <2>9. Found(t)'
    <3>1. CASE pc'[t] = Idle
      BY <3>1 DEF Found, CandidateLabels, ScanLabels, FindLabels, DestroyLabels, Idle
    <3>2. CASE pc'[t] = "desUnregister"
      BY <3>2, <2>8, <1>0, <2>1, <2>3, <2>6, <1>2, EmptySeq, <1>4
      DEF WalkLocals, Candidate, Listed, Born, Found
    <3> QED
      BY <2>8, <3>1, <3>2
  <2> QED
    BY <2>6, <2>7, <2>9, <1>6 DEF Listings
<1> QED
  BY <1>7, <1>8

\* The other walks over the large objects, and the starts of walks.
LEMMA StartListings ==
    ASSUME RootInv, NEW t \in Threads, Threads = {t}, Placed(t), Placed(t)', Listings(t),
           FastEnd(t) \/ NewLarge(t) \/ Destroy(t) \/ \E p \in Lists : CollectBegin(t, p)
    PROVE  Listings(t)' /\ fault' = fault
<1>0. /\ pc = [u \in Threads |-> pc[u]] /\ ~Severed(t) /\ ~Severed(t)' /\ LargeObjects \subseteq Objects
  BY OtherWalksAreStill, GraphAssumption DEF RootInv, HandleTypes
<1> USE DEF headerVars, heapVars, implVars, clientVars, opVars, colVars, Goto, StartCol, Idle
<1>1. /\ fault' = fault
      /\ \/ UNCHANGED <<allocations, allocated, lookup>>
         \/ \E p \in Lists : Registers(p)
      /\ pc[t] \in {"fastNext", "idle"} /\ pc'[t] \in {"fastNext", "idle", "tearSever", "colId"}
  <2>1. CASE FastEnd(t)
    <3>1. pc[t] = "fastNext" /\ pc'[t] = "idle" /\ fault' = fault
      BY <2>1, <1>0 DEF FastEnd
    <3>2. CASE UNCHANGED <<rootCount, heapVars, roots>>
      BY <3>1, <3>2
    <3>3. CASE ~UNCHANGED <<rootCount, heapVars, roots>>
      BY <2>1, <3>3, <1>0, <3>1, LargeIsList DEF FastEnd, RegisterObject, Registers
    <3> QED
      BY <3>2, <3>3
  <2>2. CASE NewLarge(t) \/ Destroy(t) \/ \E p \in Lists : CollectBegin(t, p)
    BY <2>2, <1>0 DEF NewLarge, Destroy, CollectBegin
  <2> QED
    BY <2>1, <2>2
<1>2. /\ pc[t] \notin DestroyLabels /\ pc'[t] \notin DestroyLabels \cup CandidateLabels
      /\ lookup \subseteq lookup'
  BY <1>1 DEF DestroyLabels, CandidateLabels, ScanLabels, FindLabels, Registers
<1>3. Listings(t)'
  BY <1>0, <1>1, <1>2, ListsKept
<1> QED
  BY <1>1, <1>3

\* The steps of the teardown; its last walk keeps the list as it is.
TearMoves(t) ==
    /\ pc[t] = "tearSever" =>
         /\ pc'[t] = "tearPages" /\ UNCHANGED <<allocations, lookup, garbage, word, rwSet>>
    /\ pc[t] = "tearPages" =>
         \/ /\ pc'[t] = "tearPages"
            /\ \E p \in Pages, o \in Objects :
                  /\ allocations[p] # <<>> /\ o = allocations[p][Len(allocations[p])]
                  /\ TakeWrite(t, o) /\ lookup' = lookup \ {o} /\ garbage' = garbage \cup {o}
                  /\ allocations' = [allocations EXCEPT ![p] = SubSeq(allocations[p], 1, Len(allocations[p]) - 1)]
         \/ pc'[t] \in {"tearLarge", "down"} /\ UNCHANGED <<allocations, lookup, garbage, word, rwSet>>
    /\ pc[t] = "tearLarge" =>
         /\ UNCHANGED <<allocations, lookup, garbage, word, rwSet>>
         /\ \/ pc'[t] = "down"
            \/ /\ pc'[t] = "desUnregister" /\ col[t].i \in DOMAIN allocations[Large] /\ Large \in Lists
               /\ WalkLocals(t, col[t].i, col[t].slot, allocations[Large][col[t].i])
               /\ col[t].back = "tearLarge"

LEMMA TearSteps ==
    ASSUME RootInv, NEW t \in Threads, Threads = {t}, Placed(t), TearDown(t)
    PROVE  /\ pc[t] \in {"tearSever", "tearPages", "tearLarge"}
           /\ TearMoves(t)
           /\ UNCHANGED <<rootCount, allocated, roots, roPins, rwPins, loc, fault, stk>>
<1>0. /\ pc = [u \in Threads |-> pc[u]] /\ col = [u \in Threads |-> col[u]]
      /\ WalkPlaces(t) /\ allocations \in [Lists -> Seq(Objects)] /\ Pages \subseteq Lists
  BY DEF Placed, HeapTypes, RootInv, HandleTypes, Lists
<1> USE DEF headerVars, heapVars, implVars, clientVars, opVars, colVars, Goto, StartCol
<1>1. CASE TearSever(t)
  BY <1>1, <1>0 DEF TearSever, TearMoves, lockVars
<1>2. CASE TearPages(t)
  <2>1. PICK p \in Pages, o \in {allocations[q][Len(allocations[q])] : q \in Pages} :
           /\ allocations[p] # <<>> /\ o = allocations[p][Len(allocations[p])]
           /\ TakeWrite(t, o) /\ lookup' = lookup \ {o} /\ garbage' = garbage \cup {o}
           /\ allocations' = [allocations EXCEPT ![p] = SubSeq(@, 1, Len(@) - 1)]
    BY <1>2, Zenon DEF TearPages
  <2>2. /\ pc[t] = "tearPages" /\ pc'[t] = "tearPages"
        /\ UNCHANGED <<rootCount, allocated, roots, roPins, rwPins, loc, fault, stk>>
    BY <1>2 DEF TearPages
  <2>3. PICK list \in Seq(Objects) : list = allocations[p] /\ list # <<>>
    BY <2>1, <1>0
  <2>4. o \in Objects
    BY <2>3, EmptySeq, <2>1, ElementOfSeq
  <2>5. allocations' = [allocations EXCEPT ![p] = SubSeq(allocations[p], 1, Len(allocations[p]) - 1)]
    BY <2>1, <1>0
  <2> QED
    BY <2>1, <2>2, <2>4, <2>5, Zenon DEF TearMoves
<1>3. CASE TearPagesEnd(t)
  BY <1>3, <1>0 DEF TearPagesEnd, lockVars, TearMoves
<1>4. CASE TearLarge(t)
  <2>1. /\ pc[t] = "tearLarge" /\ UNCHANGED <<rootCount, allocated, roots, roPins, rwPins, loc, fault, stk>>
        /\ UNCHANGED <<allocations, lookup, garbage, word, rwSet>>
        /\ col[t] \in Walks /\ col[t].back = "tearLarge" /\ col[t].page = Large /\ Large \in Lists
        /\ col[t].i \in Nat \ {0}
    BY <1>4, <1>0 DEF TearLarge, lockVars, WalkPlaces, ListLabels, Walks
  <2>2. CASE col[t].i > Len(allocations[Large])
    BY <2>2, <1>4, <1>0, <2>1 DEF TearLarge, TearMoves
  <2>3. CASE ~(col[t].i > Len(allocations[Large]))
    <3>1. PICK o : o = allocations[Large][col[t].i]
      OBVIOUS
    <3>2. PICK c : c = [col[t] EXCEPT !.obj = o]
      BY Zenon
    <3>3. pc'[t] = "desUnregister" /\ col'[t] = c
      BY <2>3, <3>1, <3>2, <1>4, <1>0 DEF TearLarge
    <3>4. WalkLocals(t, col[t].i, col[t].slot, o)
      BY <3>2, <3>3, <2>1 DEF WalkLocals, Walks
    <3>5. col[t].i \in DOMAIN allocations[Large]
      BY <2>1, <1>0, <2>3, LenProperties
    <3> QED
      BY <3>1, <3>3, <3>4, <3>5, <2>1 DEF TearMoves
  <2> QED
    BY <2>2, <2>3
<1> QED
  BY <1>1, <1>2, <1>3, <1>4 DEF TearDown

LEMMA TearListings ==
    ASSUME RootInv, NEW t \in Threads, Threads = {t}, Placed(t), Placed(t)', Listings(t), TearDown(t)
    PROVE  Listings(t)' /\ fault' = fault
<1>0. /\ pc[t] \in {"tearSever", "tearPages", "tearLarge"} /\ TearMoves(t)
      /\ UNCHANGED <<allocated, fault>> /\ Arranged /\ WalkPlaces(t)'
      /\ allocations \in [Lists -> Seq(Objects)] /\ Pages \subseteq Lists
      /\ Born' = Born
  BY TearSteps DEF Listings, Placed, HeapTypes, Lists, Born
<1>1. pc'[t] \in {"tearPages", "tearLarge", "down", "desUnregister"}
  BY <1>0 DEF TearMoves
<1>2. Severed(t)'
  BY <1>0, <1>1 DEF TearMoves, WalkLocals, WalkPlaces, Severed, ListLabels
<1>3. Registered(t)'
  BY <1>2 DEF Registered
<1>4. Arranged'
  <2>1. CASE allocations' = allocations
    BY <2>1, <1>0, SameArranged
  <2>2. CASE allocations' # allocations
    <3>1. PICK p \in Pages : /\ allocations[p] # <<>>
                             /\ allocations' = [allocations EXCEPT ![p] = SubSeq(allocations[p], 1, Len(allocations[p]) - 1)]
      BY <2>2, <1>0 DEF TearMoves
    <3>2. PICK list \in Seq(Objects) : list = allocations[p] /\ p \in Lists /\ list # <<>>
      BY <3>1, <1>0
    <3>3. PICK rest : rest = SubSeq(list, 1, Len(list) - 1)
      BY Zenon
    <3>4. SubList(rest, list) /\ Distinct(rest)
      BY <3>2, <1>0, <3>3, FrontEntries, FrontDistinct DEF Arranged
    <3>5. allocations' = [allocations EXCEPT ![p] = rest] /\ SubList(rest, allocations[p])
      BY <3>1, <3>2, <3>3, <3>4
    <3> QED
      BY <3>2, <3>4, <3>5, <1>0, ListShrinks, Zenon
  <2> QED
    BY <2>1, <2>2
<1>5. Found(t)'
  <2>1. CASE pc'[t] = "desUnregister"
    BY <2>1, <1>0 DEF TearMoves, WalkLocals, Candidate, Arranged, Found
  <2>2. CASE pc'[t] # "desUnregister"
    BY <2>2, <1>1 DEF Found, CandidateLabels, ScanLabels, FindLabels, DestroyLabels
  <2> QED
    BY <2>1, <2>2
<1> QED
  BY <1>0, <1>3, <1>4, <1>5 DEF Listings

LEMMA InitListings == ASSUME NEW t \in Threads, Init PROVE Listings(t)
<1>1. \A l \in Lists : allocations[l] = <<>> /\ DOMAIN allocations[l] = {}
  BY DEF Init
<1>2. pc[t] = Idle
  BY DEF Init
<1>3. Arranged
  BY <1>1 DEF Arranged, Distinct
<1>4. Registered(t)
  BY <1>1 DEF Registered
<1> QED
  BY <1>2, <1>3, <1>4 DEF Listings, Found, CandidateLabels, ScanLabels, FindLabels, DestroyLabels, Idle

HandleLabels == {Idle, "pinLock", "pinCount", "dropTest", "dropLock", "dropCount", "dropFlag", "dropRelease"}

\* What a thread within an operation on a handle has access to.
LEMMA HandleAccess ==
    ASSUME NEW t \in Threads
    PROVE  /\ pc[t] \in HandleLabels => \A x :
                 /\ Reads(t, x) <=> \/ x \in roPins[t]
                                    \/ pc[t] = "pinCount" /\ loc[t].mode = "ro" /\ loc[t].obj = x
                                    \/ pc[t] \in {"dropCount", "dropFlag", "dropRelease"} /\ loc[t].hold = TRUE /\ loc[t].obj = x
                 /\ Writes(t, x) <=> \/ x \in rwPins[t] \/ x \in Dead
                                     \/ pc[t] = "pinCount" /\ loc[t].mode = "rw" /\ loc[t].obj = x
                                     \/ pc[t] = "dropRelease" /\ loc[t].obj = x
           /\ pc'[t] \in HandleLabels => \A x :
                 /\ Reads(t, x)' <=> \/ x \in roPins'[t]
                                     \/ pc'[t] = "pinCount" /\ loc'[t].mode = "ro" /\ loc'[t].obj = x
                                     \/ pc'[t] \in {"dropCount", "dropFlag", "dropRelease"} /\ loc'[t].hold = TRUE /\ loc'[t].obj = x
                 /\ Writes(t, x)' <=> \/ x \in rwPins'[t] \/ x \in Dead'
                                      \/ pc'[t] = "pinCount" /\ loc'[t].mode = "rw" /\ loc'[t].obj = x
                                      \/ pc'[t] = "dropRelease" /\ loc'[t].obj = x
  BY DEF HandleLabels, FindLabels, SetLabels, DestroyLabels, Idle, Reads, Writes

LEMMA PinLocks ==
    ASSUME RootInv, NEW t \in Threads, Threads = {t}, Placed(t), Locks(t),
           \/ New(t) \/ PinLock(t) \/ PinCount(t)
           \/ \E o \in Born : CopyRoot(t, o) \/ DropRoot(t, o) \/ Unpin(t, o)
                              \/ Pin(t, o, "ro") \/ Pin(t, o, "rw")
    PROVE  Locks(t)'
<1>0. /\ pc = [u \in Threads |-> pc[u]] /\ loc = [u \in Threads |-> loc[u]]
      /\ roPins \in [Threads -> SUBSET Objects] /\ rwPins \in [Threads -> SUBSET Objects]
      /\ word \in [Objects -> Nat] /\ HandleLocals(t) /\ lookup \subseteq Born /\ Born \subseteq Objects
      /\ Locked(word, Reading(t), Writing(t)) /\ allocated \in Nat
  BY GoneFacts, GraphAssumption DEF RootInv, HandleTypes, Placed, HeapTypes, LockTypes, Locks, NoHandlesAhead
<1>a. "idle" \in HandleLabels /\ "pinLock" \in HandleLabels /\ "pinCount" \in HandleLabels /\ "dropTest" \in HandleLabels
  BY DEF HandleLabels, Idle
<1> USE DEF headerVars, heapVars, implVars, clientVars, opVars, colVars, Goto, StartOp, EndOp, Idle
<1>1. ASSUME Locked(word', Reading(t)', Writing(t)'), pc'[t] \in {"idle", "pinLock", "pinCount"}
             \/ (pc'[t] = "dropTest" /\ loc'[t].hold = FALSE)
      PROVE  Locks(t)'
  BY <1>1 DEF Locks, Dropped, FindLabels
<1>2. CASE New(t)
  <2>1. /\ pc[t] = "idle" /\ pc'[t] = "idle" /\ UNCHANGED <<word, roPins, rwPins>>
        /\ allocated' = allocated + 1 /\ lookup' = lookup \cup {allocated + 1}
    BY <1>2 DEF New, RegisterObject, lockVars
  <2>2. Dead \subseteq Dead'
    BY <2>1, <1>0 DEF Dead, Born
  <2>3. \A x \in Objects : (x \in Reading(t) => x \in Reading(t)') /\ (x \in Writing(t) => x \in Writing(t)')
    BY <2>1, <2>2, <1>a, HandleAccess, Zenon DEF Reading, Writing
  <2> QED
    BY <2>1, <2>3, <1>0, <1>1, SameLocked
<1>3. CASE PinLock(t)
  <2>1. PICK o \in Objects : o = loc[t].obj
    BY <1>3, <1>0 DEF PinLock, HandleLocals, PinLabels
  <2>2. /\ pc[t] = "pinLock" /\ pc'[t] = "pinCount" /\ UNCHANGED <<roPins, rwPins, loc, allocated, lookup>>
        /\ IF loc[t].mode = "rw" THEN TakeWrite(t, o) ELSE TakeRead(o)
    BY <1>3, <1>0, <2>1 DEF PinLock
  <2>3. loc[t].mode \in {"ro", "rw"} /\ o \notin roPins[t]
    BY <2>1, <2>2, <1>0 DEF HandleLocals, PinLabels, Pins
  <2>4. Dead' = Dead
    BY <2>2 DEF Dead, Born
  <2>5. \A x \in Objects : (x \in Reading(t) => x \in Reading(t)') /\ (x \in Writing(t) => x \in Writing(t)')
    BY <2>2, <2>4, <1>a, HandleAccess, Zenon DEF Reading, Writing
  <2>6. CASE loc[t].mode = "rw"
    <3>1. o \in Writing(t)'
      BY <2>1, <2>2, <2>6, <1>a, HandleAccess, Zenon DEF Writing
    <3> QED
      BY <3>1, <2>2, <2>5, <2>6, <1>0, <1>1, WriteLocked
  <2>7. CASE loc[t].mode # "rw"
    <3>1. o \notin Reading(t) /\ o \in Reading(t)'
      BY <2>1, <2>2, <2>3, <2>7, <1>a, HandleAccess, Zenon DEF Reading
    <3> QED
      BY <3>1, <2>2, <2>5, <2>7, <1>0, <1>1, ReadLocked
  <2> QED
    BY <2>6, <2>7
<1>4. CASE PinCount(t)
  BY <1>4, <1>0, <1>a, HandleAccess, <1>1, SameLocked
  DEF PinCount, HandleLocals, PinLabels, lockVars, Dead, Born, Reading, Writing
<1>5. ASSUME NEW o \in Born, CopyRoot(t, o) \/ DropRoot(t, o) \/ Pin(t, o, "ro") \/ Pin(t, o, "rw")
      PROVE  Locks(t)'
  <2>1. /\ pc[t] = "idle" /\ UNCHANGED <<word, roPins, rwPins, allocated, lookup>>
        /\ pc'[t] \in {"idle", "pinLock", "dropTest"} /\ (pc'[t] = "dropTest" => loc'[t].hold = FALSE)
    BY <1>5, <1>0 DEF CopyRoot, DropRoot, Pin, lockVars
  <2>2. Dead' = Dead
    BY <2>1 DEF Dead, Born
  <2>3. \A x \in Objects : (x \in Reading(t) => x \in Reading(t)') /\ (x \in Writing(t) => x \in Writing(t)')
    BY <2>1, <2>2, <1>a, HandleAccess, Zenon DEF Reading, Writing
  <2> QED
    BY <2>1, <2>3, <1>0, <1>1, SameLocked, Zenon
<1>6. ASSUME NEW o \in Born, Unpin(t, o) PROVE Locks(t)'
  <2>1. /\ pc[t] = "idle" /\ UNCHANGED <<allocated, lookup>> /\ DropLock(t, o)
        /\ roPins'[t] = roPins[t] \ {o} /\ rwPins'[t] = rwPins[t] \ {o}
        /\ pc'[t] = "dropTest" /\ loc'[t].hold = FALSE
    BY <1>6, <1>0 DEF Unpin
  <2>2. Dead' = Dead /\ o \in Objects
    BY <2>1, <1>0 DEF Dead, Born
  <2>3. \A x \in Objects \ {o} : (x \in Reading(t) => x \in Reading(t)') /\ (x \in Writing(t) => x \in Writing(t)')
    BY <2>1, <2>2, <1>a, HandleAccess, Zenon DEF Reading, Writing
  <2> QED
    BY <2>1, <2>2, <2>3, <1>0, <1>1, DropLocked, Zenon
<1> QED
  BY <1>2, <1>3, <1>4, <1>5, <1>6

LEMMA DropLocks ==
    ASSUME RootInv, NEW t \in Threads, Threads = {t}, Placed(t), Locks(t), Drop(t)
    PROVE  Locks(t)'
<1>0. /\ pc = [u \in Threads |-> pc[u]] /\ loc = [u \in Threads |-> loc[u]]
      /\ word \in [Objects -> Nat] /\ HandleLocals(t) /\ Born \subseteq Objects
      /\ Locked(word, Reading(t), Writing(t)) /\ Dropped(t) /\ rootCount \in [Objects -> Nat]
  BY GoneFacts DEF RootInv, HandleTypes, Placed, HeapTypes, LockTypes, Locks
<1> USE DEF headerVars, heapVars, implVars, clientVars, opVars, colVars, Goto, StartOp, EndOp, Idle
<1>1. /\ pc[t] \in {"dropTest", "dropLock", "dropCount", "dropFlag", "dropRelease"}
      /\ pc'[t] \in {"dropLock", "dropCount", "dropFlag", "dropRelease", "idle"}
      /\ UNCHANGED <<allocated, lookup, roPins, rwPins>>
      /\ loc[t] \in [obj : Born, hold : BOOLEAN]
  <2>1. /\ pc[t] \in {"dropTest", "dropLock", "dropCount", "dropFlag", "dropRelease"}
        /\ pc'[t] \in {"dropLock", "dropCount", "dropFlag", "dropRelease", "idle"}
        /\ UNCHANGED <<allocated, lookup, roPins, rwPins>>
    BY <1>0 DEF Drop, DropTest, DropLockObject, DropCount, DropFlag, DropRelease, AfterDrop
  <2> QED
    BY <2>1, <1>0 DEF HandleLocals, DropLabels, Placed, OpPlaces
<1>2. PICK o \in Objects : o = loc[t].obj
  BY <1>0, <1>1
<1>3. /\ Dead' = Dead /\ pc[t] \in HandleLabels /\ pc'[t] \in HandleLabels /\ loc[t].hold \in BOOLEAN
  BY <1>1 DEF Dead, Born, HandleLabels
<1>4. ASSUME Locked(word', Reading(t)', Writing(t)'), Dropped(t)' PROVE Locks(t)'
  BY <1>1, <1>4 DEF Locks, FindLabels
<1>5. CASE DropTest(t)
  <2>1. /\ pc[t] = "dropTest" /\ UNCHANGED <<word, loc, rootCount>>
        /\ pc'[t] = IF rootCount[o] = 1 THEN "dropLock" ELSE "dropCount"
    BY <1>5, <1>0, <1>2 DEF DropTest, lockVars
  <2>2. \A x \in Objects : (x \in Reading(t) => x \in Reading(t)') /\ (x \in Writing(t) => x \in Writing(t)')
    BY <2>1, <1>1, <1>3, HandleAccess, Zenon DEF Reading, Writing
  <2>3. Dropped(t)'
    BY <2>1, <1>0, <1>2 DEF Dropped
  <2> QED
    BY <2>1, <2>2, <2>3, <1>0, <1>4, SameLocked
<1>6. CASE DropLockObject(t)
  <2>1. /\ pc[t] = "dropLock" /\ TakeRead(o) /\ pc'[t] = "dropCount" /\ loc'[t] = [loc[t] EXCEPT !.hold = TRUE]
    BY <1>6, <1>0, <1>2 DEF DropLockObject
  <2>2. loc'[t].obj = o /\ loc'[t].hold = TRUE
    BY <2>1, <1>1, <1>2
  <2>3. o \notin roPins[t]
    BY <2>1, <1>2, <1>0, PinsAreCounted DEF Droppers, DropLabels, Dropped
  <2>4. o \notin Reading(t) /\ o \in Reading(t)'
    BY <2>1, <2>2, <2>3, <1>3, HandleAccess, Zenon DEF Reading
  <2>5. \A x \in Objects : (x \in Reading(t) => x \in Reading(t)') /\ (x \in Writing(t) => x \in Writing(t)')
    BY <2>1, <1>1, <1>3, HandleAccess, Zenon DEF Reading, Writing
  <2>6. Locked(word', Reading(t)', Writing(t)') /\ word'[o] = 1
    BY <2>1, <2>4, <2>5, <1>0, ReadLocked, Zenon
  <2>7. Dropped(t)'
    BY <2>1, <2>2, <2>6 DEF Dropped
  <2> QED
    BY <2>6, <2>7, <1>4
<1>7. CASE DropCount(t)
  <2>1. /\ pc[t] = "dropCount" /\ UNCHANGED <<word>>
        /\ \/ rootCount[o] = 1 /\ pc'[t] = "dropFlag" /\ loc'[t] = loc[t]
           \/ loc[t].hold = TRUE /\ pc'[t] = "dropRelease" /\ loc'[t] = loc[t]
           \/ loc[t].hold = FALSE /\ pc'[t] = "idle"
    BY <1>7, <1>0, <1>2, <1>3 DEF DropCount, AfterDrop, lockVars
  <2>2. \A x \in Objects : (x \in Reading(t) => x \in Reading(t)') /\ (x \in Writing(t) => x \in Writing(t)')
    <3>1. loc[t].hold = TRUE => pc'[t] # "idle"
      BY <2>1
    <3> QED
      BY <3>1, <2>1, <1>1, <1>3, HandleAccess, ZenonT(30) DEF Reading, Writing
  <2>3. Dropped(t)'
    BY <2>1, <1>0, <1>2 DEF Dropped
  <2> QED
    BY <2>1, <2>2, <2>3, <1>0, <1>4, SameLocked
<1>8. CASE DropFlag(t)
  <2>1. /\ pc[t] = "dropFlag" /\ loc[t].hold = TRUE /\ pc'[t] = "dropRelease" /\ loc'[t] = loc[t]
        /\ TakeUpgrade(t, o) \/ word' = word
    BY <1>8, <1>0, <1>2 DEF DropFlag, AfterDrop, lockVars, Dropped
  <2>2. \A x \in Objects : (x \in Reading(t) => x \in Reading(t)') /\ (x \in Writing(t) => x \in Writing(t)')
    BY <2>1, <1>1, <1>3, HandleAccess, ZenonT(30) DEF Reading, Writing
  <2>3. o \in Writing(t)'
    BY <2>1, <1>2, <1>3, HandleAccess, Zenon DEF Writing
  <2>4. Locked(word', Reading(t)', Writing(t)')
    BY <2>1, <2>2, <2>3, <1>0, UpgradeLocked, SameLocked
  <2>5. Dropped(t)'
    BY <2>1 DEF Dropped
  <2> QED
    BY <2>4, <2>5, <1>4
<1>9. CASE DropRelease(t)
  <2>1. pc[t] = "dropRelease" /\ pc'[t] = "idle" /\ DropLock(t, o)
    BY <1>9, <1>0, <1>2 DEF DropRelease
  <2>2. \A x \in Objects \ {o} : (x \in Reading(t) => x \in Reading(t)') /\ (x \in Writing(t) => x \in Writing(t)')
    BY <2>1, <1>1, <1>2, <1>3, HandleAccess, Zenon DEF Reading, Writing
  <2>3. Dropped(t)'
    BY <2>1 DEF Dropped
  <2> QED
    BY <2>1, <2>2, <2>3, <1>0, <1>4, DropLocked
<1> QED
  BY <1>5, <1>6, <1>7, <1>8, <1>9 DEF Drop

\* What a thread within an assignment, or done with it, has access to.
LEMMA AssignAccess ==
    ASSUME NEW t \in Threads
    PROVE  /\ pc[t] \in SetLabels \cup {Idle} => \A x :
                 /\ Reads(t, x) <=> x \in roPins[t]
                 /\ Writes(t, x) <=> \/ x \in rwPins[t] \/ x \in Dead
                                     \/ pc[t] \in SetLabels \ {"setUpgrade"} /\ loc[t].role = "ro_pin" /\ loc[t].new = x
                                     \/ pc[t] = "setAdd" /\ loc[t].hold = TRUE /\ loc[t].new = x
                                     \/ pc[t] = "setRemove" /\ loc[t].hold = TRUE /\ loc[t].old = x
           /\ pc'[t] \in SetLabels \cup {Idle} => \A x :
                 /\ Reads(t, x)' <=> x \in roPins'[t]
                 /\ Writes(t, x)' <=> \/ x \in rwPins'[t] \/ x \in Dead'
                                      \/ pc'[t] \in SetLabels \ {"setUpgrade"} /\ loc'[t].role = "ro_pin" /\ loc'[t].new = x
                                      \/ pc'[t] = "setAdd" /\ loc'[t].hold = TRUE /\ loc'[t].new = x
                                      \/ pc'[t] = "setRemove" /\ loc'[t].hold = TRUE /\ loc'[t].old = x
  BY DEF FindLabels, SetLabels, DestroyLabels, Idle, Reads, Writes

LEMMA AssignLocks ==
    ASSUME RootInv, NEW t \in Threads, Threads = {t}, Placed(t), Ledger(t), Locks(t),
           Assign(t) \/ \E o \in Born, s \in Slots, x \in {Null} \cup Objects : SetField(t, o, s, x)
    PROVE  Locks(t)'
<1>0. /\ pc = [u \in Threads |-> pc[u]] /\ loc = [u \in Threads |-> loc[u]]
      /\ roPins \in [Threads -> SUBSET Objects]
      /\ word \in [Objects -> Nat] /\ Locked(word, Reading(t), Writing(t)) /\ OpPlaces(t)
  BY DEF RootInv, HandleTypes, Placed, HeapTypes, LockTypes, Locks
<1>1. ASSUME Locked(word', Reading(t)', Writing(t)'), pc'[t] \in SetLabels \cup {Idle} PROVE Locks(t)'
  BY <1>1 DEF Locks, Dropped, FindLabels, SetLabels, Idle
<1>2. CASE \E o \in Born, s \in Slots, x \in {Null} \cup Objects : SetField(t, o, s, x)
  <2>1. /\ pc[t] = Idle /\ pc'[t] \in {"setUpgrade", "setCheck"}
        /\ UNCHANGED <<word, roPins, rwPins, allocated, lookup>>
    BY <1>2, <1>0 DEF SetField, StartOp, Goto, lockVars, clientVars, heapVars
  <2>2. pc[t] \in SetLabels \cup {Idle} /\ pc'[t] \in SetLabels \cup {Idle} /\ Dead' = Dead
        /\ pc[t] \notin SetLabels
    BY <2>1 DEF SetLabels, Dead, Born, Idle
  <2>3. \A x \in Objects : (x \in Reading(t) => x \in Reading(t)') /\ (x \in Writing(t) => x \in Writing(t)')
    BY <2>1, <2>2, AssignAccess, Zenon DEF Reading, Writing, Idle
  <2> QED
    BY <2>1, <2>2, <2>3, <1>0, <1>1, SameLocked
<1>3. CASE Assign(t)
  <2>1. /\ pc[t] \in SetLabels /\ pc'[t] \in SetLabels \cup {Idle}
        /\ loc[t].new \in Objects \cup {Null} /\ loc[t].old \in Objects \cup {Null}
        /\ loc[t].hold \in BOOLEAN /\ AssignMoves(t)
        /\ UNCHANGED <<allocated, lookup, roPins, rwPins>>
    BY <1>3, AssignSteps
  <2>2. Dead' = Dead
    BY <2>1 DEF Dead, Born
  <2>3. loc[t].role = "ro_pin" => loc[t].new \in roPins[t] /\ loc[t].new \in Objects
    BY <2>1, <1>0 DEF OpPlaces
  <2>4. ASSUME NEW o, pc'[t] \in SetLabels \ {"setUpgrade"}, loc'[t].role = loc[t].role, loc'[t].new = loc[t].new,
               pc[t] = "setAdd" /\ loc[t].hold = TRUE => loc[t].new = o,
               pc[t] = "setRemove" /\ loc[t].hold = TRUE => loc[t].old = o
        PROVE  \A x \in Objects \ {o} : (x \in Reading(t) => x \in Reading(t)') /\ (x \in Writing(t) => x \in Writing(t)')
    <3> SUFFICES ASSUME NEW x \in Objects \ {o}
                 PROVE  (Reads(t, x) => Reads(t, x)') /\ (Writes(t, x) => Writes(t, x)')
      BY DEF Reading, Writing
    <3>1. Reads(t, x) => Reads(t, x)'
      BY <2>1, AssignAccess, Zenon
    <3>2. Writes(t, x) => Writes(t, x)'
      <4>1. Writes(t, x) <=> \/ x \in rwPins[t] \/ x \in Dead
                             \/ pc[t] \in SetLabels \ {"setUpgrade"} /\ loc[t].role = "ro_pin" /\ loc[t].new = x
                             \/ pc[t] = "setAdd" /\ loc[t].hold = TRUE /\ loc[t].new = x
                             \/ pc[t] = "setRemove" /\ loc[t].hold = TRUE /\ loc[t].old = x
        BY <2>1, AssignAccess, Zenon
      <4>2. x \in rwPins'[t] \/ x \in Dead' \/ (loc'[t].role = "ro_pin" /\ loc'[t].new = x) => Writes(t, x)'
        BY <2>1, <2>4, AssignAccess, Zenon
      <4> QED
        BY <4>1, <4>2, <2>1, <2>2, <2>4
    <3> QED
      BY <3>1, <3>2
  <2>5. ASSUME AssignLeaves(t), pc[t] \notin {"setAdd", "setRemove"}
        PROVE  \A x \in Objects : (x \in Reading(t) => x \in Reading(t)') /\ (x \in Writing(t) => x \in Writing(t)')
    BY <2>1, <2>2, <2>5, AssignAccess, Zenon DEF Reading, Writing, AssignLeaves, SetLabels
  <2>6. Null \notin Objects
    BY DEF Null, Objects
  <2>7. CASE pc[t] = "setUpgrade"
    <3>1. pc'[t] = "setCheck" /\ loc'[t] = loc[t] /\ TakeUpgrade(t, loc[t].new) /\ loc[t].role = "ro_pin"
      BY <2>1, <2>7, <1>0 DEF AssignMoves, OpPlaces
    <3>2. loc[t].new \in Writing(t)'
      BY <3>1, <2>1, <2>3, AssignAccess, Zenon DEF Writing, SetLabels
    <3>3. \A x \in Objects \ {loc[t].new} : (x \in Reading(t) => x \in Reading(t)') /\ (x \in Writing(t) => x \in Writing(t)')
      BY <3>1, <2>4, <2>7 DEF SetLabels
    <3> QED
      BY <3>1, <3>2, <3>3, <2>1, <2>3, <1>0, <1>1, UpgradeLocked
  <2>8. CASE pc[t] = "setCheck"
    <3>1. word' = word /\ (AssignLeaves(t) \/ (pc'[t] \in {"setAdd", "setNewLock", "setRemove", "setOldLock"}
                                               /\ loc'[t].role = loc[t].role /\ loc'[t].new = loc[t].new))
      BY <2>1, <2>8 DEF AssignMoves, AssignLocals
    <3>2. CASE AssignLeaves(t)
      BY <3>1, <3>2, <2>1, <2>5, <2>8, <1>0, <1>1, SameLocked
    <3>3. CASE ~AssignLeaves(t)
      <4>1. \A x \in Objects \ {Null} : (x \in Reading(t) => x \in Reading(t)') /\ (x \in Writing(t) => x \in Writing(t)')
        BY <3>1, <3>3, <2>4, <2>8, Zenon DEF SetLabels
      <4> QED
        BY <4>1, <3>1, <2>1, <2>6, <1>0, <1>1, SameLocked
    <3> QED
      BY <3>2, <3>3
  <2>9. CASE pc[t] = "setNewLock"
    <3>1. /\ pc'[t] = "setAdd" /\ loc'[t].role = loc[t].role /\ loc'[t].new = loc[t].new /\ loc'[t].hold = TRUE
          /\ TakeWrite(t, loc[t].new) /\ loc[t].new \in Objects
      BY <2>1, <2>9, <1>0 DEF AssignMoves, AssignLocals, OpPlaces
    <3>2. loc[t].new \in Writing(t)'
      BY <3>1, <2>1, AssignAccess, Zenon DEF Writing
    <3>3. \A x \in Objects \ {loc[t].new} : (x \in Reading(t) => x \in Reading(t)') /\ (x \in Writing(t) => x \in Writing(t)')
      BY <3>1, <2>4, <2>9, Zenon DEF SetLabels
    <3> QED
      BY <3>1, <3>2, <3>3, <2>1, <1>0, <1>1, WriteLocked
  <2>10. CASE pc[t] = "setAdd"
    <3>1. /\ pc'[t] \in {"setStore", "setRemove", "setOldLock"} /\ loc'[t].role = loc[t].role /\ loc'[t].new = loc[t].new
          /\ loc'[t].hold = FALSE /\ loc[t].new \in Objects
          /\ IF loc[t].hold THEN DropLock(t, loc[t].new) ELSE word' = word
      BY <2>1, <2>10, <1>0 DEF AssignMoves, AssignLocals, OpPlaces
    <3>2. CASE loc[t].hold = TRUE
      BY <3>1, <2>4, <2>10, <3>2, <2>1, <1>0, <1>1, DropLocked, Zenon DEF SetLabels
    <3>3. CASE loc[t].hold = FALSE
      <4>1. \A x \in Objects \ {Null} : (x \in Reading(t) => x \in Reading(t)') /\ (x \in Writing(t) => x \in Writing(t)')
        BY <3>1, <3>3, <2>4, <2>10, Zenon DEF SetLabels
      <4> QED
        BY <4>1, <3>1, <3>3, <2>1, <2>6, <1>0, <1>1, SameLocked
    <3> QED
      BY <3>2, <3>3, <2>1, Zenon
  <2>11. CASE pc[t] = "setOldLock"
    <3>1. /\ pc'[t] = "setRemove" /\ loc'[t].role = loc[t].role /\ loc'[t].new = loc[t].new /\ loc'[t].hold = TRUE
          /\ loc'[t].old = loc[t].old /\ TakeWrite(t, loc[t].old) /\ loc[t].old \in Objects
      BY <2>1, <2>11, <1>0 DEF AssignMoves, AssignLocals, OpPlaces
    <3>2. loc[t].old \in Writing(t)'
      BY <3>1, <2>1, AssignAccess, Zenon DEF Writing
    <3>3. \A x \in Objects \ {loc[t].old} : (x \in Reading(t) => x \in Reading(t)') /\ (x \in Writing(t) => x \in Writing(t)')
      BY <3>1, <2>4, <2>11, Zenon DEF SetLabels
    <3> QED
      BY <3>1, <3>2, <3>3, <2>1, <1>0, <1>1, WriteLocked
  <2>12. CASE pc[t] = "setRemove"
    <3>1. Refers(loc[t].obj, loc[t].old) /\ loc[t].old \in Objects
      BY <2>1, <2>12, <1>0, AssignedRefers DEF OpPlaces
    <3>2. /\ pc'[t] \in {"setOldRelease", "setStore"} /\ loc'[t] = loc[t] /\ DropLock(t, loc[t].old)
      BY <3>1, <2>1, <2>12 DEF AssignMoves, Unreference
    <3>3. \A x \in Objects \ {loc[t].old} : (x \in Reading(t) => x \in Reading(t)') /\ (x \in Writing(t) => x \in Writing(t)')
      BY <3>2, <2>4, <2>12, Zenon DEF SetLabels
    <3> QED
      BY <3>1, <3>2, <3>3, <2>1, <1>0, <1>1, DropLocked
  <2>13. CASE pc[t] = "setOldRelease"
    BY <2>1, <2>13, <1>0, <2>4, <1>1, DropLocked, Zenon DEF AssignMoves, AssignLocals, OpPlaces, SetLabels
  <2>14. CASE pc[t] = "setStore"
    BY <2>1, <2>14, <2>5, <1>0, <1>1, SameLocked DEF AssignMoves
  <2>15. CASE pc[t] = "setDowngrade"
    <3>1. /\ pc'[t] = Idle /\ loc[t].role = "ro_pin"
          /\ IF word[loc[t].new] = WriteHeld THEN word' = [word EXCEPT ![loc[t].new] = 1] ELSE word' = word
      BY <2>1, <2>15, <1>0 DEF AssignMoves, OpPlaces
    <3>2. \A x \in Objects \ {loc[t].new} : (x \in Reading(t) => x \in Reading(t)') /\ (x \in Writing(t) => x \in Writing(t)')
      BY <3>1, <2>1, <2>2, <2>15, AssignAccess, Zenon DEF Reading, Writing
    <3>3. loc[t].new \in Reading(t)' /\ loc[t].new \in Objects
      BY <3>1, <2>1, <2>3, AssignAccess, Zenon DEF Reading
    <3>4. CASE word[loc[t].new] = WriteHeld
      BY <3>1, <3>2, <3>3, <3>4, <2>1, <1>0, <1>1, DowngradeLocked
    <3>5. CASE word[loc[t].new] # WriteHeld
      BY <3>1, <3>2, <3>3, <3>5, <1>0, <2>1, <1>1 DEF Locked
    <3> QED
      BY <3>4, <3>5
  <2> QED
    BY <2>1, <2>7, <2>8, <2>9, <2>10, <2>11, <2>12, <2>13, <2>14, <2>15 DEF SetLabels
<1> QED
  BY <1>2, <1>3

OnStack(s, o) == \E f \in 1 .. Len(s) : s[f].obj = o

LEMMA AdvanceKeeps ==
    ASSUME NEW s \in Seq(Frames), s # <<>>
    PROVE  /\ Len(Advance(s)) = Len(s)
           /\ \A f \in 1 .. Len(s) : Advance(s)[f].obj = s[f].obj
           /\ \A y : OnStack(s, y) => OnStack(Advance(s), y)
<1>1. /\ Len(s) \in Nat \ {0} /\ Len(Advance(s)) = Len(s)
      /\ \A f \in 1 .. Len(s) - 1 : Advance(s)[f] = s[f]
  BY StackFacts, Zenon
<1>2. Advance(s)[Len(s)] = [obj |-> s[Len(s)].obj, k |-> s[Len(s)].k + 1, ref |-> Null]
  BY StackFacts
<1>3. Advance(s)[Len(s)].obj = s[Len(s)].obj
  BY <1>2
<1>4. ASSUME NEW f \in 1 .. Len(s) PROVE Advance(s)[f].obj = s[f].obj
  <2>1. CASE f = Len(s)
    BY <1>3, <2>1
  <2>2. CASE f # Len(s)
    BY <1>1, <2>2
  <2> QED
    BY <2>1, <2>2
<1> QED
  BY <1>1, <1>4 DEF OnStack

\* What a collection has access to before it destroys something.
LEMMA SearchAccess ==
    ASSUME NEW t \in Threads
    PROVE  /\ pc[t] \in ScanLabels \cup FindLabels \cup {"colId", "colNext"} => \A x :
                 /\ Reads(t, x) <=> \/ x \in roPins[t]
                                    \/ pc[t] \in {"colFlag", "colRelease", "colUpgrade"} /\ Candidate(t) = x
                                    \/ pc[t] \in FindLabels /\ OnStack(stk[t], x)
                 /\ Writes(t, x) <=> x \in rwPins[t] \/ x \in Dead \/ (pc[t] = "colUntry" /\ Candidate(t) = x)
           /\ pc'[t] \in ScanLabels \cup FindLabels \cup {"colNext", "desUnregister", Idle} => \A x :
                 /\ Reads(t, x)' <=> \/ x \in roPins'[t]
                                     \/ pc'[t] \in {"colFlag", "colRelease", "colUpgrade"} /\ Candidate(t)' = x
                                     \/ pc'[t] \in FindLabels /\ OnStack(stk'[t], x)
                 /\ Writes(t, x)' <=> x \in rwPins'[t] \/ x \in Dead'
                                        \/ (pc'[t] \in {"colUntry", "desUnregister"} /\ Candidate(t)' = x)
  BY DEF ScanLabels, FindLabels, SetLabels, DestroyLabels, Idle, Reads, Writes, OnStack

LEMMA ScanLocks ==
    ASSUME RootInv, NEW t \in Threads, Threads = {t}, Placed(t), Hunted(t), Locks(t), ScanStep(t)
    PROVE  Locks(t)' /\ (pc[t] = "colUpgrade" => CanUpgrade(Candidate(t)))
<1>0. /\ pc[t] \in ScanLabels \cup {"colId", "colNext"} /\ col[t] \in Walks
      /\ pc[t] \in ScanLabels => Candidate(t) \in Objects
      /\ ScanMoves(t) /\ UNCHANGED <<rootCount, allocated, lookup, roPins, rwPins>>
  BY ScanSteps
<1>1. /\ word \in [Objects -> Nat] /\ Locked(word, Reading(t), Writing(t)) /\ Dead' = Dead
      /\ pc[t] \in {"colFlag", "colUpgrade"} => word[Candidate(t)] = 1
      /\ pc[t] \notin FindLabels
  BY <1>0 DEF Placed, HeapTypes, LockTypes, Locks, Dead, Born, ScanLabels, FindLabels
<1>2. pc[t] = "colUpgrade" => CanUpgrade(Candidate(t))
  BY <1>1 DEF CanUpgrade
<1>3. /\ pc'[t] \in ScanLabels \cup {"findEnter", "colNext", "desUnregister", Idle}
      /\ pc[t] \in ScanLabels /\ pc'[t] \in {"colUntry", "colRead", "colFlag", "colUpgrade", "findEnter", "desUnregister"} =>
            Candidate(t)' = Candidate(t)
  BY <1>0 DEF ScanMoves, ScanLabels, Candidate, Idle
<1>4. ASSUME Locked(word', Reading(t)', Writing(t)'),
             pc'[t] \in {"colFlag", "colUpgrade", "findEnter"} => word'[Candidate(t)'] = 1
      PROVE  Locks(t)'
  BY <1>3, <1>4 DEF FindLabels, ScanLabels, Idle, Locks, Dropped
<1>5. /\ pc[t] \in ScanLabels \cup FindLabels \cup {"colId", "colNext"}
      /\ pc'[t] \in ScanLabels \cup FindLabels \cup {"colNext", "desUnregister", Idle}
  BY <1>0, <1>3 DEF FindLabels
<1>6. CASE pc[t] \in {"colId", "colNext"}
  BY <1>6, <1>0, <1>1, <1>5, SearchAccess, SameLocked, <1>2, <1>4
  DEF ScanMoves, Reading, Writing, Idle
<1>7. CASE pc[t] \in ScanLabels
  <2>1. PICK o \in Objects : o = Candidate(t)
    BY <1>0, <1>7
  <2>2. \A x \in Objects \ {o} : (x \in Reading(t) => x \in Reading(t)') /\ (x \in Writing(t) => x \in Writing(t)')
    BY <2>1, <1>0, <1>1, <1>5, SearchAccess DEF Reading, Writing
  <2>3. CASE pc[t] = "colTry"
    <3>1. CASE TakeWrite(t, o) /\ pc'[t] = "colUntry"
      <4>1. o \in Writing(t)'
        BY <3>1, <2>1, <2>3, <1>3, <1>5, <1>7, SearchAccess DEF Writing
      <4>2. Locked(word', Reading(t)', Writing(t)')
        BY <4>1, <3>1, <2>2, <1>1, WriteLocked
      <4> QED
        BY <4>2, <3>1, <1>2, <1>4
    <3>2. CASE word' = word /\ pc'[t] = "colNext"
      BY <2>3, <1>0, <1>1, <1>5, SearchAccess, <3>2, SameLocked, <1>2, <1>4 DEF Reading, Writing
    <3> QED
      BY <3>1, <3>2, <2>1, <2>3, <1>0 DEF ScanMoves
  <2>4. CASE pc[t] \in {"colUntry", "colRelease"}
    BY <2>1, <2>4, <1>0, <2>2, <1>1, DropLocked, <1>2, <1>4 DEF ScanMoves
  <2>5. CASE pc[t] = "colRead"
    <3>1. CASE TakeRead(o) /\ pc'[t] = "colFlag"
      <4>1. rootCount[o] = 0
        BY <2>1, <2>5 DEF Hunted, CandidateLabels, ScanLabels
      <4>2. o \notin roPins[t]
        BY <4>1, PinsAreCounted
      <4>3. o \notin Reading(t)
        BY <4>2, <2>5, <1>1, <1>5, SearchAccess DEF Reading
      <4>4. o \in Reading(t)' /\ Candidate(t)' = o
        BY <3>1, <2>1, <1>3, <1>5, <1>7, SearchAccess DEF Reading
      <4>5. Locked(word', Reading(t)', Writing(t)') /\ word'[o] = 1
        BY <4>3, <4>4, <3>1, <2>2, <1>1, ReadLocked, Zenon
      <4> QED
        BY <4>4, <4>5, <1>2, <1>4
    <3>2. CASE word' = word /\ pc'[t] = "colNext"
      BY <2>5, <1>0, <1>1, <1>5, SearchAccess, <3>2, SameLocked, <1>2, <1>4 DEF Reading, Writing
    <3> QED
      BY <3>1, <3>2, <2>1, <2>5, <1>0 DEF ScanMoves
  <2>6. CASE pc[t] = "colFlag"
    <3>1. word' = word /\ (pc'[t] = "colUpgrade" \/ (pc'[t] = "findEnter" /\ stk'[t] = <<Frame(o)>>))
      <4>1. /\ word' = word
            /\ pc'[t] = "colUpgrade" \/ (pc'[t] = "findEnter" /\ stk'[t] = <<Frame(Candidate(t))>>)
        BY <2>6, <1>0 DEF ScanMoves
      <4>2. Frame(Candidate(t)) = Frame(o)
        BY <2>1
      <4> QED
        BY <4>1, <4>2
    <3>2. Candidate(t)' = o /\ word[o] = 1
      BY <3>1, <2>1, <2>6, <1>1, <1>3, <1>7
    <3>3. stk'[t] = <<Frame(o)>> => OnStack(stk'[t], o)
      BY DEF Frame, OnStack
    <3>4. o \in Reading(t)'
      BY <3>1, <3>2, <3>3, <1>5, SearchAccess DEF Reading, FindLabels
    <3>5. o \in Writing(t) => o \in Writing(t)'
      BY <2>6, <1>0, <1>1, <1>5, SearchAccess DEF Writing
    <3>6. Locked(word', Reading(t)', Writing(t)')
      BY <3>1, <3>4, <3>5, <2>2, <1>1, SameLocked
    <3> QED
      BY <3>1, <3>2, <3>6, <1>2, <1>4
  <2>7. CASE pc[t] = "colUpgrade"
    <3>1. TakeUpgrade(t, o) /\ pc'[t] = "desUnregister"
      BY <2>1, <2>7, <1>0, <1>2 DEF ScanMoves
    <3>2. o \in Writing(t)'
      BY <3>1, <2>1, <2>7, <1>3, <1>5, <1>7, SearchAccess DEF Writing
    <3>3. Locked(word', Reading(t)', Writing(t)')
      BY <3>1, <3>2, <2>2, <1>1, UpgradeLocked
    <3> QED
      BY <3>1, <3>3, <1>2, <1>4
  <2> QED
    BY <2>3, <2>4, <2>5, <2>6, <2>7, <1>7 DEF ScanLabels
<1> QED
  BY <1>0, <1>6, <1>7

LEMMA FindLocks ==
    ASSUME RootInv, NEW t \in Threads, Threads = {t}, Placed(t), Placed(t)', Ledger(t), Acyclic,
           Spared(t), Hunted(t), Locks(t), Find(t)
    PROVE  Locks(t)'
<1>0. /\ pc[t] \in FindLabels /\ Candidate(t) \in Objects
      /\ stk[t] \in Seq(Frames) /\ stk[t] # <<>> /\ stk[t][1].obj = Candidate(t)
      /\ WalkLocals(t, col[t].i, col[t].slot, col[t].obj) /\ SearchMoves(t)
      /\ UNCHANGED <<rootCount, refBy, field, allocated, lookup, roPins, rwPins>>
  BY SearchSteps
<1>1. /\ word \in [Objects -> Nat] /\ Locked(word, Reading(t), Writing(t)) /\ Dead' = Dead
      /\ word[Candidate(t)] = 1 /\ Candidate(t)' = Candidate(t)
      /\ ~Severed(t) /\ pc[t] \notin SetLabels \cup DestroyLabels
      /\ refBy \in [Objects -> Seq(Objects)]
  BY <1>0, SearchIsStill, Zenon DEF Placed, HeapTypes, LockTypes, Locks, Dead, Born, WalkLocals, Candidate, Still
<1>2. /\ pc'[t] \in FindLabels \cup {"colRelease", "colUpgrade"}
      /\ pc[t] \in ScanLabels \cup FindLabels \cup {"colId", "colNext"}
      /\ pc'[t] \in ScanLabels \cup FindLabels \cup {"colNext", "desUnregister", Idle}
      /\ pc[t] \notin {"colFlag", "colRelease", "colUpgrade", "colUntry"}
      /\ pc'[t] \notin {"colUntry", "desUnregister"}
  BY <1>0 DEF SearchMoves, FindLabels, ScanLabels
<1>3. ASSUME Locked(word', Reading(t)', Writing(t)'), word'[Candidate(t)] = 1 PROVE Locks(t)'
  BY <1>2, <1>1, <1>3 DEF FindLabels, Locks, Dropped
<1>4. PICK s \in Seq(Frames) : s = stk[t]
  BY <1>0
<1>5. PICK n \in Nat \ {0} : n = Len(s)
  BY <1>0, <1>4, StackFacts
<1>6. PICK top \in Frames : top = s[n] /\ top = Top(t)
  BY <1>0, <1>4, <1>5, StackFacts DEF Top
<1>7. PICK x \in Objects, k \in Nat \ {0} : x = top.obj /\ k = top.k
  BY DEF Frames
<1>8. /\ SearchRanked(s) /\ Rank \in [Objects -> Nat]
      /\ \A f \in 1 .. n : s[f].obj \in Objects
  BY <1>0, <1>4, <1>5, StackFacts, RankAscends, Zenon DEF Hunted, Searched, Frames
<1>9. \A f \in 1 .. n : f # n => Rank[x] < Rank[s[f].obj]
  <2>1. \A f \in 1 .. n : f # n => f < n /\ n \in 1 .. n
    OBVIOUS
  <2> QED
    BY <2>1, <1>5, <1>6, <1>7, <1>8, Zenon DEF SearchRanked
<1>10. Candidate(t) = s[1].obj /\ 1 \in 1 .. n
  BY <1>0, <1>4
<1>11. /\ \A y : Reads(t, y) <=> y \in roPins[t] \/ OnStack(s, y)
       /\ \A y : Writes(t, y) <=> Writes(t, y)'
       /\ \A y : Reads(t, y)' <=> \/ y \in roPins[t]
                                  \/ pc'[t] \in {"colRelease", "colUpgrade"} /\ Candidate(t) = y
                                  \/ pc'[t] \in FindLabels /\ OnStack(stk'[t], y)
  BY <1>2, <1>0, <1>1, <1>4, SearchAccess DEF FindLabels
<1>12. ASSUME word' = word, pc'[t] \in FindLabels, \A y : OnStack(s, y) => OnStack(stk'[t], y)
       PROVE  Locks(t)'
  BY <1>11, <1>12, <1>1, <1>3, SameLocked, Zenon DEF Reading, Writing
<1>13. CASE pc[t] \in {"findEnter", "findFlag"}
  BY <1>13, <1>0, <1>4, <1>12 DEF SearchMoves, FindLabels
<1>14. CASE pc[t] = "findScan"
  <2>1. word' = word /\ pc'[t] \in FindLabels
    BY <1>14, <1>0 DEF SearchMoves, FindLabels
  <2>2. CASE stk'[t] = stk[t]
    BY <2>1, <2>2, <1>4, <1>12
  <2>3. CASE stk'[t] # stk[t]
    <3>1. stk'[t] = Looking(s, refBy[x][k]) /\ ~(k > Len(refBy[x]))
      BY <2>3, <1>14, <1>0, <1>4, <1>6, <1>7 DEF SearchMoves
    <3>2. PICK list \in Seq(Objects) : list = refBy[x]
      BY <1>1
    <3>3. PICK r \in Objects : r = list[k]
      BY <3>1, <3>2, LenProperties
    <3>4. PICK z : z = Looking(s, r)
      OBVIOUS
    <3>5. Len(z) = n /\ (\A f \in 1 .. n - 1 : z[f] = s[f]) /\ z[n].obj = s[n].obj
      BY <3>4, <1>5, LookingFacts
    <3>6. \A y : OnStack(s, y) => OnStack(z, y)
      BY <3>5, <1>5 DEF OnStack
    <3> QED
      BY <3>1, <3>2, <3>3, <3>4, <3>6, <2>1, <1>12
  <2> QED
    BY <2>2, <2>3
<1>15. CASE pc[t] = "findDescend"
  <2>1. CASE stk'[t] = Advance(s) /\ pc'[t] = "findScan"
    BY <1>0, <1>4, <1>15, AdvanceKeeps, <2>1, <1>12 DEF FindLabels, SearchMoves
  <2>2. CASE stk'[t] = s /\ pc'[t] = "findLock"
    BY <1>0, <1>15, <2>2, <1>12 DEF FindLabels, SearchMoves
  <2> QED
    BY <2>1, <2>2, <1>15, <1>0, <1>4 DEF SearchMoves
<1>17. CASE pc[t] = "findLock"
  <2>1. PICK r \in Objects : r = Top(t).ref /\ rootCount[r] = 0 /\ Rank[r] < Rank[x]
    BY <1>17, <1>6, <1>7, <1>1, ReferrersAreOwners, Zenon DEF Hunted
  <2>3. CASE TakeRead(r) /\ stk'[t] = Append(s, Frame(r)) /\ pc'[t] = "findEnter"
    <3>1. ~OnStack(s, r) /\ r # Candidate(t)
      <4>1. \A f \in 1 .. n : s[f].obj # r
        <5> SUFFICES ASSUME NEW f \in 1 .. n, s[f].obj = r PROVE FALSE
          OBVIOUS
        <5>1. Rank[r] \in Nat /\ Rank[x] \in Nat
          BY <1>8
        <5>2. CASE f = n
          BY <5>1, <5>2, <2>1, <1>6, <1>7
        <5>3. CASE f # n
          BY <5>1, <5>3, <2>1, <1>9
        <5> QED
          BY <5>2, <5>3
      <4> QED
        BY <4>1, <1>5, <1>10 DEF OnStack
    <3>2. r \notin roPins[t]
      BY <2>1, PinsAreCounted
    <3>3. PICK z : z = Append(s, Frame(r))
      BY Zenon
    <3>4. Len(z) = n + 1 /\ (\A f \in 1 .. n : z[f] = s[f]) /\ z[n + 1].obj = r
      BY <3>3, <1>5, AppendProperties DEF Frame, Frames
    <3>5. (\A y : OnStack(s, y) => OnStack(z, y)) /\ OnStack(z, r)
      BY <3>4, <1>5 DEF OnStack
    <3>6. pc'[t] \in FindLabels
      BY <2>3 DEF FindLabels
    <3>7. r \notin Reading(t) /\ r \in Reading(t)'
      BY <3>1, <3>2, <3>3, <3>5, <3>6, <2>3, <1>11 DEF Reading
    <3>8. \A y \in Objects \ {r} : (y \in Reading(t) => y \in Reading(t)') /\ (y \in Writing(t) => y \in Writing(t)')
      BY <3>3, <3>5, <3>6, <2>3, <1>11 DEF Reading, Writing
    <3>9. Locked(word', Reading(t)', Writing(t)') /\ \A y \in Objects \ {r} : word'[y] = word[y]
      BY <3>7, <3>8, <2>3, <1>1, ReadLocked, Zenon
    <3> QED
      BY <3>1, <3>9, <1>0, <1>1, <1>3
  <2>4. CASE word' = word /\ stk'[t] = s /\ pc'[t] = "findReturn"
    BY <2>4, <1>12 DEF FindLabels
  <2> QED
    BY <2>1, <2>3, <2>4, <1>17, <1>0, <1>4 DEF SearchMoves
<1>16. CASE pc[t] \in {"findReturn", "findRelease"}
  <2>1. CASE n = 1
    <3>1. word' = word /\ pc'[t] \in {"colRelease", "colUpgrade"}
      BY <2>1, <1>16, <1>0, <1>4, <1>5 DEF SearchMoves
    <3>2. \A y : OnStack(s, y) => y = Candidate(t)
      <4>1. \A f \in 1 .. n : f = 1
        BY <2>1
      <4>2. \A f \in 1 .. n : s[f].obj = Candidate(t)
        BY <4>1, <1>10
      <4> QED
        BY <4>2, <1>5 DEF OnStack
    <3>3. \A y \in Objects : (y \in Reading(t) => y \in Reading(t)') /\ (y \in Writing(t) => y \in Writing(t)')
      BY <3>1, <3>2, <1>11 DEF Reading, Writing
    <3>4. Locked(word', Reading(t)', Writing(t)')
      BY <3>1, <3>3, <1>1, SameLocked
    <3> QED
      BY <3>1, <3>4, <1>1, <1>3
  <2>3. CASE n # 1 /\ pc'[t] = "findRelease"
    BY <2>3, <1>16, <1>0, <1>4, <1>5, <1>12 DEF SearchMoves, FindLabels
  <2>2. CASE n # 1 /\ pc'[t] # "findRelease"
    <3>1. n > 1
      BY <2>2
    <3>2. PICK b \in Seq(Frames) : b = SubSeq(s, 1, n - 1) /\ Len(b) = n - 1 /\ b # <<>> /\ \A f \in 1 .. n - 1 : b[f] = s[f]
      BY <3>1, <1>5, StackBelow, ZenonT(30)
    <3>3. Below(t) = b
      BY <3>2, <1>4, <1>5 DEF Below
    <3>4. DropLock(t, x) /\ pc'[t] \in FindLabels /\ stk'[t] \in {b, Advance(b)}
      BY <3>3, <2>2, <1>16, <1>0, <1>4, <1>5, <1>6, <1>7 DEF SearchMoves, FindLabels
    <3>5. \A y : OnStack(s, y) /\ y # x => OnStack(b, y)
      <4> SUFFICES ASSUME NEW y, y # x, NEW f \in 1 .. n, s[f].obj = y PROVE OnStack(b, y)
        BY <1>5, Zenon DEF OnStack
      <4>1. f \in 1 .. n - 1
        <5>1. f # n
          BY <1>6, <1>7, Zenon
        <5> QED
          BY <5>1
      <4> QED
        BY <4>1, <3>2 DEF OnStack
    <3>6. \A y : OnStack(b, y) => OnStack(Advance(b), y)
      BY <3>2, AdvanceKeeps, Zenon
    <3>7. \A y \in Objects \ {x} : (y \in Reading(t) => y \in Reading(t)') /\ (y \in Writing(t) => y \in Writing(t)')
      BY <3>4, <3>5, <3>6, <1>11 DEF Reading, Writing
    <3>8. Locked(word', Reading(t)', Writing(t)') /\ \A y \in Objects \ {x} : word'[y] = word[y]
      BY <3>4, <3>7, <1>1, DropLocked, Zenon
    <3>9. Candidate(t) # x
      BY <3>1, <1>8, <1>9, <1>10
    <3> QED
      BY <3>8, <3>9, <1>0, <1>1, <1>3
  <2> QED
    BY <2>1, <2>2, <2>3
<1> QED
  BY <1>0, <1>13, <1>14, <1>15, <1>16, <1>17 DEF FindLabels

WalkLabels == Backs \cup {Idle, "tearSever", "tearPages", "down", "colId"}

\* What a walk has access to between two scans.
LEMMA WalkAccess ==
    ASSUME NEW t \in Threads
    PROVE  /\ pc[t] \in DestroyLabels \cup WalkLabels => \A x :
                 /\ Reads(t, x) <=> x \in roPins[t]
                 /\ Writes(t, x) <=> \/ x \in rwPins[t] \/ x \in Dead
                                     \/ pc[t] \in DestroyLabels /\ Candidate(t) = x
                                     \/ pc[t] = "desClear" /\ FieldValue(t) = x
           /\ pc'[t] \in DestroyLabels \cup WalkLabels => \A x :
                 /\ Reads(t, x)' <=> x \in roPins'[t]
                 /\ Writes(t, x)' <=> \/ x \in rwPins'[t] \/ x \in Dead'
                                      \/ pc'[t] \in DestroyLabels /\ Candidate(t)' = x
                                      \/ pc'[t] = "desClear" /\ FieldValue(t)' = x
  BY DEF FindLabels, SetLabels, DestroyLabels, WalkLabels, Backs, Idle, Reads, Writes

LEMMA WalkLocks ==
    ASSUME NEW t \in Threads, Locked(word', Reading(t)', Writing(t)'), pc'[t] \in DestroyLabels \cup WalkLabels
    PROVE  Locks(t)'
  BY DEF FindLabels, DestroyLabels, WalkLabels, Backs, Idle, Locks, Dropped

LEMMA DestroyLocks ==
    ASSUME RootInv, NEW t \in Threads, Threads = {t}, Placed(t), Ledger(t), Listings(t), Locks(t), DestroyObject(t)
    PROVE  Locks(t)'
<1>0. /\ pc[t] \in DestroyLabels /\ col[t] \in Walks /\ Candidate(t) \in Objects
      /\ pc[t] \in {"desClear", "desRelease"} => FieldValue(t) \in Objects
      /\ ~FieldsDone(t) => FieldValue(t) \in Objects \cup {Null}
      /\ DestroyMoves(t) /\ UNCHANGED <<allocated, roPins, rwPins>>
  BY DestroySteps
<1>1. /\ word \in [Objects -> Nat] /\ Locked(word, Reading(t), Writing(t)) /\ Found(t)
      /\ pc[t] = "desClear" => Refers(Candidate(t), FieldValue(t))
      /\ col[t].back \in Backs
  BY <1>0, DestroyedRefers DEF Placed, HeapTypes, LockTypes, Locks, Listings, Walks
<1>2. PICK c \in Objects : c = Candidate(t)
  BY <1>0
<1>3. Dead \subseteq Dead'
  BY <1>0, <1>1 DEF DestroyMoves, DestroyLabels, Dead, Born
<1>5. /\ \A x : Reads(t, x) <=> x \in roPins[t]
      /\ \A x : Writes(t, x) <=> \/ x \in rwPins[t] \/ x \in Dead \/ c = x
                                 \/ pc[t] = "desClear" /\ FieldValue(t) = x
  BY <1>0, <1>2, WalkAccess
<1>6. CASE pc[t] = "desUnregister" \/ pc[t] = "desReacquire"
  <2>1. /\ pc'[t] = "desField" /\ col'[t] = col[t]
        /\ word' = word \/ TakeWrite(t, c)
    BY <1>0, <1>2, <1>6 DEF DestroyMoves
  <2>2. pc'[t] \in DestroyLabels \cup WalkLabels /\ Candidate(t)' = c
    BY <2>1, <1>2 DEF DestroyLabels, Candidate
  <2>3. \A x \in Objects : (x \in Reading(t) => x \in Reading(t)') /\ (x \in Writing(t) => x \in Writing(t)')
    BY <2>1, <2>2, <1>0, <1>3, <1>5, <1>6, WalkAccess DEF Reading, Writing, DestroyLabels
  <2>4. c \in Writing(t)'
    BY <2>1, <2>2, <1>2, WalkAccess DEF Writing, DestroyLabels
  <2>5. Locked(word', Reading(t)', Writing(t)')
    BY <2>1, <2>3, <2>4, <1>1, SameLocked, WriteLocked
  <2> QED
    BY <2>2, <2>5, WalkLocks
<1>7. CASE pc[t] = "desClear" \/ pc[t] = "desRelease"
  BY <1>0, <1>7, <1>1, <1>2, <1>3, <1>5, WalkAccess, DropLocked, WalkLocks
  DEF DestroyMoves, Unreference, WalkLocals, DestroyLabels, Candidate, Reading, Writing
<1>8. CASE pc[t] = "desField"
  <2>1. CASE ~FieldsDone(t) /\ FieldValue(t) = Null /\ pc'[t] = "desField"
              /\ WalkLocals(t, col[t].i, col[t].slot + 1, col[t].obj) /\ word' = word
    <3>1. pc'[t] \in DestroyLabels \cup WalkLabels /\ Candidate(t)' = c
      BY <2>1, <1>2 DEF DestroyLabels, Candidate, WalkLocals
    <3>2. \A x \in Objects : (x \in Reading(t) => x \in Reading(t)') /\ (x \in Writing(t) => x \in Writing(t)')
      BY <2>1, <3>1, <1>0, <1>3, <1>5, <1>8, WalkAccess DEF Reading, Writing, DestroyLabels
    <3> QED
      BY <2>1, <3>1, <3>2, <1>1, SameLocked, WalkLocks
  <2>2. CASE ~FieldsDone(t) /\ FieldValue(t) # Null /\ TakeWrite(t, FieldValue(t))
              /\ pc'[t] = "desClear" /\ col'[t] = col[t]
    <3>1. PICK v \in Objects : v = FieldValue(t)
      BY <2>2, <1>0
    <3>2. /\ pc'[t] \in DestroyLabels \cup WalkLabels /\ Candidate(t)' = c /\ FieldValue(t)' = v
      BY <1>0, <1>8, <2>2, <3>1, <1>2 DEF DestroyMoves, DestroyLabels, Candidate, FieldValue
    <3>3. \A x \in Objects : (x \in Reading(t) => x \in Reading(t)') /\ (x \in Writing(t) => x \in Writing(t)')
      BY <2>2, <3>2, <1>0, <1>3, <1>5, <1>8, WalkAccess DEF Reading, Writing, DestroyLabels
    <3>4. v \in Writing(t)'
      BY <2>2, <3>2, WalkAccess DEF Writing
    <3>5. Locked(word', Reading(t)', Writing(t)')
      BY <2>2, <3>1, <3>3, <3>4, <1>1, WriteLocked
    <3> QED
      BY <3>2, <3>5, WalkLocks
  <2>3. CASE DropLock(t, c) /\ pc'[t] = "desReacquire" /\ col'[t] = col[t]
    BY <2>3, <1>0, <1>3, <1>5, <1>8, WalkAccess, <1>1, DropLocked, WalkLocks
    DEF DestroyLabels, Reading, Writing
  <2>4. CASE FieldsDone(t) /\ pc'[t] = col[t].back /\ word' = word
    <3>1. pc'[t] \in DestroyLabels \cup WalkLabels
      BY <2>4, <1>1 DEF WalkLabels
    <3>2. c \in Dead'
      BY <1>0, <1>1, <1>2, <1>3, <1>8 DEF Found, DestroyLabels, Dead
    <3>3. \A x \in Objects : (x \in Reading(t) => x \in Reading(t)') /\ (x \in Writing(t) => x \in Writing(t)')
      BY <3>1, <3>2, <1>0, <1>3, <1>5, <1>8, WalkAccess DEF Reading, Writing
    <3> QED
      BY <2>4, <3>1, <3>3, <1>1, SameLocked, WalkLocks
  <2> QED
    BY <2>1, <2>2, <2>3, <2>4, <1>0, <1>2, <1>8 DEF DestroyMoves
<1> QED
  BY <1>0, <1>6, <1>7, <1>8 DEF DestroyLabels

LEMMA InitLocks == ASSUME NEW t \in Threads, Init PROVE Locks(t)
  BY WordFacts DEF Init, Locks, Locked, Dropped, FindLabels, Idle

\* The other steps of the walks take the lock of what they are about to destroy.
LEMMA OtherLocks ==
    ASSUME RootInv, NEW t \in Threads, Threads = {t}, Placed(t), Listings(t), Locks(t),
           \/ FastNext(t) \/ FastEnd(t) \/ NewLarge(t) \/ Destroy(t) \/ TearDown(t)
           \/ \E p \in Lists : CollectBegin(t, p)
    PROVE  Locks(t)'
<1>0. /\ pc = [u \in Threads |-> pc[u]] /\ Arranged /\ Found(t)
      /\ word \in [Objects -> Nat] /\ Locked(word, Reading(t), Writing(t))
  BY DEF RootInv, HandleTypes, Placed, HeapTypes, LockTypes, Listings, Locks
<1>1. ASSUME pc[t] \in WalkLabels \cup {"tearLarge", "tearSever"},
             pc'[t] \in DestroyLabels \cup WalkLabels, pc'[t] # "desClear",
             UNCHANGED <<roPins, rwPins>>,
             \/ word' = word /\ Dead \subseteq Dead'
             \/ \E o \in Objects : TakeWrite(t, o) /\ o \in Writing(t)' /\ Dead \subseteq Dead'
      PROVE  Locks(t)'
  <2>1. pc[t] \in DestroyLabels \cup WalkLabels /\ pc[t] \notin DestroyLabels /\ pc[t] # "desClear"
    BY <1>1 DEF WalkLabels, Backs, DestroyLabels, Idle
  <2>2. \A x \in Objects : (x \in Reading(t) => x \in Reading(t)') /\ (x \in Writing(t) => x \in Writing(t)')
    BY <2>1, <1>1, WalkAccess DEF Reading, Writing
  <2>3. Locked(word', Reading(t)', Writing(t)')
    <3>1. CASE word' = word
      BY <3>1, <2>2, <1>0, SameLocked
    <3>2. CASE word' # word
      BY <3>2, <1>1, <2>2, <1>0, WriteLocked
    <3> QED
      BY <3>1, <3>2
  <2> QED
    BY <2>3, <1>1, WalkLocks
<1>2. CASE FastNext(t)
  <2>1. /\ pc[t] = "fastNext" /\ Listed(t) \in Seq(Objects) /\ col[t].i \in DOMAIN Listed(t)
        /\ FastMoves(t, Listed(t)[col[t].i]) /\ UNCHANGED <<allocated, lookup, roPins, rwPins>>
    BY <1>2, FastSteps
  <2>2. PICK o \in Objects : o = Listed(t)[col[t].i]
    BY <2>1, LenProperties
  <2>3. FastMoves(t, o)
    BY <2>1, <2>2
  <2>4. Dead' = Dead
    BY <2>1 DEF Dead, Born
  <2>5. pc'[t] \in {"fastNext", "desUnregister", Idle}
    BY <2>3 DEF FastMoves, Idle
  <2>6. pc'[t] \in DestroyLabels \cup WalkLabels /\ pc'[t] # "desClear" /\ pc[t] \in WalkLabels
    BY <2>1, <2>5 DEF WalkLabels, Backs, DestroyLabels, Idle
  <2>7. CASE word' = word
    BY <2>1, <2>4, <2>6, <2>7, <1>1
  <2>8. CASE word' # word
    BY <2>3, <2>8, <2>6, WalkAccess, <2>1, <2>4, <1>1
    DEF FastMoves, WalkLocals, Candidate, Writing, DestroyLabels
  <2> QED
    BY <2>7, <2>8
<1>3. CASE FastEnd(t)
  <2>1. /\ pc[t] = "fastNext" /\ pc'[t] = Idle /\ UNCHANGED <<roPins, rwPins, word>>
    BY <1>3, <1>0 DEF FastEnd, StartCol, Goto, lockVars
  <2>2. Dead \subseteq Dead'
    <3>1. CASE UNCHANGED <<rootCount, heapVars, roots>>
      BY <3>1 DEF heapVars, Dead, Born
    <3>2. CASE ~UNCHANGED <<rootCount, heapVars, roots>>
      BY <3>2, <1>3, GraphAssumption DEF FastEnd, RegisterObject, RootInv, HandleTypes, Born, Dead
    <3> QED
      BY <3>1, <3>2
  <2> QED
    BY <2>1, <2>2, <1>1 DEF WalkLabels, Backs, Idle
<1>4. CASE NewLarge(t) \/ Destroy(t) \/ \E p \in Lists : CollectBegin(t, p)
  <2>1. /\ pc[t] = Idle /\ pc'[t] \in {"fastNext", "tearSever", "colId"}
        /\ UNCHANGED <<roPins, rwPins, word, allocated, lookup>>
    BY <1>4, <1>0 DEF NewLarge, Destroy, CollectBegin, StartCol, Goto, lockVars, heapVars, clientVars
  <2>2. Dead \subseteq Dead'
    BY <2>1 DEF Dead, Born
  <2>3. pc[t] \in WalkLabels /\ pc'[t] \in WalkLabels /\ pc'[t] # "desClear" 
    BY <2>1 DEF WalkLabels, Backs, Idle
  <2> QED
    BY <2>1, <2>2, <2>3, <1>1
<1>5. CASE TearDown(t)
  <2>1. /\ pc[t] \in {"tearSever", "tearPages", "tearLarge"} /\ TearMoves(t)
        /\ UNCHANGED <<allocated, roPins, rwPins>>
    BY <1>5, TearSteps
  <2>2. pc'[t] \in {"tearPages", "tearLarge", "down", "desUnregister"}
    BY <2>1 DEF TearMoves
  <2>3. /\ pc[t] \in WalkLabels /\ pc'[t] \in DestroyLabels \cup WalkLabels /\ pc'[t] # "desClear"
    BY <2>1, <2>2 DEF WalkLabels, Backs, DestroyLabels
  <2>4. CASE word' = word /\ lookup' = lookup
    BY <2>1, <2>4, <2>3, <1>1 DEF Dead, Born
  <2>5. CASE ~(word' = word /\ lookup' = lookup)
    <3>1. PICK p \in Pages, o \in Objects :
             /\ allocations[p] # <<>> /\ o = allocations[p][Len(allocations[p])]
             /\ TakeWrite(t, o) /\ lookup' = lookup \ {o}
      BY <2>1, <2>5 DEF TearMoves
    <3>2. o \in Born
      BY <3>1, EmptySeq, LenProperties, <1>0 DEF Lists, Placed, HeapTypes, Arranged
    <3>3. Dead \subseteq Dead' /\ o \in Dead'
      BY <3>1, <3>2, <2>1 DEF Dead, Born
    <3>4. o \in Writing(t)'
      BY <3>3, <2>3, WalkAccess DEF Writing
    <3> QED
      BY <3>1, <3>3, <3>4, <2>1, <2>3, <1>1
  <2> QED
    BY <2>4, <2>5
<1> QED
  BY <1>2, <1>3, <1>4, <1>5

\* No step of one thread breaks the lists and locks, and none fails.
LEMMA NextLocks ==
    ASSUME RootInv, NEW t \in Threads, Threads = {t}, Placed(t), Placed(t)', Ledger(t), Ledger(t)', Acyclic,
           Spared(t), Hunted(t), Listings(t), Locks(t), Next
    PROVE  Listings(t)' /\ Locks(t)' /\ fault' = fault
<1>1. CASE HandleStep(t)
  BY <1>1, HandleListings, PinLocks, DropLocks DEF HandleStep
<1>2. CASE Assign(t) \/ \E o \in Born, s \in Slots, x \in {Null} \cup Objects : SetField(t, o, s, x)
  BY <1>2, AssignListings, AssignLocks
<1>3. CASE ScanStep(t)
  BY <1>3, ScanLocks, ScanListings
<1>4. CASE Find(t)
  BY <1>4, FindLocks, FindListings
<1>5. CASE DestroyObject(t)
  BY <1>5, DestroyLocks, DestroyListings DEF Ledger
<1>6. CASE FastNext(t)
  BY <1>6, OtherLocks, FastListings
<1>7. CASE FastEnd(t) \/ NewLarge(t) \/ Destroy(t) \/ \E p \in Lists : CollectBegin(t, p)
  BY <1>7, OtherLocks, StartListings
<1>8. CASE TearDown(t)
  BY <1>8, OtherLocks, TearListings
<1> QED
  BY <1>1, <1>2, <1>3, <1>4, <1>5, <1>6, <1>7, <1>8, OneThreadSteps DEF Collect, HandleStep, ScanStep

-------------------------------------------------------------------------------
(* One thread: nothing that nothing refers to goes unnoticed *)

Unneeded(o) == rootCount[o] = 0 /\ refBy[o] = <<>>

\* The last handle of o has just been counted off; DropFlag comes next.
Flagging(t, o) == pc[t] = "dropFlag" /\ loc[t].obj = o

Flagged(t) == ~GoingDown(t) => \A o \in lookup : Unneeded(o) => o \in garbage \/ Flagging(t, o)

LEMMA FlagsKept ==
    ASSUME NEW t \in Threads, Flagged(t), GoingDown(t) => GoingDown(t)', garbage \subseteq garbage',
           \A o \in lookup' : Unneeded(o)' => \/ o \in lookup /\ Unneeded(o) /\ ~Flagging(t, o)
                                              \/ o \in garbage' \/ Flagging(t, o)'
    PROVE  Flagged(t)'
  BY DEF Flagged

LEMMA HandleFlags ==
    ASSUME RootInv, NEW t \in Threads, Threads = {t}, Placed(t), Locks(t), Flagged(t), HandleStep(t)
    PROVE  Flagged(t)'
<1>0. /\ pc = [u \in Threads |-> pc[u]] /\ loc = [u \in Threads |-> loc[u]]
      /\ HandleLocals(t) /\ OpPlaces(t) /\ lookup \subseteq Born /\ Born \subseteq Objects
      /\ rootCount \in [Objects -> Nat] /\ Dropped(t) /\ allocated \in Nat
      /\ \A o \in Objects \ Born : rootCount[o] = 0
  BY GoneFacts, GraphAssumption DEF RootInv, HandleTypes, Placed, Locks, NoHandlesAhead
<1>1. ~GoingDown(t) /\ refBy' = refBy
  <2>1. pc[t] # "tearSever"
    BY Zenon DEF HandleStep, New, PinLock, PinCount, Drop, DropTest, DropLockObject, DropCount, DropFlag, DropRelease,
           CopyRoot, DropRoot, Unpin, Pin, Idle
  <2> QED
    BY <2>1, HandleIsStill DEF GoingDown, Still
<1> USE DEF headerVars, heapVars, implVars, clientVars, opVars, colVars, Goto, StartOp, EndOp, Idle
<1>2. ASSUME garbage' = garbage, pc[t] # "dropFlag",
             \A o \in lookup' : rootCount'[o] = 0 => (o \in lookup /\ rootCount[o] = 0) \/ Flagging(t, o)'
      PROVE  Flagged(t)'
  BY <1>1, <1>2, FlagsKept DEF Unneeded, Flagging
<1>3. CASE New(t)
  BY <1>3, <1>0, GraphAssumption, <1>2 DEF New, Objects, RegisterObject
<1>4. CASE PinLock(t) \/ DropTest(t) \/ DropLockObject(t) \/ DropRelease(t)
           \/ \E o \in Born : DropRoot(t, o) \/ Unpin(t, o) \/ Pin(t, o, "ro") \/ Pin(t, o, "rw")
  BY <1>4, <1>2 DEF PinLock, DropTest, DropLockObject, DropRelease, DropRoot, Unpin, Pin
<1>5. CASE PinCount(t) \/ \E o \in Born : CopyRoot(t, o)
  <2>1. PICK x \in Objects : rootCount' = [rootCount EXCEPT ![x] = @ + 1]
    <3>1. CASE PinCount(t)
      BY <3>1, <1>0, Zenon DEF PinCount, HandleLocals, PinLabels, DropLabels, CountRoot
    <3>2. CASE \E o \in Born : CopyRoot(t, o)
      BY <3>2, <1>0, Zenon DEF CopyRoot, CountRoot
    <3> QED
      BY <1>5, <3>1, <3>2
  <2>2. UNCHANGED <<garbage, lookup>> /\ pc[t] # "dropFlag"
    BY <1>5 DEF PinCount, CopyRoot
  <2>3. \A o \in lookup' : rootCount'[o] = 0 => o \in lookup /\ rootCount[o] = 0
    BY <2>1, <1>0, <2>2
  <2> QED
    BY <2>2, <2>3, <1>2
<1>6. CASE DropCount(t)
  <2>1. PICK x \in Objects : x = loc[t].obj
    BY <1>6, <1>0 DEF DropCount, HandleLocals, PinLabels, DropLabels
  <2>2. /\ rootCount' = [rootCount EXCEPT ![x] = rootCount[x] - 1] /\ UNCHANGED <<garbage, lookup>>
        /\ rootCount[x] = 1 => pc'[t] = "dropFlag" /\ loc' = loc
        /\ pc[t] = "dropCount"
    BY <1>6, <2>1, <1>0 DEF DropCount
  <2>3. rootCount'[x] = 0 => Flagging(t, x)'
    BY <2>2, <1>0, <2>1 DEF Flagging
  <2>4. \A o \in lookup' : o # x => o \in lookup /\ rootCount'[o] = rootCount[o]
    BY <2>2, <1>0
  <2> QED
    BY <2>2, <2>3, <2>4, <1>2
<1>7. CASE DropFlag(t)
  <2>1. PICK x : x = loc[t].obj
    OBVIOUS
  <2>2. /\ pc[t] = "dropFlag" /\ CanUpgrade(x)
    BY <1>7, <2>1, <1>0 DEF DropFlag, Dropped, CanUpgrade
  <2>3. /\ garbage \subseteq garbage' /\ UNCHANGED <<rootCount, lookup>>
        /\ refBy[x] = <<>> => x \in garbage'
    BY <1>7, <2>1, <2>2 DEF DropFlag
  <2>4. \A o \in lookup' : Unneeded(o)' => \/ o \in lookup /\ Unneeded(o) /\ ~Flagging(t, o)
                                           \/ o \in garbage'
    BY <2>1, <2>3, <1>1 DEF Unneeded, Flagging
  <2> QED
    BY <2>3, <2>4, <1>1, FlagsKept
<1> QED
  BY <1>3, <1>4, <1>5, <1>6, <1>7 DEF HandleStep, Drop

\* Whoever takes the last entry of referencedBy out, flags.
LEMMA UnreferenceFlags ==
    ASSUME NEW t \in Threads, NEW p, NEW v \in Objects, refBy \in [Objects -> Seq(Objects)],
           Unreference(t, p, v), rootCount' = rootCount
    PROVE  garbage \subseteq garbage' /\ \A o \in Objects : Unneeded(o)' => Unneeded(o) \/ o \in garbage'
  BY DEF Unreference, Unneeded

LEMMA AssignFlags ==
    ASSUME RootInv, NEW t \in Threads, Threads = {t}, Placed(t), Flagged(t),
           Assign(t) \/ \E o \in Born, s \in Slots, x \in {Null} \cup Objects : SetField(t, o, s, x)
    PROVE  Flagged(t)'
<1>0. /\ pc = [u \in Threads |-> pc[u]] /\ lookup \subseteq Objects /\ OpPlaces(t)
      /\ refBy \in [Objects -> Seq(Objects)]
  BY GoneFacts DEF RootInv, HandleTypes, Placed, HeapTypes, NoHandlesAhead
<1>1. CASE \E o \in Born, s \in Slots, x \in {Null} \cup Objects : SetField(t, o, s, x)
  <2>1. pc[t] = Idle /\ UNCHANGED <<rootCount, refBy, garbage, lookup>>
    BY <1>1 DEF SetField, headerVars, heapVars
  <2>2. ~GoingDown(t) /\ \A o : ~Flagging(t, o)
    BY <2>1 DEF GoingDown, Severed, ListLabels, Flagging, Idle
  <2> QED
    BY <2>1, <2>2, FlagsKept DEF Unneeded
<1>2. CASE Assign(t)
  <2>1. /\ pc[t] \in SetLabels /\ AssignMoves(t) /\ UNCHANGED <<rootCount, lookup>>
        /\ loc[t].new \in Objects \cup {Null} /\ loc[t].old \in Objects \cup {Null}
    BY <1>2, AssignSteps
  <2>2. ~GoingDown(t) /\ \A o : ~Flagging(t, o)
    BY <2>1 DEF GoingDown, Severed, ListLabels, SetLabels, Flagging
  <2>3. ASSUME garbage \subseteq garbage', \A o \in Objects : Unneeded(o)' => Unneeded(o) \/ o \in garbage'
        PROVE  Flagged(t)'
    BY <2>1, <2>2, <2>3, <1>0, FlagsKept
  <2>4. CASE pc[t] = "setAdd"
    BY <2>4, <1>0, AppendProperties, EmptySeq, <2>1, <2>3
    DEF OpPlaces, SetLabels, Assignments, AssignMoves, Unneeded
  <2>5. CASE pc[t] = "setRemove"
    <3>1. PICK v \in Objects : v = loc[t].old
      BY <2>5, <1>0 DEF OpPlaces, SetLabels, Assignments
    <3>2. CASE Refers(loc[t].obj, loc[t].old)
      BY <2>1, <2>5, <3>1, <3>2, <2>3, <1>0, UnreferenceFlags DEF AssignMoves
    <3>3. CASE ~Refers(loc[t].obj, loc[t].old)
      BY <2>1, <2>5, <3>3, <2>3 DEF AssignMoves, Unneeded
    <3> QED
      BY <3>2, <3>3
  <2>6. CASE pc[t] \notin {"setAdd", "setRemove"}
    BY <2>1, <2>6, <2>3, Zenon DEF AssignMoves, SetLabels, Unneeded
  <2> QED
    BY <2>4, <2>5, <2>6
<1> QED
  BY <1>1, <1>2

LEMMA WalkFlags ==
    ASSUME RootInv, NEW t \in Threads, Threads = {t}, Placed(t), Placed(t)', Ledger(t), Ledger(t)', Flagged(t),
           \/ ScanStep(t) \/ Find(t) \/ DestroyObject(t)
           \/ FastNext(t) \/ FastEnd(t) \/ NewLarge(t) \/ Destroy(t) \/ TearDown(t)
           \/ \E p \in Lists : CollectBegin(t, p)
    PROVE  Flagged(t)'
<1>0. /\ pc = [u \in Threads |-> pc[u]] /\ lookup \subseteq Objects /\ WalkPlaces(t)'
      /\ refBy \in [Objects -> Seq(Objects)] /\ rootCount \in [Objects -> Nat]
  BY GoneFacts, Zenon DEF RootInv, HandleTypes, Placed, HeapTypes, NoHandlesAhead
<1>1. ASSUME ~GoingDown(t), pc[t] # "dropFlag", UNCHANGED <<refBy, rootCount, lookup>>, garbage \subseteq garbage'
      PROVE  Flagged(t)'
  BY <1>1, FlagsKept DEF Unneeded, Flagging
<1>2. CASE ScanStep(t) \/ Find(t)
  <2>1. /\ pc[t] \in ScanLabels \cup FindLabels \cup {"colId", "colNext"}
        /\ UNCHANGED <<refBy, rootCount, lookup>> /\ garbage \subseteq garbage'
    <3>1. CASE ScanStep(t)
      BY <3>1, ScanSteps
    <3>2. CASE Find(t)
      BY <3>2, SearchSteps DEF SearchMoves, FindLabels
    <3> QED
      BY <1>2, <3>1, <3>2
  <2>2. ~Severed(t)
    BY <1>2, SearchIsStill
  <2>3. ~GoingDown(t) /\ pc[t] # "dropFlag"
    BY <2>1, <2>2 DEF GoingDown, ScanLabels, FindLabels
  <2> QED
    BY <2>1, <2>3, <1>1
<1>3. CASE DestroyObject(t)
  <2>1. /\ pc[t] \in DestroyLabels /\ DestroyMoves(t) /\ rootCount' = rootCount /\ Candidate(t) \in Objects
        /\ pc[t] = "desClear" => FieldValue(t) \in Objects /\ Refers(Candidate(t), FieldValue(t))
        /\ Severed(t)' = Severed(t)
    BY <1>3, DestroySteps, DestroyLedger DEF Ledger
  <2>2. /\ \A o : ~Flagging(t, o) /\ (GoingDown(t) => GoingDown(t)')
    BY <2>1 DEF Flagging, GoingDown, DestroyLabels
  <2>3. lookup' \subseteq lookup
    BY <2>1 DEF DestroyMoves, DestroyLabels
  <2>4. garbage \subseteq garbage' /\ \A o \in Objects : Unneeded(o)' => Unneeded(o) \/ o \in garbage'
    <3>1. CASE pc[t] = "desClear"
      BY <2>1, <3>1, <1>0, UnreferenceFlags, Zenon DEF DestroyMoves
    <3>2. CASE pc[t] # "desClear"
      BY <2>1, <3>2 DEF DestroyMoves, DestroyLabels, Unneeded
    <3> QED
      BY <3>1, <3>2
  <2> QED
    BY <2>2, <2>3, <2>4, <1>0, FlagsKept
<1>4. CASE TearDown(t)
  BY <1>4, TearSteps, <1>0
  DEF TearMoves, WalkLocals, GoingDown, Severed, ListLabels, WalkPlaces, Flagged
<1>5. CASE FastEnd(t)
  <2>1. pc[t] = "fastNext" /\ UNCHANGED <<refBy, garbage>>
    BY <1>5 DEF FastEnd
  <2>2. ~GoingDown(t)
    BY <2>1, <1>5, OtherWalksAreStill DEF GoingDown
  <2>3. CASE UNCHANGED <<rootCount, heapVars, roots>>
    BY <2>1, <2>2, <2>3, <1>1 DEF heapVars
  <2>4. CASE ~UNCHANGED <<rootCount, heapVars, roots>>
    BY <2>4, <1>5, GraphAssumption, <1>0, <2>1, <2>2, FlagsKept
    DEF FastEnd, RegisterObject, Unneeded, Flagging
  <2> QED
    BY <2>3, <2>4
<1>6. CASE FastNext(t) \/ NewLarge(t) \/ Destroy(t) \/ \E p \in Lists : CollectBegin(t, p)
  BY <1>6, OtherWalksAreStill, <1>1, Zenon
 DEF FastNext, NewLarge, Destroy, CollectBegin, headerVars, heapVars, GoingDown, Idle
<1> QED
  BY <1>2, <1>3, <1>4, <1>5, <1>6

LEMMA NextFlags ==
    ASSUME RootInv, NEW t \in Threads, Threads = {t}, Placed(t), Placed(t)',
           Ledger(t), Ledger(t)', Locks(t), Flagged(t), Next
    PROVE  Flagged(t)'
  BY HandleFlags, AssignFlags, WalkFlags, OneThreadSteps DEF Collect, HandleStep, ScanStep

\* What holds of the only thread there is, and of what it works on.
Kept(t) ==
    /\ RootInv /\ Placed(t) /\ Ledger(t) /\ Spared(t) /\ Hunted(t)
    /\ Listings(t) /\ Locks(t) /\ Flagged(t) /\ fault = {}

LEMMA InitKept == ASSUME NEW t \in Threads, Threads = {t}, Init PROVE Kept(t)
  BY InitRootInv, InitPlaced, InitLedger, InitSpared, InitListings, InitLocks
  DEF Init, Flagged, Kept

LEMMA NextKept == ASSUME NEW t \in Threads, Threads = {t}, Acyclic, Kept(t), [Next]_vars PROVE Kept(t)'
<1>1. RootInv /\ Placed(t) /\ Ledger(t) /\ Spared(t) /\ Hunted(t) /\ Listings(t) /\ Locks(t) /\ Flagged(t) /\ fault = {}
  BY DEF Kept
<1>2. RootInv' /\ Placed(t)' /\ Ledger(t)' /\ Spared(t)' /\ Hunted(t)'
  BY <1>1, NextRootInv, NextPlaced, NextLedger, NextSpared
<1>3. CASE Next
  BY <1>1, <1>2, <1>3, NextLocks, NextFlags DEF Kept
<1>4. CASE UNCHANGED vars
  <2> USE DEF vars, headerVars, lockVars, heapVars, implVars, clientVars, opVars, colVars
  <2>1. Candidate(t)' = Candidate(t) /\ FieldValue(t)' = FieldValue(t) /\ Listed(t)' = Listed(t) /\ Born' = Born /\ Dead' = Dead
    BY <1>4 DEF Candidate, FieldValue, Listed, Born, Dead
  <2>2. Listings(t)'
    BY <1>1, <1>4, <2>1 DEF Listings, Arranged, Registered, Found, Severed
  <2>3. Reading(t)' = Reading(t) /\ Writing(t)' = Writing(t)
    BY <1>4, <2>1 DEF Reading, Writing, Reads, Writes
  <2>4. Locks(t)'
    BY <1>1, <1>4, <2>1, <2>3 DEF Locks, Locked, Dropped
  <2>5. Flagged(t)' /\ fault' = {}
    BY <1>1, <1>4 DEF Flagged, Flagging, Unneeded, GoingDown, Severed
  <2> QED
    BY <2>2, <2>4, <2>5, <1>2 DEF Kept
<1> QED
  BY <1>3, <1>4

\* With one thread, and fields by which no cycle can come about, no assertion of
\* the collector fails, whatever is allocated, assigned, collected and torn down
\* (gc.cpp:140, 199, 375, 461, 708).
THEOREM NoAssertionFails ==
    ASSUME \E t : Threads = {t}, Acyclic
    PROVE  Spec => []AssertionsHold
<1> PICK t : Threads = {t}
  OBVIOUS
<1>0. t \in Threads
  OBVIOUS
<1>1. Kept(t) => AssertionsHold
  BY DEF Kept, AssertionsHold
<1>2. Init => Kept(t)
  BY <1>0, InitKept
<1>3. Kept(t) /\ [Next]_vars => Kept(t)'
  BY <1>0, NextKept
<1> QED
  BY <1>1, <1>2, <1>3, PTL DEF Spec

\* Under the same hypotheses, a live object that has neither a handle nor a
\* referrer is marked as garbage whenever no operation is under way: the drop of
\* the last handle and the removal of the last reference both see to it.
THEOREM NothingIsForgotten ==
    ASSUME \E t : Threads = {t}, Acyclic
    PROVE  Spec => []UnreachableIsFlagged
<1> PICK t : Threads = {t}
  OBVIOUS
<1>0. t \in Threads
  OBVIOUS
<1>1. Kept(t) => UnreachableIsFlagged
  <2> SUFFICES ASSUME Kept(t), Quiet, NEW o \in lookup, Unneeded(o) PROVE o \in garbage
    BY DEF UnreachableIsFlagged, Unneeded
  <2>1. pc[t] = Idle
    BY <1>0 DEF Quiet
  <2>2. ~GoingDown(t) /\ ~Flagging(t, o)
    BY <2>1 DEF GoingDown, Severed, ListLabels, Flagging, Idle
  <2> QED
    BY <2>2 DEF Kept, Flagged
<1>2. Init => Kept(t)
  BY <1>0, InitKept
<1>3. Kept(t) /\ [Next]_vars => Kept(t)'
  BY <1>0, NextKept
<1> QED
  BY <1>1, <1>2, <1>3, PTL DEF Spec

===============================================================================
