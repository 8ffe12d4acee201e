----------------------------- MODULE LargeObjects -----------------------------
(***************************************************************************)
(* Objects larger than a page, which have a list and a lock of their own:  *)
(* their part of Allocate (gc.cpp:32-58), CollectLargeObjectsFast          *)
(* (130-151), and the destructor of gc_impl (909-970), which is the last   *)
(* to walk over all lists.  CollectLargeObjectsSlow differs from           *)
(* CollectOnPage in the list alone and is part of module Collector.        *)
(***************************************************************************)
EXTENDS HandleOps, Collector

\* Allocate, with largeObjectsLock from here on.
NewLarge(t) ==
    /\ pc[t] = Idle
    /\ allocated < MaxObjects /\ allocated + 1 \in LargeObjects
    /\ ~pageLock[Large]
    /\ pageLock' = [pageLock EXCEPT ![Large] = TRUE]
    /\ StartCol(t, "fastNext", Walk(Large, "fastNext"))
    /\ UNCHANGED <<headerVars, lockVars, heapVars, gcCount, fault, clientVars, opVars, stk>>

FastEnds(t) == col[t].i > Len(allocations[Large])

\* One whose flag is set goes to the end of the list and is destroyed, if its lock
\* is free; there is no search, and no collector id.
FastNext(t) ==
    /\ pc[t] = "fastNext" /\ ~FastEnds(t)
    /\ LET list == allocations[Large]
           o == list[col[t].i]
       IN  IF o \notin garbage
             THEN /\ col' = [col EXCEPT ![t].i = @ + 1]
                  /\ UNCHANGED <<allocations, lockVars, pageLock, fault, pc>>
             ELSE /\ allocations' = [allocations EXCEPT
                                       ![Large] = [list EXCEPT ![col[t].i] = list[Len(list)],
                                                               ![Len(list)] = o]]
                  /\ IF word[o] = Free
                       THEN /\ TakeWrite(t, o)
                            /\ StartCol(t, "desUnregister", [col[t] EXCEPT !.obj = o])
                            /\ UNCHANGED <<pageLock, fault>>
                       ELSE /\ Abort(t, "unreleased lock(s) to dead object")
                            /\ UNCHANGED lockVars
    /\ UNCHANGED <<headerVars, allocated, lookup, gcCount, clientVars, opVars, stk>>

\* The allocator or the registration throws, or the object is there.
FastEnd(t) ==
    /\ pc[t] = "fastNext" /\ FastEnds(t)
    /\ pageLock' = [pageLock EXCEPT ![Large] = FALSE]
    /\ StartCol(t, Idle, NoLocals)
    /\ \/ UNCHANGED <<rootCount, heapVars, roots>>
       \/ LET o == allocated + 1
          IN  /\ o \in LargeObjects
              /\ allocations' = [allocations EXCEPT ![Large] = Append(@, o)]
              /\ allocated' = o
              /\ RegisterObject(o)
              /\ AddRoot(t, o)
    /\ UNCHANGED <<refBy, garbage, field, lockVars, gcCount, fault, roPins, rwPins, opVars, stk>>

AllocateLarge(t) == FastNext(t) \/ FastEnd(t)

-------------------------------------------------------------------------------
(* gc::Destroy by the last user, and the destructor of gc_impl *)

\* The code asks for neither, but destroys impl under whoever still uses it: that no
\* operation is under way is the caller's part ("it's not my job", gc.cpp:1087), and so
\* is that no handle is left, since dropping one afterwards has no gc_impl to go to.
Destroy(t) ==
    /\ \A u \in Threads : pc[u] = Idle /\ \A o \in Born : Handles(u, o) = 0
    /\ Goto(t, "tearSever")
    /\ UNCHANGED <<headerVars, lockVars, heapVars, implVars, clientVars, opVars, colVars>>

OnPages == {o \in Born : \E p \in Pages : \E i \in DOMAIN allocations[p] : allocations[p][i] = o}

\* The objects on pages lose their fields and forget who refers to them.
TearSever(t) ==
    /\ pc[t] = "tearSever"
    /\ \A o \in OnPages : word[o] = Free
    /\ field' = [o \in Objects |-> IF o \in OnPages THEN [s \in Slots |-> Null] ELSE field[o]]
    /\ refBy' = [o \in Objects |-> IF o \in OnPages THEN <<>> ELSE refBy[o]]
    /\ Goto(t, "tearPages")
    /\ UNCHANGED <<rootCount, garbage, lockVars, heapVars, implVars, clientVars, opVars, colVars>>

\* Then they are destroyed, each list from its end; their locks stay taken.
TearPages(t) ==
    /\ pc[t] = "tearPages"
    /\ \E p \in Pages :
          /\ allocations[p] # <<>>
          /\ LET o == allocations[p][Len(allocations[p])]
             IN  /\ TakeWrite(t, o)
                 /\ garbage' = garbage \cup {o}
                 /\ lookup' = lookup \ {o}
          /\ allocations' = [allocations EXCEPT ![p] = SubSeq(@, 1, Len(@) - 1)]
    /\ UNCHANGED <<rootCount, refBy, field, allocated, implVars, clientVars, pc, opVars, colVars>>

\* Mutant: large objects are left to the allocator.
TearPagesOnly(t) ==
    /\ pc[t] = "tearPages"
    /\ \A p \in Pages : allocations[p] = <<>>
    /\ StartCol(t, "down", NoLocals)
    /\ UNCHANGED <<headerVars, lockVars, heapVars, implVars, clientVars, opVars, stk>>

TearPagesEnd(t) ==
    /\ pc[t] = "tearPages"
    /\ \A p \in Pages : allocations[p] = <<>>
    /\ IF Large \in Lists THEN StartCol(t, "tearLarge", Walk(Large, "tearLarge"))
                          ELSE StartCol(t, "down", NoLocals)
    /\ UNCHANGED <<headerVars, lockVars, heapVars, implVars, clientVars, opVars, stk>>

\* The large objects are destroyed in their order, without their locks.
TearLarge(t) ==
    /\ pc[t] = "tearLarge"
    /\ IF col[t].i > Len(allocations[Large])
         THEN StartCol(t, "down", NoLocals)
         ELSE StartCol(t, "desUnregister", [col[t] EXCEPT !.obj = allocations[Large][col[t].i]])
    /\ UNCHANGED <<headerVars, lockVars, heapVars, implVars, clientVars, opVars, stk>>

TearDown(t) == TearSever(t) \/ TearPages(t) \/ TearPagesEnd(t) \/ TearLarge(t)

\* Thread t destroys the large objects for good; the collector is, or goes, down.
TearsDown(t) == col[t] # NoLocals /\ col[t].back = "tearLarge"
GoesDown(t) == pc[t] \in {"tearSever", "tearPages", "down"} \/ TearsDown(t)

===============================================================================
