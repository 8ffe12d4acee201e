------------------------------- MODULE Collector ------------------------------
(***************************************************************************)
(* CollectOnPage (gc.cpp:411-486) and CollectLargeObjectsSlow (153-226),   *)
(* with TryFindRootFor (632-688), DestroyObject (601-630) and              *)
(* DestroyLargeObject (488-509), CallDestructorForObject (511-599).        *)
(*                                                                         *)
(* The recursion of TryFindRootFor is kept on an explicit stack of frames  *)
(* [obj, k, ref]: the handle being searched, its position in referencedBy  *)
(* and the referrer read there.                                            *)
(* A handle's mark bit of this collection's id is set exactly while the    *)
(* handle is on the stack, and no other thread has that id.                *)
(***************************************************************************)
EXTENDS ObjectGraph

\* compare_exchange_weak may fail although the word is what was expected;
\* FALSE where the hardware's never does (x86).
CONSTANT WeakCasMayFail

ASSUME WeakCasAssumption == WeakCasMayFail \in BOOLEAN

\* TryAcquireRead(1) gives up: the object is written, full, or unlucky.
CanMissRead(o) == ~Readable(word[o]) \/ WeakCasMayFail

Frame(o) == [obj |-> o, k |-> 1, ref |-> Null]

StartCol(t, label, locals) ==
    /\ Goto(t, label)
    /\ col' = [col EXCEPT ![t] = locals]

Candidate(t) == col[t].obj

\* A thread's way through a list; when it has destroyed an object it is back where
\* the list goes on.
Walk(p, label) ==
    [page |-> p, i |-> 1, slot |-> 1, obj |-> Null, found |-> FALSE, back |-> label]

-------------------------------------------------------------------------------
(* The scan over the allocations of a page, or over the large objects *)

\* gc::Collect waits for the page's mutex; Allocate tries to get it.  For the large
\* objects it is Allocate that waits, after it has tried all pages.
CollectBegin(t, p) ==
    /\ pc[t] = Idle
    /\ ~pageLock[p]
    /\ pageLock' = [pageLock EXCEPT ![p] = TRUE]
    /\ StartCol(t, "colId", Walk(p, "colNext"))
    /\ UNCHANGED <<headerVars, lockVars, heapVars, gcCount, fault, clientVars, opVars, stk>>

\* while ((id = gcCount++) >= max): once MaxIds collections have started, every
\* later one waits here, since gcCount is not decremented when one ends.
CollectId(t) ==
    /\ pc[t] = "colId"
    /\ gcCount < MaxIds
    /\ gcCount' = gcCount + 1
    /\ Goto(t, "colNext")
    /\ UNCHANGED <<headerVars, lockVars, heapVars, pageLock, fault, clientVars, opVars, colVars>>

CollectEnd(t) ==
    /\ pc[t] = "colNext"
    /\ col[t].i > Len(allocations[col[t].page])
    /\ pageLock' = [pageLock EXCEPT ![col[t].page] = FALSE]
    /\ StartCol(t, Idle, NoLocals)
    /\ UNCHANGED <<headerVars, lockVars, heapVars, gcCount, fault, clientVars, opVars, stk>>

\* A failed assertion throws out of the collection: the page's mutex is
\* released by its scope, the object's lock is not.
Abort(t, message) ==
    /\ fault' = fault \cup {message}
    /\ pageLock' = [pageLock EXCEPT ![col[t].page] = FALSE]
    /\ StartCol(t, Idle, NoLocals)

\* The next allocation entry and its handle, which the list of the large objects has
\* itself; objects with root handles live.
CollectNext(t) ==
    /\ pc[t] = "colNext"
    /\ col[t].i <= Len(allocations[col[t].page])
    /\ LET o == allocations[col[t].page][col[t].i]
       IN  IF o \notin lookup /\ col[t].page # Large
             THEN Abort(t, "unregistered/invalid allocation")
             ELSE /\ IF rootCount[o] > 0
                       THEN col' = [col EXCEPT ![t].i = @ + 1] /\ UNCHANGED pc
                       ELSE StartCol(t, "colTry", [col[t] EXCEPT !.obj = o])
                  /\ UNCHANGED <<pageLock, fault>>
    /\ UNCHANGED <<headerVars, lockVars, heapVars, gcCount, clientVars, opVars, stk>>

NextCandidate(t) == StartCol(t, "colNext", [col[t] EXCEPT !.i = @ + 1, !.obj = Null])

\* A write access for a moment, which an object in use refuses.
CollectTry(t) ==
    /\ pc[t] = "colTry"
    /\ IF word[Candidate(t)] = Free
         THEN TakeWrite(t, Candidate(t)) /\ Goto(t, "colUntry") /\ UNCHANGED col
         ELSE NextCandidate(t) /\ UNCHANGED lockVars
    /\ UNCHANGED <<headerVars, heapVars, implVars, clientVars, opVars, stk>>

CollectUntry(t) ==
    /\ pc[t] = "colUntry"
    /\ DropLock(t, Candidate(t))
    /\ Goto(t, "colRead")
    /\ UNCHANGED <<headerVars, heapVars, implVars, clientVars, opVars, colVars>>

CollectRead(t) ==
    /\ pc[t] = "colRead"
    /\ \/ TakeRead(Candidate(t)) /\ Goto(t, "colFlag") /\ UNCHANGED col
       \/ CanMissRead(Candidate(t)) /\ NextCandidate(t) /\ UNCHANGED lockVars
    /\ UNCHANGED <<headerVars, heapVars, implVars, clientVars, opVars, stk>>

\* Marked already, or search for a root that keeps it alive.
CollectFlag(t) ==
    /\ pc[t] = "colFlag"
    /\ IF Candidate(t) \in garbage
         THEN Goto(t, "colUpgrade") /\ UNCHANGED stk
         ELSE Goto(t, "findEnter") /\ stk' = [stk EXCEPT ![t] = <<Frame(Candidate(t))>>]
    /\ UNCHANGED <<headerVars, lockVars, heapVars, implVars, clientVars, opVars, col>>

CollectRelease(t) ==
    /\ pc[t] = "colRelease"
    /\ DropLock(t, Candidate(t))
    /\ NextCandidate(t)
    /\ UNCHANGED <<headerVars, heapVars, implVars, clientVars, opVars, stk>>

\* GCA_ASSERT(TryUpgrade()): nobody may hold a lock to a dead object.
CollectUpgrade(t) ==
    /\ pc[t] = "colUpgrade"
    /\ IF CanUpgrade(Candidate(t))
         THEN /\ TakeUpgrade(t, Candidate(t))
              /\ Goto(t, "desUnregister")
              /\ UNCHANGED <<pageLock, fault, col>>
         ELSE /\ Abort(t, "unreleased lock(s) to dead object")
              /\ UNCHANGED lockVars
    /\ UNCHANGED <<headerVars, heapVars, gcCount, clientVars, opVars, stk>>

-------------------------------------------------------------------------------
(* TryFindRootFor *)

Top(t) == stk[t][Len(stk[t])]
Below(t) == SubSeq(stk[t], 1, Len(stk[t]) - 1)
Marked(t, o) == \E f \in DOMAIN Below(t) : Below(t)[f].obj = o

FindReturns(t, found) == StartCol(t, "findReturn", [col[t] EXCEPT !.found = found])

\* A set mark bit answers no, a root handle answers yes.
FindEnter(t) ==
    /\ pc[t] = "findEnter"
    /\ IF Marked(t, Top(t).obj) THEN FindReturns(t, FALSE)
       ELSE IF rootCount[Top(t).obj] > 0 THEN FindReturns(t, TRUE)
       ELSE Goto(t, "findFlag") /\ UNCHANGED col
    /\ UNCHANGED <<headerVars, lockVars, heapVars, implVars, clientVars, opVars, stk>>

FindFlag(t) ==
    /\ pc[t] = "findFlag"
    /\ IF Top(t).obj \in garbage THEN FindReturns(t, FALSE) ELSE Goto(t, "findScan") /\ UNCHANGED col
    /\ UNCHANGED <<headerVars, lockVars, heapVars, implVars, clientVars, opVars, stk>>

\* any_of: the next referrer, first by its root handles.
FindScan(t) ==
    /\ pc[t] = "findScan"
    /\ LET f == Top(t)
       IN  IF f.k > Len(refBy[f.obj]) THEN FindReturns(t, FALSE)
           ELSE IF rootCount[refBy[f.obj][f.k]] > 0 THEN FindReturns(t, TRUE)
           ELSE Goto(t, "findDescend") /\ UNCHANGED col
    /\ stk' = IF pc'[t] = "findDescend"
                THEN [stk EXCEPT ![t][Len(stk[t])].ref = refBy[Top(t).obj][Top(t).k]] ELSE stk
    /\ UNCHANGED <<headerVars, lockVars, heapVars, implVars, clientVars, opVars>>

\* The stack with its top frame moved on to the next referrer.
Advance(s) == [s EXCEPT ![Len(s)].k = @ + 1, ![Len(s)].ref = Null]

\* Then by its garbage flag.
FindDescend(t) ==
    /\ pc[t] = "findDescend"
    /\ IF Top(t).ref \in garbage
         THEN Goto(t, "findScan") /\ stk' = [stk EXCEPT ![t] = Advance(@)]
         ELSE Goto(t, "findLock") /\ UNCHANGED stk
    /\ UNCHANGED <<headerVars, lockVars, heapVars, implVars, clientVars, opVars, col>>

\* A referrer that cannot be locked counts as alive.
FindLock(t) ==
    /\ pc[t] = "findLock"
    /\ LET r == Top(t).ref
       IN  \/ /\ TakeRead(r)
              /\ Goto(t, "findEnter")
              /\ stk' = [stk EXCEPT ![t] = Append(@, Frame(r))]
              /\ UNCHANGED col
           \/ /\ CanMissRead(r)
              /\ FindReturns(t, TRUE)
              /\ UNCHANGED <<lockVars, stk>>
    /\ UNCHANGED <<headerVars, heapVars, implVars, clientVars, opVars>>

\* The caller of the finished search: a referrer without a root is garbage, the lock
\* of one with a root is released and any_of is decided.  The outermost caller is
\* CollectOnPage.
FindReturn(t) ==
    /\ pc[t] = "findReturn"
    /\ LET r == Top(t).obj
       IN  IF Len(stk[t]) = 1
             THEN /\ Goto(t, IF col[t].found THEN "colRelease" ELSE "colUpgrade")
                  /\ stk' = [stk EXCEPT ![t] = <<>>]
                  /\ UNCHANGED <<lockVars, garbage>>
           ELSE IF col[t].found
             THEN /\ DropLock(t, r)
                  /\ stk' = [stk EXCEPT ![t] = Below(t)]
                  /\ UNCHANGED <<pc, garbage>>
             ELSE /\ garbage' = garbage \cup {r}
                  /\ Goto(t, "findRelease")
                  /\ UNCHANGED <<lockVars, stk>>
    /\ UNCHANGED <<rootCount, refBy, field, heapVars, implVars, clientVars, opVars, col>>

\* The garbage is released, too, and any_of goes on.
FindRelease(t) ==
    /\ pc[t] = "findRelease"
    /\ DropLock(t, Top(t).obj)
    /\ Goto(t, "findScan")
    /\ stk' = [stk EXCEPT ![t] = Advance(Below(t))]
    /\ UNCHANGED <<headerVars, heapVars, implVars, clientVars, opVars, col>>

Find(t) == \/ FindEnter(t) \/ FindFlag(t) \/ FindScan(t) \/ FindDescend(t) \/ FindLock(t)
           \/ FindReturn(t) \/ FindRelease(t)

-------------------------------------------------------------------------------
(* DestroyObject *)

\* MarkGarbage and erase the allocation from the lookup.
DestroyUnregister(t) ==
    /\ pc[t] = "desUnregister"
    /\ garbage' = garbage \cup {Candidate(t)}
    /\ lookup' = lookup \ {Candidate(t)}
    /\ Goto(t, "desField")
    /\ UNCHANGED <<rootCount, refBy, field, lockVars, allocated, allocations, implVars,
                   clientVars, opVars, colVars>>

FieldsDone(t) == col[t].slot \notin Slots
FieldValue(t) == field[Candidate(t)][col[t].slot]

\* The next field; its object is locked without waiting.  When that fails the
\* dying object is released for a moment, so that whoever searches it gets on.
DestroyField(t) ==
    /\ pc[t] = "desField"
    /\ ~FieldsDone(t)
    /\ IF FieldValue(t) = Null
         THEN col' = [col EXCEPT ![t].slot = @ + 1] /\ UNCHANGED <<pc, lockVars>>
         ELSE /\ IF word[FieldValue(t)] = Free
                   THEN TakeWrite(t, FieldValue(t)) /\ Goto(t, "desClear")
                   ELSE DropLock(t, Candidate(t)) /\ Goto(t, "desReacquire")
              /\ UNCHANGED col
    /\ UNCHANGED <<headerVars, heapVars, implVars, clientVars, opVars, stk>>

DestroyReacquire(t) ==
    /\ pc[t] = "desReacquire"
    /\ TakeWrite(t, Candidate(t))
    /\ Goto(t, "desField")
    /\ UNCHANGED <<headerVars, heapVars, implVars, clientVars, opVars, colVars>>

\* SetField(field, nullptr), which finds the lock in the thread-local set ...
DestroyClear(t) ==
    /\ pc[t] = "desClear"
    /\ IF Refers(Candidate(t), FieldValue(t))
         THEN /\ Unreference(t, Candidate(t), FieldValue(t))
              /\ Goto(t, "desRelease")
              /\ UNCHANGED <<pageLock, fault, col>>
         ELSE /\ Abort(t, "oldValue wasn't aware of being referenced by obj")
              /\ word' = [word EXCEPT ![Candidate(t)] = Free, ![FieldValue(t)] = Free]
              /\ rwSet' = [rwSet EXCEPT ![t] = @ \ {Candidate(t), FieldValue(t)}]
              /\ UNCHANGED <<refBy, garbage>>
    /\ UNCHANGED <<rootCount, field, heapVars, gcCount, clientVars, opVars, stk>>

\* ... stores null, and the caller releases the lock SetField has released.
DestroyRelease(t) ==
    /\ pc[t] = "desRelease"
    /\ DropLock(t, FieldValue(t))
    /\ field' = [field EXCEPT ![Candidate(t)][col[t].slot] = Null]
    /\ StartCol(t, "desField", [col[t] EXCEPT !.slot = @ + 1])
    /\ UNCHANGED <<rootCount, refBy, garbage, heapVars, implVars, clientVars, opVars, stk>>

Listed(t) == allocations[col[t].page]

\* The list without the object.  RemoveAllocation keeps its order, the scans of the
\* large objects swap with back(), the teardown goes on over the whole list.
Shrunk(t) ==
    CASE col[t].back = "colNext" /\ col[t].page # Large -> RemoveFirst(Listed(t), Candidate(t))
      [] col[t].back = "colNext" /\ col[t].page = Large -> SwapRemove(Listed(t), Candidate(t))
      [] col[t].back = "fastNext"  -> SubSeq(Listed(t), 1, Len(Listed(t)) - 1)
      [] col[t].back = "tearLarge" -> Listed(t)

\* Mutants: the page keeps the entry; the scan goes on behind the next object.
DestroyFreeNothing(t) ==
    /\ pc[t] = "desField"
    /\ FieldsDone(t)
    /\ StartCol(t, col[t].back, [col[t] EXCEPT !.obj = Null, !.slot = 1])
    /\ UNCHANGED <<headerVars, lockVars, heapVars, implVars, clientVars, opVars, stk>>

DestroyFreeSkipping(t) ==
    /\ pc[t] = "desField"
    /\ FieldsDone(t)
    /\ allocations' = [allocations EXCEPT ![col[t].page] = Shrunk(t)]
    /\ StartCol(t, col[t].back, [col[t] EXCEPT !.i = @ + 1, !.obj = Null, !.slot = 1])
    /\ UNCHANGED <<headerVars, lockVars, allocated, lookup, implVars, clientVars, opVars, stk>>

\* The destructor, and the entry goes; the handle and its lock stay as they are
\* (ptr_safe_container::Remove returns early for a taken slot), and --i makes
\* the scan look at the same position again.
DestroyFree(t) ==
    /\ pc[t] = "desField"
    /\ FieldsDone(t)
    /\ allocations' = [allocations EXCEPT ![col[t].page] = Shrunk(t)]
    /\ StartCol(t, col[t].back,
                [col[t] EXCEPT !.i = IF Shrunk(t) = Listed(t) THEN @ + 1 ELSE @,
                               !.obj = Null, !.slot = 1])
    /\ UNCHANGED <<headerVars, lockVars, allocated, lookup, implVars, clientVars, opVars, stk>>

DestroyObject(t) == \/ DestroyUnregister(t) \/ DestroyField(t) \/ DestroyReacquire(t)
                    \/ DestroyClear(t) \/ DestroyRelease(t) \/ DestroyFree(t)

Collect(t) == \/ CollectId(t) \/ CollectEnd(t) \/ CollectNext(t) \/ CollectTry(t)
              \/ CollectUntry(t) \/ CollectRead(t) \/ CollectFlag(t) \/ CollectRelease(t)
              \/ CollectUpgrade(t) \/ Find(t) \/ DestroyObject(t)

===============================================================================
