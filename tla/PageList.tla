------------------------------- MODULE PageList -------------------------------
(***************************************************************************)
(* The list of pages and the threads that walk it: gc_impl::Allocate for   *)
(* objects that fit on a page, NewPage, InitPage, TryAllocateOnNewPage and *)
(* gc::Collect (gc.cpp), over the class mutex (gc-util.h).                 *)
(*                                                                         *)
(* A page is a node of the list with a number of units of room; which      *)
(* bytes an allocation gets is the subject of module Page, what a          *)
(* collection frees, and that it ends, those of module GC.                 *)
(***************************************************************************)
EXTENDS Integers, Sequences, FiniteSets

CONSTANTS
    Threads,
    Pages,        \* bound: the nodes there is memory for
    End,          \* the sentinel that a list iterator ends on
    Room,         \* units on a page
    Sizes,        \* units of a request
    Calls,        \* bound: how often a thread calls Allocate or Collect
    MaxIds        \* config::gc_max_collection_thread_count

ASSUME PageListAssumption ==
    /\ End \notin Pages
    /\ Room \in Nat \ {0} /\ Sizes \subseteq 1..Room /\ Calls \in Nat /\ MaxIds \in Nat

VARIABLES
    pages,             \* the list
    memory,            \* the pages whose memory pointer is set
    locked,            \* the pages whose allocationLock is set
    used,              \* page::allocations: per page, the units allocated
    dead,              \* per page, units of objects that nothing refers to
    pageAllocationLock,
    pagesLock,         \* whether a thread has pagesLock for writing
    largeObjectsLock,  \* whether a thread has largeObjectsLock for writing
    gcCount,           \* the collector ids that have been handed out
    pc, at,            \* per thread: where it is in the code, its page or iterator
    need,              \* per thread: the units asked for, 0 for Collect
    left               \* per thread: the calls it may still make

vars == <<pages, memory, locked, used, dead, pageAllocationLock, pagesLock,
          largeObjectsLock, gcCount, pc, at, need, left>>
roomVars == <<used, dead>>
lockVars == <<pageAllocationLock, pagesLock, largeObjectsLock>>
listVars == <<pages, memory>>
callVars == <<gcCount, need, left>>

Listed == {pages[i] : i \in DOMAIN pages}
Begin == IF pages = <<>> THEN End ELSE Head(pages)

\* ++it, without pagesLock.
Following(p) ==
    LET after == {i \in DOMAIN pages : i > 1 /\ pages[i - 1] = p}
    IN  IF after = {} THEN End ELSE pages[CHOOSE i \in after : TRUE]

\* Where a thread has the page at[t] to itself, where it makes a page, and where its
\* iterator is on one.
Using   == {"first", "collect", "collecting", "collected", "defragment", "defragmented",
            "register", "new"}
Making  == {"init", "own"}
Walking == Using \cup {"scan", "next"}
InNewPage == {"pages", "emplace"} \cup Making

\* The labels of a thread.
PCs == Walking \cup InNewPage \cup {"idle", "large", "largeCollecting", "allocation", "undefined"}

Init ==
    /\ pages = <<>> /\ memory = {} /\ locked = {}
    /\ used = [p \in Pages |-> 0] /\ dead = [p \in Pages |-> 0]
    /\ pageAllocationLock = FALSE /\ pagesLock = FALSE /\ largeObjectsLock = FALSE
    /\ gcCount = 0
    /\ pc = [t \in Threads |-> "idle"] /\ at = [t \in Threads |-> End]
    /\ need = [t \in Threads |-> 0] /\ left = [t \in Threads |-> Calls]

Goto(t, l) == pc' = [pc EXCEPT ![t] = l]
Walk(t, p) == at' = [at EXCEPT ![t] = p]

\* class mutex: a flag without an owner.
TryAcquire(p) == p \notin locked /\ locked' = locked \cup {p}
Release(p) == locked' = locked \ {p}

-------------------------------------------------------------------------------
(* The walk along the list.  Allocate asks for need[t] units, Collect for none. *)

\* The iterators for begin and end are read under pagesLock.
Call(t) ==
    /\ pc[t] = "idle" /\ left[t] > 0
    /\ left' = [left EXCEPT ![t] = @ - 1]
    /\ \E size \in Sizes \cup {0} : need' = [need EXCEPT ![t] = size]
    /\ ~pagesLock
    /\ Walk(t, Begin) /\ Goto(t, "scan")
    /\ UNCHANGED <<listVars, locked, roomVars, lockVars, gcCount>>

\* Collect waits for the page's mutex, Allocate tries page_acquire_attempts times ...
Acquire(t) ==
    /\ pc[t] = "scan" /\ at[t] # End
    /\ TryAcquire(at[t])
    /\ Goto(t, IF need[t] = 0 THEN "collect" ELSE "first")
    /\ UNCHANGED <<listVars, roomVars, lockVars, at, callVars>>

\* ... and skips a page whose mutex another thread has all the time.
Skip(t) ==
    /\ pc[t] = "scan" /\ need[t] > 0 /\ at[t] \in locked
    /\ Goto(t, "next")
    /\ UNCHANGED <<listVars, locked, roomVars, lockVars, at, callVars>>

\* The next page may be one that another thread is making: it is in the list, and
\* its mutex is free.
Advance(t) ==
    /\ pc[t] = "next"
    /\ Walk(t, Following(at[t])) /\ Goto(t, "scan")
    /\ UNCHANGED <<listVars, locked, roomVars, lockVars, callVars>>

\* Collect has come to the end.
Finish(t) ==
    /\ pc[t] = "scan" /\ at[t] = End /\ need[t] = 0
    /\ Goto(t, "idle")
    /\ UNCHANGED <<listVars, locked, roomVars, lockVars, at, callVars>>

-------------------------------------------------------------------------------
(* With a page's mutex *)

\* page::TryAllocate needs a gap, which may be missing on a page that has room,
\* but not on an empty one.
Fits(t)  == used[at[t]] + need[t] <= Room
NoGap(t) == used[at[t]] > 0 \/ ~Fits(t)

\* By Allocate and by TryAllocateOnNewPage.
TryAllocate(t) ==
    /\ pc[t] \in {"first", "collected", "defragmented", "new"}
    /\ Fits(t)
    /\ used' = [used EXCEPT ![at[t]] = @ + need[t]]
    /\ Goto(t, "register")
    /\ UNCHANGED <<listVars, locked, dead, lockVars, at, callVars>>

\* No room: collect, then defragment.
TryInVain(t) ==
    /\ \/ pc[t] = "first" /\ Goto(t, "collect")
       \/ pc[t] = "collected" /\ Goto(t, "defragment")
    /\ NoGap(t)
    /\ UNCHANGED <<listVars, locked, roomVars, lockVars, at, callVars>>

\* while ((id = gcCount++) >= max): no collection gives its id back, so that a thread
\* that finds none left waits for ever, with the page's mutex or largeObjectsLock.
TakeId(t) ==
    /\ \/ pc[t] = "collect" /\ Goto(t, "collecting")
       \/ pc[t] = "large" /\ Goto(t, "largeCollecting")
    /\ gcCount < MaxIds /\ gcCount' = gcCount + 1
    /\ UNCHANGED <<listVars, locked, roomVars, lockVars, at, need, left>>

\* Dead objects are freed, those whose lock is taken excepted.
CollectOnPage(t) ==
    /\ pc[t] = "collecting"
    /\ \E n \in 0..dead[at[t]] : /\ used' = [used EXCEPT ![at[t]] = @ - n]
                                 /\ dead' = [dead EXCEPT ![at[t]] = @ - n]
    /\ Goto(t, IF need[t] = 0 THEN "defragment" ELSE "collected")
    /\ UNCHANGED <<listVars, locked, lockVars, at, callVars>>

DefragmentOnPage(t) ==
    /\ pc[t] = "defragment"
    /\ Goto(t, "defragmented")
    /\ UNCHANGED <<listVars, locked, roomVars, lockVars, at, callVars>>

\* The page has no place for the request, or has been collected, and defragmented
\* if Collect was asked to.
Leave(t) ==
    /\ \/ pc[t] = "defragment" /\ need[t] = 0
       \/ pc[t] = "defragmented" /\ (need[t] = 0 \/ NoGap(t))
    /\ Release(at[t]) /\ Goto(t, "next")
    /\ UNCHANGED <<listVars, roomVars, lockVars, at, callVars>>

\* RegisterObject or GetOrRegisterType may throw: the allocation is removed, the
\* exception goes on.
Register(t) ==
    /\ pc[t] = "register"
    /\ \/ UNCHANGED used
       \/ used' = [used EXCEPT ![at[t]] = @ - need[t]]
    /\ Release(at[t]) /\ Goto(t, "idle")
    /\ UNCHANGED <<listVars, dead, lockVars, at, callVars>>

Throwing == {"first", "collecting", "collected", "defragment", "defragmented", "new"}

\* Mutant: the page's mutex is not that of a scope.
ThrowLocked(t) ==
    /\ pc[t] \in Throwing
    /\ Goto(t, "idle")
    /\ UNCHANGED <<listVars, locked, roomVars, lockVars, at, callVars>>

\* An exception out of TryAllocate (no memory for the entry), CollectOnPage or
\* DefragmentOnPage (a failed assertion) ends the call.
Throw(t) ==
    /\ pc[t] \in Throwing
    /\ Release(at[t]) /\ Goto(t, "idle")
    /\ UNCHANGED <<listVars, roomVars, lockVars, at, callVars>>

-------------------------------------------------------------------------------
(* The end of the list: CollectLargeObjectsSlow, NewPage, TryAllocateOnNewPage *)

LockLarge(t) ==
    /\ pc[t] = "scan" /\ at[t] = End /\ need[t] > 0
    /\ ~largeObjectsLock /\ largeObjectsLock' = TRUE
    /\ Goto(t, "large")
    /\ UNCHANGED <<listVars, locked, roomVars, pageAllocationLock, pagesLock, at, callVars>>

\* The collection, by a thread that has an id, may throw, too.
CollectLarge(t) ==
    /\ pc[t] = "largeCollecting"
    /\ largeObjectsLock' = FALSE
    /\ Goto(t, "allocation") \/ Goto(t, "idle")
    /\ UNCHANGED <<listVars, locked, roomVars, pageAllocationLock, pagesLock, at, callVars>>

LockAllocation(t) ==
    /\ pc[t] = "allocation"
    /\ ~pageAllocationLock /\ pageAllocationLock' = TRUE
    /\ Goto(t, "pages")
    /\ UNCHANGED <<listVars, locked, roomVars, pagesLock, largeObjectsLock, at, callVars>>

LockPages(t) ==
    /\ pc[t] = "pages"
    /\ ~pagesLock /\ pagesLock' = TRUE
    /\ Goto(t, "emplace")
    /\ UNCHANGED <<listVars, locked, roomVars, pageAllocationLock, largeObjectsLock, at, callVars>>

UnlockBoth == pagesLock' = FALSE /\ pageAllocationLock' = FALSE /\ UNCHANGED largeObjectsLock

\* A node is a page for as long as somebody has an iterator on it: one that is made
\* where a page was given up is another page.
Occupied == Listed \cup {at[u] : u \in {v \in Threads : pc[v] \in Walking}}

\* Mutant: the locks of the list end before the page has its memory.
EmplaceUnlocking(t) ==
    /\ pc[t] = "emplace"
    /\ Pages \ Occupied # {}
    /\ LET p == CHOOSE p \in Pages \ Occupied : TRUE
       IN  /\ pages' = Append(pages, p) /\ memory' = memory \ {p}
           /\ locked' = locked \ {p}
           /\ used' = [used EXCEPT ![p] = 0] /\ dead' = [dead EXCEPT ![p] = 0]
           /\ Walk(t, p)
    /\ UnlockBoth /\ Goto(t, "init")
    /\ UNCHANGED callVars

\* emplace_back, with a mutex that is free and no memory.
Emplace(t) ==
    /\ pc[t] = "emplace"
    /\ Pages \ Occupied # {}
    /\ LET p == CHOOSE p \in Pages \ Occupied : TRUE
       IN  /\ pages' = Append(pages, p) /\ memory' = memory \ {p}
           /\ locked' = locked \ {p}
           /\ used' = [used EXCEPT ![p] = 0] /\ dead' = [dead EXCEPT ![p] = 0]
           /\ Walk(t, p)
    /\ Goto(t, "init")
    /\ UNCHANGED <<lockVars, callVars>>

\* Mutant: the locks are not those of a scope.
EmplaceThrowsLocked(t) ==
    /\ pc[t] = "emplace"
    /\ Goto(t, "idle")
    /\ UNCHANGED <<listVars, locked, roomVars, lockVars, at, callVars>>

\* There is no memory for the node ...
EmplaceThrows(t) ==
    /\ pc[t] = "emplace"
    /\ UnlockBoth /\ Goto(t, "idle")
    /\ UNCHANGED <<listVars, locked, roomVars, at, callVars>>

\* ... or none for the page, or what there is is not aligned: pop_back.
InitThrows(t) ==
    /\ pc[t] \in Making
    /\ pages' = SubSeq(pages, 1, Len(pages) - 1)
    /\ UnlockBoth /\ Goto(t, "idle")
    /\ UNCHANGED <<memory, locked, roomVars, at, callVars>>

InitPage(t) ==
    /\ pc[t] = "init"
    /\ memory' = memory \cup {at[t]}
    /\ Goto(t, "own")
    /\ UNCHANGED <<pages, locked, roomVars, lockVars, at, callVars>>

\* Mutant: NewPage leaves the mutex alone (acquireLock = false).
OwnUnlocked(t) ==
    /\ pc[t] = "own"
    /\ UnlockBoth /\ Goto(t, "new")
    /\ UNCHANGED <<listVars, locked, roomVars, at, callVars>>

\* The mutex is acquired and the locks of the list released.
Own(t) ==
    /\ pc[t] = "own"
    /\ TryAcquire(at[t])
    /\ UnlockBoth /\ Goto(t, "new")
    /\ UNCHANGED <<listVars, roomVars, at, callVars>>

-------------------------------------------------------------------------------
(* Where the code leaves what it has defined; what comes after is not followed *)

\* The page has been given up since the thread went onto it.
Dangling(t) == pc[t] \in Walking /\ at[t] \notin Listed \cup {End}

\* TryAllocate and DefragmentOnPage work on the memory of the page.
Unfounded(t) == pc[t] \in {"first", "collected", "defragment", "defragmented"} /\ at[t] \notin memory

Undefine(t) == Goto(t, "undefined") /\ UNCHANGED <<listVars, locked, roomVars, lockVars, at, callVars>>

\* ... or somebody else has filled the page that the thread has made: Unreachable().
Unreachable(t) == pc[t] = "new" /\ NoGap(t) /\ Undefine(t)

\* The program drops its last reference to an object.
Drop(p) ==
    /\ p \in Listed
    /\ dead[p] < used[p]
    /\ \A t \in Threads : pc[t] = "register" /\ at[t] = p => dead[p] + need[t] < used[p]
    /\ dead' = [dead EXCEPT ![p] = @ + 1]
    /\ UNCHANGED <<listVars, locked, used, lockVars, pc, at, callVars>>

Defined == \A t \in Threads : pc[t] # "undefined"

Proceed(t) ==
    \/ Acquire(t) \/ Skip(t) \/ Advance(t) \/ Finish(t)
    \/ TryAllocate(t) \/ TryInVain(t) \/ TakeId(t) \/ CollectOnPage(t) \/ DefragmentOnPage(t)
    \/ Leave(t) \/ Register(t) \/ Throw(t)
    \/ LockLarge(t) \/ CollectLarge(t)
    \/ LockAllocation(t) \/ LockPages(t) \/ Emplace(t) \/ EmplaceThrows(t)
    \/ InitThrows(t) \/ InitPage(t) \/ Own(t) \/ Unreachable(t)

Step(t) ==
    /\ Defined
    /\ \/ (Dangling(t) \/ Unfounded(t)) /\ Undefine(t)
       \/ ~Dangling(t) /\ ~Unfounded(t) /\ Proceed(t)

Next ==
    \/ \E t \in Threads : Step(t) \/ (Defined /\ Call(t))
    \/ \E p \in Pages : Defined /\ Drop(p)

\* A thread is scheduled again and again while it is in a call.
Spec == Init /\ [][Next]_vars /\ \A t \in Threads : WF_vars(Step(t))

-------------------------------------------------------------------------------

TypeOK ==
    /\ pages \in Seq(Pages) /\ memory \subseteq Pages /\ locked \subseteq Pages
    /\ used \in [Pages -> 0..Room] /\ dead \in [Pages -> 0..Room]
    /\ pageAllocationLock \in BOOLEAN /\ pagesLock \in BOOLEAN /\ largeObjectsLock \in BOOLEAN
    /\ gcCount \in 0..MaxIds
    /\ pc \in [Threads -> PCs]
    /\ at \in [Threads -> Pages \cup {End}]
    /\ need \in [Threads -> Sizes \cup {0}] /\ left \in [Threads -> 0..Calls]

\* The mutex has no owner and is released by whoever says so, and other threads get to
\* a new page before the one that makes it has its mutex; still no two threads
\* allocate, collect or defragment on the same page at a time ("assumes having
\* acquired the lock for the page", gc-internal.h:376).
PagesAreExclusive ==
    \A t, u \in Threads : pc[t] \in Using /\ pc[u] \in Using /\ at[t] = at[u] => t = u

\* No lock is left behind, by whatever exception a call ends: who finds one taken waits
\* for a thread that is at work under it (the scopes of gc.cpp:81, 122, 806, 865, 869).
NoLockIsLeft == Defined =>
    /\ \A p \in Listed \cap locked : \E t \in Threads : pc[t] \in Using /\ at[t] = p
    /\ pageAllocationLock => \E t \in Threads : pc[t] \in InNewPage
    /\ pagesLock => \E t \in Threads : pc[t] \in Making \cup {"emplace"}
    /\ largeObjectsLock => \E t \in Threads : pc[t] \in {"large", "largeCollecting"}

BeingMade == {at[t] : t \in {u \in Threads : pc[u] \in Making}}

\* A page that has been made has memory and stays in the list, whatever other pages
\* are made and given up, and although pop_back does not say which (gc.cpp:872-877):
\* walking without pagesLock is safe on it.
MadePagesStay ==
    [][\A p \in Listed \ BeingMade : p \in memory /\ p \in Listed' /\ p \in memory']_vars

\* The page a thread has made for its request has room for it: "should get a
\* std::bad_alloc before getting here" (gc.cpp:824).  The code does not ensure it.
NewPageServes == \A t \in Threads : pc[t] = "new" => Fits(t)

\* Thread t waits for a collector id, and there will be none.
WaitsForId(t) == pc[t] \in {"collect", "large"} /\ gcCount = MaxIds

\* Every call of Allocate and Collect comes to an end, with a place or with an
\* exception, however the other threads' calls and pages get in the way, unless the
\* ids run out under somebody (gc.cpp:156, 416) or the code runs into the undefined.
CallsEnd ==
    \A t \in Threads :
       pc[t] # "idle" ~> pc[t] = "idle" \/ ~Defined \/ \E u \in Threads : WaitsForId(u)

===============================================================================
