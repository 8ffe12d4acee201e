---------------------------- MODULE PageListProofs ----------------------------
(***************************************************************************)
(* Proofs about PageList for every set of threads, every number of pages   *)
(* and ids and every sequence of calls, also for threads that walk onto a  *)
(* page while it is being made.                                            *)
(***************************************************************************)
EXTENDS PageList, SequenceTheorems, TLAPS

\* What a thread on a page runs into when the page was given up, has no memory or
\* was filled by somebody else.
Lost(t) == pc[t] \in Walking /\ Undefine(t)

\* A step of thread t.
Acts(t) == Call(t) \/ Proceed(t) \/ Lost(t)

\* A thread that works on a page, or goes on from it, has one.
Places == \A t \in Threads : pc[t] \in Using \cup Making \cup {"next"} => at[t] \in Pages

\* What is dead or waits to be registered has been allocated.
Accounts ==
    /\ \A p \in Pages : dead[p] <= used[p]
    /\ \A t \in Threads : pc[t] = "register" => dead[at[t]] + need[t] <= used[at[t]]

\* A thread that uses a page has set its mutex.
MutexTaken == \A t \in Threads : pc[t] \in Using => at[t] \in locked

\* One thread at a time is in NewPage; it has pagesLock when it changes the list.
ListLocks ==
    /\ \A t \in Threads : pc[t] \in InNewPage => pageAllocationLock
    /\ \A t \in Threads : pc[t] \in Making \cup {"emplace"} => pagesLock
    /\ \A t, u \in Threads : pc[t] \in InNewPage /\ pc[u] \in InNewPage => t = u

\* The list names a page once.  The page that is being made is its last, and the
\* only one that may be without memory.
ListWhole ==
    /\ \A i, j \in 1..Len(pages) : pages[i] = pages[j] => i = j
    /\ \A t \in Threads : pc[t] \in Making => Len(pages) > 0 /\ at[t] = pages[Len(pages)]
    /\ \A p \in Listed : p \in memory \/ \E t \in Threads : pc[t] = "init" /\ at[t] = p

IInv ==
    /\ TypeOK /\ Places /\ Accounts /\ MutexTaken /\ PagesAreExclusive /\ ListLocks
    /\ ListWhole /\ NoLockIsLeft

-------------------------------------------------------------------------------
(* The list *)

LEMMA ListedPages ==
    ASSUME TypeOK
    PROVE  /\ Len(pages) \in Nat /\ DOMAIN pages = 1..Len(pages)
           /\ Listed \subseteq Pages
           /\ \A p : p \in Listed <=> \E i \in 1..Len(pages) : p = pages[i]
  BY DEF TypeOK, Listed

\* An iterator is moved to a page of the list or to its end.
LEMMA IteratorsStayInList ==
    ASSUME TypeOK
    PROVE  /\ Begin \in Listed \cup {End}
           /\ \A p : Following(p) \in Listed \cup {End}
<1>1. Begin \in Listed \cup {End}
  <2>1. CASE pages = <<>>
    BY <2>1 DEF Begin
  <2>2. CASE pages # <<>>
    <3>1. Len(pages) > 0 /\ Head(pages) = pages[1]
      BY <2>2 DEF TypeOK
    <3> QED
      BY <2>2, <3>1, ListedPages DEF Begin
  <2> QED
    BY <2>1, <2>2
<1>2. ASSUME NEW p PROVE Following(p) \in Listed \cup {End}
  <2> DEFINE after == {i \in DOMAIN pages : i > 1 /\ pages[i - 1] = p}
  <2>1. CASE after = {}
    BY <2>1 DEF Following
  <2>2. CASE after # {}
    <3>1. (CHOOSE i \in after : TRUE) \in after
      BY <2>2
    <3>2. pages[CHOOSE i \in after : TRUE] \in Listed
      BY <3>1 DEF Listed
    <3> QED
      BY <2>2, <3>2 DEF Following
  <2> QED
    BY <2>1, <2>2
<1> QED
  BY <1>1, <1>2

\* emplace_back
LEMMA AppendListed ==
    ASSUME TypeOK, NEW p \in Pages, pages' = Append(pages, p)
    PROVE  /\ pages' \in Seq(Pages) /\ Len(pages') = Len(pages) + 1
           /\ Listed' = Listed \cup {p}
           /\ pages'[Len(pages')] = p
           /\ \A i \in 1..Len(pages) : pages'[i] = pages[i]
<1>1. /\ pages' \in Seq(Pages) /\ Len(pages') = Len(pages) + 1
      /\ pages'[Len(pages) + 1] = p
      /\ \A i \in 1..Len(pages) : pages'[i] = pages[i]
  BY AppendProperties DEF TypeOK
<1>2. Len(pages) \in Nat /\ DOMAIN pages' = 1..(Len(pages) + 1)
  BY <1>1 DEF TypeOK
<1>3. ASSUME NEW q PROVE q \in Listed' <=> q \in Listed \cup {p}
  BY <1>1, <1>2, ListedPages DEF Listed
<1> QED
  BY <1>1, <1>3

\* pop_back
LEMMA PopListed ==
    ASSUME TypeOK, ListWhole, Len(pages) > 0,
           pages' = SubSeq(pages, 1, Len(pages) - 1)
    PROVE  /\ pages' \in Seq(Pages) /\ Len(pages') = Len(pages) - 1
           /\ Listed' = Listed \ {pages[Len(pages)]}
           /\ \A i \in 1..Len(pages') : pages'[i] = pages[i]
<1> DEFINE n == Len(pages)
<1>1. n \in Nat /\ n > 0 /\ DOMAIN pages = 1..n
  BY ListedPages
<1>2. /\ pages' \in Seq(Pages) /\ Len(pages') = n - 1
      /\ \A i \in 1..(n - 1) : pages'[i] = pages[i]
  BY <1>1, SubSeqProperties DEF TypeOK
<1>3. DOMAIN pages' = 1..(n - 1)
  BY <1>1, <1>2
<1>4. ASSUME NEW q PROVE q \in Listed' <=> q \in Listed /\ q # pages[n]
  <2>1. q \in Listed' <=> \E i \in 1..(n - 1) : q = pages[i]
    BY <1>2, <1>3 DEF Listed
  <2>2. q \in Listed <=> \E i \in 1..n : q = pages[i]
    BY ListedPages
  <2>3. \A i \in 1..(n - 1) : pages[i] # pages[n]
    BY <1>1 DEF ListWhole
  <2> QED
    BY <1>1, <2>1, <2>2, <2>3
<1> QED
  BY <1>2, <1>4

-------------------------------------------------------------------------------
(* Steps in general *)

LEMMA Steps ==
    Next => /\ Defined
            /\ \/ \E t \in Threads : Acts(t)
               \/ \E p \in Pages : Drop(p)
  BY DEF Next, Step, Acts, Dangling, Unfounded, Lost, Walking, Using

\* The step of a thread is one of these.
LEMMA StepCases ==
    ASSUME NEW t \in Threads, Acts(t)
    PROVE  \/ Call(t) \/ Acquire(t) \/ Skip(t) \/ Advance(t) \/ Finish(t)
           \/ TryAllocate(t) \/ TryInVain(t) \/ TakeId(t) \/ CollectOnPage(t)
           \/ DefragmentOnPage(t) \/ Leave(t) \/ Register(t) \/ Throw(t)
           \/ LockLarge(t) \/ CollectLarge(t) \/ LockAllocation(t) \/ LockPages(t)
           \/ Emplace(t) \/ EmplaceThrows(t) \/ InitThrows(t) \/ InitPage(t) \/ Own(t)
           \/ Lost(t)
  BY DEF Acts, Proceed, Unreachable, Lost, Walking, Using

\* A step of one thread leaves the others where they are.
LEMMA StepIsLocal ==
    ASSUME TypeOK, NEW t \in Threads, Acts(t)
    PROVE  \A u \in Threads \ {t} : pc'[u] = pc[u] /\ at'[u] = at[u] /\ need'[u] = need[u]
<1> USE DEF TypeOK, Goto, Walk, listVars, roomVars, lockVars, callVars
<1>1. CASE Call(t) \/ Acquire(t) \/ Skip(t) \/ Advance(t) \/ Finish(t) \/ Lost(t)
  BY <1>1 DEF Call, Acquire, Skip, Advance, Finish, Lost, Undefine
<1>2. CASE TryAllocate(t) \/ TryInVain(t) \/ TakeId(t) \/ CollectOnPage(t) \/ DefragmentOnPage(t)
  BY <1>2 DEF TryAllocate, TryInVain, TakeId, CollectOnPage, DefragmentOnPage
<1>3. CASE Leave(t) \/ Register(t) \/ Throw(t) \/ LockLarge(t) \/ CollectLarge(t)
  BY <1>3 DEF Leave, Register, Throw, LockLarge, CollectLarge
<1>4. CASE LockAllocation(t) \/ LockPages(t) \/ Emplace(t) \/ EmplaceThrows(t)
  BY <1>4 DEF LockAllocation, LockPages, Emplace, EmplaceThrows
<1>5. CASE InitThrows(t) \/ InitPage(t) \/ Own(t)
  BY <1>5 DEF InitThrows, InitPage, Own
<1> QED
  BY <1>1, <1>2, <1>3, <1>4, <1>5, StepCases

\* The steps that change nothing but a thread's label, a lock, or an id.
Quiet(t) ==
    \/ Acquire(t) \/ Skip(t) \/ Finish(t) \/ TryInVain(t) \/ TakeId(t) \/ DefragmentOnPage(t)
    \/ Leave(t) \/ Throw(t) \/ LockLarge(t) \/ CollectLarge(t) \/ LockAllocation(t)
    \/ LockPages(t) \/ EmplaceThrows(t) \/ Own(t) \/ Lost(t)

LEMMA QuietSteps ==
    ASSUME TypeOK, NEW t \in Threads, Quiet(t)
    PROVE  /\ Acts(t)
           /\ UNCHANGED <<pages, memory, used, dead, at, need, left>>
           /\ pc' = [pc EXCEPT ![t] = pc'[t]]
           /\ pc'[t] \notin Making \cup {"register"}
<1> USE DEF TypeOK, Goto, listVars, roomVars, lockVars, callVars, Making
<1>1. CASE Acquire(t) \/ Skip(t) \/ Finish(t) \/ TryInVain(t) \/ TakeId(t) \/ DefragmentOnPage(t)
  BY <1>1 DEF Acquire, Skip, Finish, TryInVain, TakeId, DefragmentOnPage, Acts, Proceed
<1>2. CASE Leave(t) \/ Throw(t) \/ LockLarge(t) \/ CollectLarge(t) \/ LockAllocation(t)
  BY <1>2 DEF Leave, Throw, LockLarge, CollectLarge, LockAllocation, Acts, Proceed
<1>3. CASE LockPages(t) \/ EmplaceThrows(t) \/ Own(t) \/ Lost(t)
  BY <1>3 DEF LockPages, EmplaceThrows, Own, Lost, Undefine, Acts, Proceed
<1> QED
  BY <1>1, <1>2, <1>3 DEF Quiet

\* The step of a thread is quiet or one of these.
LEMMA StepKinds ==
    ASSUME NEW t \in Threads, Acts(t)
    PROVE  \/ Quiet(t) \/ Call(t) \/ Advance(t) \/ TryAllocate(t) \/ CollectOnPage(t)
           \/ Register(t) \/ Emplace(t) \/ InitThrows(t) \/ InitPage(t)
  BY StepCases DEF Quiet

\* The node that emplace_back makes.
LEMMA NewNode ==
    ASSUME TypeOK, NEW t \in Threads, Emplace(t)
    PROVE  \E p \in Pages :
              /\ p \notin Listed
              /\ \A u \in Threads : pc[u] \in Walking => at[u] # p
              /\ pages' = Append(pages, p) /\ memory' = memory \ {p}
              /\ locked' = locked \ {p}
              /\ used' = [used EXCEPT ![p] = 0] /\ dead' = [dead EXCEPT ![p] = 0]
              /\ at' = [at EXCEPT ![t] = p]
              /\ pc[t] = "emplace" /\ pc' = [pc EXCEPT ![t] = "init"]
              /\ UNCHANGED <<pageAllocationLock, pagesLock, largeObjectsLock, gcCount, need, left>>
<1> DEFINE p == CHOOSE p \in Pages \ Occupied : TRUE
<1>1. p \in Pages \ Occupied
  BY DEF Emplace
<1>2. p \notin Listed /\ \A u \in Threads : pc[u] \in Walking => at[u] # p
  BY <1>1 DEF Occupied
<1> QED
  BY <1>1, <1>2 DEF Emplace, Walk, Goto, lockVars, callVars

-------------------------------------------------------------------------------
(* Types *)

LEMMA NeedsFit ==
    ASSUME TypeOK, NEW t \in Threads
    PROVE  need[t] \in 0..Room
<1>1. need[t] = 0 \/ need[t] \in 1..Room
  BY PageListAssumption DEF TypeOK
<1>2. Room \in Nat
  BY PageListAssumption
<1> QED
  BY <1>1, <1>2

\* The page that a thread uses.
LEMMA UsedPage ==
    ASSUME TypeOK, Places, NEW t \in Threads, pc[t] \in Using \cup {"next"}
    PROVE  /\ at[t] \in Pages /\ used[at[t]] \in 0..Room /\ dead[at[t]] \in 0..Room
  BY DEF Places, TypeOK

\* The page that a thread makes.
LEMMA MadePage ==
    ASSUME TypeOK, ListWhole, NEW t \in Threads, pc[t] \in Making
    PROVE  /\ Len(pages) > 0 /\ at[t] = pages[Len(pages)]
           /\ at[t] \in Listed /\ at[t] \in Pages
<1>1. Len(pages) > 0 /\ at[t] = pages[Len(pages)]
  BY DEF ListWhole
<1> QED
  BY <1>1, ListedPages

LEMMA QuietTypes ==
    ASSUME TypeOK, Places, NEW t \in Threads, Quiet(t)
    PROVE  TypeOK'
<1> USE PageListAssumption
    DEF TypeOK, PCs, Using, Making, Walking, InNewPage, Goto, TryAcquire, Release, UnlockBoth,
        listVars, roomVars, lockVars, callVars
<1>1. CASE Acquire(t) \/ Skip(t) \/ Finish(t)
  BY <1>1 DEF Acquire, Skip, Finish
<1>2. CASE TryInVain(t) \/ DefragmentOnPage(t)
  BY <1>2 DEF TryInVain, DefragmentOnPage
<1>7. CASE TakeId(t)
  <2>1. MaxIds \in Nat /\ gcCount \in 0..MaxIds /\ gcCount < MaxIds /\ gcCount' = gcCount + 1
    BY <1>7 DEF TakeId
  <2>2. gcCount' \in 0..MaxIds
    BY <2>1
  <2>3. pc' \in [Threads -> PCs]
    BY <1>7 DEF TakeId
  <2> QED
    BY <1>7, <2>2, <2>3 DEF TakeId
<1>3. CASE Leave(t) \/ Throw(t)
  BY <1>3 DEF Leave, Throw
<1>4. CASE LockLarge(t) \/ CollectLarge(t) \/ LockAllocation(t)
  BY <1>4 DEF LockLarge, CollectLarge, LockAllocation
<1>5. CASE LockPages(t) \/ EmplaceThrows(t) \/ Lost(t)
  BY <1>5 DEF LockPages, EmplaceThrows, Lost, Undefine
<1>6. CASE Own(t)
  BY <1>6 DEF Own, Places
<1> QED
  BY <1>1, <1>2, <1>3, <1>4, <1>5, <1>6, <1>7 DEF Quiet

LEMMA TypeStep ==
    TypeOK /\ Places /\ Accounts /\ ListWhole /\ [Next]_vars => TypeOK'
<1> SUFFICES ASSUME TypeOK, Places, Accounts, ListWhole, [Next]_vars PROVE TypeOK'
  OBVIOUS
<1> USE PageListAssumption
    DEF TypeOK, PCs, Using, Making, Walking, InNewPage, Goto, Walk, Release, UnlockBoth,
        listVars, roomVars, lockVars, callVars
<1>1. ASSUME NEW t \in Threads, Call(t) PROVE TypeOK'
  <2>1. Begin \in Pages \cup {End}
    BY ListedPages, IteratorsStayInList
  <2> QED
    BY <1>1, <2>1 DEF Call
<1>2. ASSUME NEW t \in Threads, Advance(t) PROVE TypeOK'
  <2>1. Following(at[t]) \in Pages \cup {End}
    BY ListedPages, IteratorsStayInList
  <2> QED
    BY <1>2, <2>1 DEF Advance
<1>3. ASSUME NEW t \in Threads, TryAllocate(t) PROVE TypeOK'
  <2>1. /\ at[t] \in Pages /\ used[at[t]] \in 0..Room /\ need[t] \in 0..Room
        /\ used[at[t]] + need[t] <= Room
    BY <1>3, UsedPage, NeedsFit DEF TryAllocate, Fits
  <2>2. used' \in [Pages -> 0..Room]
    BY <1>3, <2>1 DEF TryAllocate
  <2> QED
    BY <1>3, <2>2 DEF TryAllocate
<1>4. ASSUME NEW t \in Threads, CollectOnPage(t) PROVE TypeOK'
  <2>1. at[t] \in Pages
    BY <1>4, UsedPage DEF CollectOnPage
  <2>2. PICK n \in 0..dead[at[t]] : /\ used' = [used EXCEPT ![at[t]] = @ - n]
                                    /\ dead' = [dead EXCEPT ![at[t]] = @ - n]
    BY <1>4 DEF CollectOnPage
  <2>3. n \in Nat /\ n <= dead[at[t]] /\ dead[at[t]] <= used[at[t]] /\ used[at[t]] \in 0..Room
    BY <2>1, <2>2 DEF Accounts
  <2>4. used' \in [Pages -> 0..Room] /\ dead' \in [Pages -> 0..Room]
    BY <2>1, <2>2, <2>3
  <2> QED
    BY <1>4, <2>4 DEF CollectOnPage
<1>5. ASSUME NEW t \in Threads, Register(t) PROVE TypeOK'
  <2>1. /\ at[t] \in Pages /\ used[at[t]] \in 0..Room /\ need[t] \in 0..Room
        /\ dead[at[t]] \in 0..Room /\ dead[at[t]] + need[t] <= used[at[t]]
    BY <1>5, UsedPage, NeedsFit DEF Register, Accounts
  <2>2. used[at[t]] - need[t] \in 0..Room
    BY <2>1
  <2>3. used' \in [Pages -> 0..Room]
    BY <1>5, <2>1, <2>2 DEF Register
  <2> QED
    BY <1>5, <2>3 DEF Register
<1>6. ASSUME NEW t \in Threads, Emplace(t) PROVE TypeOK'
  <2>1. PICK p \in Pages :
           /\ pages' = Append(pages, p) /\ memory' = memory \ {p} /\ locked' = locked \ {p}
           /\ used' = [used EXCEPT ![p] = 0] /\ dead' = [dead EXCEPT ![p] = 0]
           /\ at' = [at EXCEPT ![t] = p] /\ pc' = [pc EXCEPT ![t] = "init"]
           /\ UNCHANGED <<pageAllocationLock, pagesLock, largeObjectsLock, gcCount, need, left>>
    BY <1>6, NewNode
  <2>2. pages' \in Seq(Pages)
    BY <2>1, AppendListed
  <2> QED
    BY <2>1, <2>2
<1>7. ASSUME NEW t \in Threads, InitThrows(t) PROVE TypeOK'
  <2>1. pages' \in Seq(Pages)
    BY <1>7, MadePage, PopListed DEF InitThrows
  <2> QED
    BY <1>7, <2>1 DEF InitThrows
<1>8. ASSUME NEW t \in Threads, InitPage(t) PROVE TypeOK'
  <2>1. at[t] \in Pages
    BY <1>8, MadePage DEF InitPage
  <2> QED
    BY <1>8, <2>1 DEF InitPage
<1>9. ASSUME NEW p \in Pages, Drop(p) PROVE TypeOK'
  <2>1. dead[p] \in 0..Room /\ used[p] \in 0..Room /\ dead[p] < used[p]
    BY <1>9 DEF Drop
  <2>2. dead' \in [Pages -> 0..Room]
    BY <1>9, <2>1 DEF Drop
  <2> QED
    BY <1>9, <2>2 DEF Drop
<1>10. CASE UNCHANGED vars
  BY <1>10 DEF vars
<1> HIDE DEF TypeOK
<1> QED
  BY <1>1, <1>2, <1>3, <1>4, <1>5, <1>6, <1>7, <1>8, <1>9, <1>10, Steps, StepKinds, QuietTypes

-------------------------------------------------------------------------------
(* Where the threads are *)

LEMMA PlacesStep == TypeOK /\ Places /\ [Next]_vars => Places'
<1> SUFFICES ASSUME TypeOK, Places, [Next]_vars PROVE Places'
  OBVIOUS
<1> DEFINE On == Using \cup Making \cup {"next"}
<1>1. ASSUME NEW t \in Threads, Acts(t), pc'[t] \in On => at'[t] \in Pages
      PROVE  Places'
  BY <1>1, StepIsLocal DEF Places
<1>2. ASSUME NEW t \in Threads, Acquire(t) \/ Skip(t) PROVE Places'
  <2>1. at[t] \in Pages /\ at' = at
    BY <1>2, PageListAssumption DEF Acquire, Skip, TypeOK
  <2> QED
    BY <1>1, <1>2, <2>1 DEF Acts, Proceed
<1>3. ASSUME NEW t \in Threads,
             \/ Call(t) \/ Advance(t) \/ Finish(t) \/ Register(t) \/ Throw(t) \/ LockLarge(t)
             \/ CollectLarge(t)
      PROVE  Places'
  <2>1. pc'[t] \notin On
    BY <1>3 DEF Call, Advance, Finish, Register, Throw, LockLarge, CollectLarge, Goto, TypeOK,
                Using, Making
  <2> QED
    BY <1>1, <1>3, <2>1 DEF Acts, Proceed
<1>4. ASSUME NEW t \in Threads,
             \/ LockAllocation(t) \/ LockPages(t) \/ EmplaceThrows(t) \/ InitThrows(t)
             \/ Lost(t)
      PROVE  Places'
  <2>1. pc'[t] \notin On
    BY <1>4 DEF LockAllocation, LockPages, EmplaceThrows, InitThrows, Lost, Undefine, Goto, TypeOK,
                Using, Making
  <2> QED
    BY <1>1, <1>4, <2>1 DEF Acts, Proceed
<1>5. ASSUME NEW t \in Threads,
             \/ TryAllocate(t) \/ TryInVain(t) \/ CollectOnPage(t) \/ DefragmentOnPage(t)
             \/ Leave(t) \/ InitPage(t) \/ Own(t)
      PROVE  Places'
  <2>1. pc[t] \in On /\ at' = at
    BY <1>5 DEF TryAllocate, TryInVain, CollectOnPage, DefragmentOnPage, Leave, InitPage, Own,
                Using, Making
  <2> QED
    BY <1>1, <1>5, <2>1 DEF Acts, Proceed, Places
<1>6. ASSUME NEW t \in Threads, TakeId(t) PROVE Places'
  <2>1. at' = at /\ (pc'[t] \in On => pc[t] \in On)
    BY <1>6 DEF TakeId, Goto, TypeOK, Using, Making
  <2> QED
    BY <1>1, <1>6, <2>1 DEF Acts, Proceed, Places
<1>7. ASSUME NEW t \in Threads, Emplace(t) PROVE Places'
  <2>1. at'[t] \in Pages
    BY <1>7, NewNode DEF TypeOK
  <2> QED
    BY <1>1, <1>7, <2>1 DEF Acts, Proceed
<1>8. ASSUME NEW p \in Pages, Drop(p) PROVE Places'
  BY <1>8 DEF Drop, Places
<1>9. CASE UNCHANGED vars
  BY <1>9 DEF vars, Places
<1> QED
  BY <1>2, <1>3, <1>4, <1>5, <1>6, <1>7, <1>8, <1>9, Steps, StepCases

-------------------------------------------------------------------------------
(* What is allocated on a page *)

\* A step that changes neither the rooms nor what a thread asks for, and does not
\* lead to RegisterObject.
LEMMA NothingAccounted ==
    ASSUME TypeOK, Accounts, NEW t \in Threads, Acts(t),
           UNCHANGED roomVars, pc'[t] # "register"
    PROVE  Accounts'
  BY StepIsLocal DEF Accounts, roomVars

LEMMA AccountsStep ==
    TypeOK /\ Accounts /\ PagesAreExclusive /\ Places /\ [Next]_vars => Accounts'
<1> SUFFICES ASSUME TypeOK, Accounts, PagesAreExclusive, Places, [Next]_vars
             PROVE  Accounts'
  OBVIOUS
<1>1. ASSUME NEW t \in Threads, Quiet(t) PROVE Accounts'
  BY <1>1, QuietSteps, NothingAccounted DEF roomVars
<1>2. ASSUME NEW t \in Threads, Call(t) \/ Advance(t) \/ InitThrows(t) \/ InitPage(t)
      PROVE  Accounts'
  <2>1. UNCHANGED roomVars /\ pc'[t] # "register"
    BY <1>2 DEF TypeOK, Goto, Call, Advance, InitThrows, InitPage, roomVars
  <2> QED
    BY <1>2, <2>1, NothingAccounted DEF Acts, Proceed
<1>4. ASSUME NEW t \in Threads, TryAllocate(t) PROVE Accounts'
  <2>1. /\ pc[t] \in Using /\ at[t] \in Pages /\ need[t] \in 0..Room
        /\ used[at[t]] \in 0..Room /\ dead[at[t]] \in 0..Room
    BY <1>4, UsedPage, NeedsFit DEF TryAllocate, Using
  <2>2. /\ used' = [used EXCEPT ![at[t]] = @ + need[t]]
        /\ UNCHANGED <<dead, at, need>>
        /\ pc' = [pc EXCEPT ![t] = "register"]
    BY <1>4 DEF TryAllocate, Goto, callVars
  <2>3. \A p \in Pages : dead'[p] <= used'[p]
    BY <2>1, <2>2 DEF TypeOK, Accounts
  <2>4. ASSUME NEW u \in Threads, pc'[u] = "register"
        PROVE  dead'[at'[u]] + need'[u] <= used'[at'[u]]
    <3>1. CASE u = t
      BY <2>1, <2>2, <3>1 DEF TypeOK, Accounts
    <3>2. CASE u # t
      <4>1. pc[u] = "register" /\ at[u] # at[t]
        BY <2>1, <2>2, <2>4, <3>2 DEF TypeOK, PagesAreExclusive, Using
      <4>2. at[u] \in Pages
        BY <4>1, UsedPage DEF Using
      <4> QED
        BY <2>1, <2>2, <4>1, <4>2 DEF TypeOK, Accounts
    <3> QED
      BY <3>1, <3>2
  <2> QED
    BY <2>3, <2>4 DEF Accounts
<1>5. ASSUME NEW t \in Threads, CollectOnPage(t) PROVE Accounts'
  <2>1. /\ pc[t] \in Using /\ pc[t] # "register" /\ at[t] \in Pages
        /\ used[at[t]] \in 0..Room /\ dead[at[t]] \in 0..Room
    BY <1>5, UsedPage DEF CollectOnPage, Using
  <2>2. PICK n \in 0..dead[at[t]] : /\ used' = [used EXCEPT ![at[t]] = @ - n]
                                    /\ dead' = [dead EXCEPT ![at[t]] = @ - n]
    BY <1>5 DEF CollectOnPage
  <2>3. UNCHANGED <<at, need>> /\ pc'[t] # "register"
    BY <1>5 DEF CollectOnPage, Goto, callVars, TypeOK
  <2>4. \A p \in Pages : dead'[p] <= used'[p]
    BY <2>1, <2>2 DEF TypeOK, Accounts
  <2>5. ASSUME NEW u \in Threads, pc'[u] = "register"
        PROVE  dead'[at'[u]] + need'[u] <= used'[at'[u]]
    <3>1. u # t /\ pc[u] = "register"
      BY <1>5, <2>3, <2>5, StepIsLocal DEF Acts, Proceed
    <3>2. at[u] # at[t] /\ at[u] \in Pages
      BY <2>1, <3>1, UsedPage DEF PagesAreExclusive, Using
    <3> QED
      BY <2>1, <2>2, <2>3, <3>1, <3>2 DEF TypeOK, Accounts
  <2> QED
    BY <2>4, <2>5 DEF Accounts
<1>6. ASSUME NEW t \in Threads, Register(t) PROVE Accounts'
  <2>1. /\ pc[t] = "register" /\ pc[t] \in Using /\ at[t] \in Pages /\ need[t] \in 0..Room
        /\ used[at[t]] \in 0..Room /\ dead[at[t]] \in 0..Room
        /\ dead[at[t]] + need[t] <= used[at[t]]
    BY <1>6, UsedPage, NeedsFit DEF Register, Using, Accounts
  <2>2. /\ used' \in {used, [used EXCEPT ![at[t]] = @ - need[t]]}
        /\ UNCHANGED <<dead, at, need>> /\ pc'[t] # "register"
    BY <1>6 DEF Register, Goto, callVars, TypeOK
  <2>3. \A p \in Pages : dead'[p] <= used'[p] /\ (p # at[t] => used'[p] = used[p])
    BY <2>1, <2>2 DEF TypeOK, Accounts
  <2>4. ASSUME NEW u \in Threads, pc'[u] = "register"
        PROVE  dead'[at'[u]] + need'[u] <= used'[at'[u]]
    <3>1. u # t /\ pc[u] = "register"
      BY <1>6, <2>2, <2>4, StepIsLocal DEF Acts, Proceed
    <3>2. at[u] # at[t] /\ at[u] \in Pages
      BY <2>1, <3>1, UsedPage DEF PagesAreExclusive, Using
    <3> QED
      BY <2>2, <2>3, <3>1, <3>2 DEF Accounts
  <2> QED
    BY <2>3, <2>4 DEF Accounts
<1>7. ASSUME NEW t \in Threads, Emplace(t) PROVE Accounts'
  <2>1. PICK p \in Pages :
           /\ \A u \in Threads : pc[u] \in Walking => at[u] # p
           /\ used' = [used EXCEPT ![p] = 0] /\ dead' = [dead EXCEPT ![p] = 0]
           /\ need' = need /\ pc' = [pc EXCEPT ![t] = "init"]
    BY <1>7, NewNode
  <2>2. \A q \in Pages : dead'[q] <= used'[q] /\ (q # p => used'[q] = used[q] /\ dead'[q] = dead[q])
    BY <2>1 DEF TypeOK, Accounts
  <2>3. ASSUME NEW u \in Threads, pc'[u] = "register"
        PROVE  dead'[at'[u]] + need'[u] <= used'[at'[u]]
    <3>1. u # t /\ pc[u] = "register"
      BY <2>1, <2>3 DEF TypeOK
    <3>2. at'[u] = at[u] /\ at[u] # p /\ at[u] \in Pages
      BY <1>7, <2>1, <3>1, UsedPage, StepIsLocal DEF Acts, Proceed, Walking, Using
    <3> QED
      BY <2>1, <2>2, <3>1, <3>2 DEF Accounts
  <2> QED
    BY <2>2, <2>3 DEF Accounts
<1>8. ASSUME NEW p \in Pages, Drop(p) PROVE Accounts'
  <2>1. /\ dead[p] \in 0..Room /\ used[p] \in 0..Room /\ dead[p] < used[p]
        /\ dead' = [dead EXCEPT ![p] = @ + 1] /\ UNCHANGED <<used, pc, at, need>>
        /\ \A t \in Threads : pc[t] = "register" /\ at[t] = p => dead[p] + need[t] < used[p]
    BY <1>8 DEF Drop, TypeOK, callVars
  <2>2. \A q \in Pages : dead'[q] <= used'[q]
    BY <2>1 DEF TypeOK, Accounts
  <2>3. ASSUME NEW u \in Threads, pc[u] = "register"
        PROVE  dead'[at[u]] + need[u] <= used[at[u]]
    <3>1. /\ at[u] \in Pages /\ need[u] \in 0..Room
          /\ dead[at[u]] + need[u] <= used[at[u]]
      BY <2>3, UsedPage, NeedsFit DEF Using, Accounts
    <3>2. CASE at[u] = p
      BY <2>1, <2>3, <3>1, <3>2 DEF TypeOK
    <3>3. CASE at[u] # p
      BY <2>1, <3>1, <3>3 DEF TypeOK
    <3> QED
      BY <3>2, <3>3
  <2> QED
    BY <2>1, <2>2, <2>3 DEF Accounts
<1>9. CASE UNCHANGED vars
  BY <1>9 DEF vars, Accounts
<1> QED
  BY <1>1, <1>2, <1>4, <1>5, <1>6, <1>7, <1>8, <1>9, Steps, StepKinds

-------------------------------------------------------------------------------
(* The mutex of a page *)

Exclusive == MutexTaken /\ PagesAreExclusive

\* A step that frees no page that is used, and does not lead to using one.
LEMMA NoNewUser ==
    ASSUME TypeOK, Exclusive, NEW t \in Threads, Acts(t),
           pc'[t] \notin Using,
           \A u \in Threads \ {t} : pc[u] \in Using /\ at[u] \in locked => at[u] \in locked'
    PROVE  Exclusive'
  BY StepIsLocal DEF Exclusive, MutexTaken, PagesAreExclusive

LEMMA ExclusiveStep ==
    TypeOK /\ Exclusive /\ [Next]_vars => Exclusive'
<1> SUFFICES ASSUME TypeOK, Exclusive, [Next]_vars PROVE Exclusive'
  OBVIOUS
<1>1. ASSUME NEW t \in Threads, Acquire(t) \/ Own(t) PROVE Exclusive'
  <2>1. at[t] \notin locked /\ locked' = locked \cup {at[t]} /\ at' = at
    BY <1>1 DEF Acquire, Own, TryAcquire
  <2> QED
    BY <1>1, <2>1, StepIsLocal DEF Acts, Proceed, Exclusive, MutexTaken, PagesAreExclusive
<1>2. ASSUME NEW t \in Threads,
             \/ TryAllocate(t) \/ TryInVain(t) \/ TakeId(t) \/ CollectOnPage(t)
             \/ DefragmentOnPage(t)
      PROVE  Exclusive'
  <2>1. (pc'[t] \in Using => pc[t] \in Using) /\ UNCHANGED <<locked, at>>
    BY <1>2 DEF TryAllocate, TryInVain, TakeId, CollectOnPage, DefragmentOnPage, Using, Goto,
                TypeOK
  <2> QED
    BY <1>2, <2>1, StepIsLocal DEF Acts, Proceed, Exclusive, MutexTaken, PagesAreExclusive
<1>3. ASSUME NEW t \in Threads, Leave(t) \/ Register(t) \/ Throw(t) PROVE Exclusive'
  <2>1. pc[t] \in Using /\ pc'[t] \notin Using /\ locked' = locked \ {at[t]}
    BY <1>3 DEF Leave, Register, Throw, Throwing, Release, Using, Goto, TypeOK
  <2>2. \A u \in Threads \ {t} : pc[u] \in Using /\ at[u] \in locked => at[u] \in locked'
    BY <2>1 DEF Exclusive, PagesAreExclusive
  <2> QED
    BY <1>3, <2>1, <2>2, NoNewUser DEF Acts, Proceed
<1>4. ASSUME NEW t \in Threads, Emplace(t) PROVE Exclusive'
  <2>1. PICK p \in Pages :
           /\ \A u \in Threads : pc[u] \in Walking => at[u] # p
           /\ locked' = locked \ {p} /\ pc' = [pc EXCEPT ![t] = "init"]
    BY <1>4, NewNode
  <2>2. \A u \in Threads \ {t} : pc[u] \in Using /\ at[u] \in locked => at[u] \in locked'
    BY <2>1 DEF Walking
  <2>3. pc'[t] \notin Using
    BY <2>1 DEF TypeOK, Using
  <2> QED
    BY <1>4, <2>2, <2>3, NoNewUser DEF Acts, Proceed
<1>5. ASSUME NEW t \in Threads,
             \/ Call(t) \/ Skip(t) \/ Advance(t) \/ Finish(t) \/ LockLarge(t)
             \/ CollectLarge(t) \/ Lost(t)
      PROVE  Exclusive'
  <2>1. pc'[t] \notin Using /\ UNCHANGED locked
    BY <1>5 DEF Call, Skip, Advance, Finish, LockLarge, CollectLarge, Lost, Undefine, Using, Goto,
                TypeOK
  <2> QED
    BY <1>5, <2>1, NoNewUser DEF Acts, Proceed
<1>6. ASSUME NEW t \in Threads,
             \/ LockAllocation(t) \/ LockPages(t) \/ EmplaceThrows(t)
             \/ InitThrows(t) \/ InitPage(t)
      PROVE  Exclusive'
  <2>1. pc'[t] \notin Using /\ UNCHANGED locked
    BY <1>6 DEF LockAllocation, LockPages, EmplaceThrows, InitThrows, InitPage,
                Using, Goto, TypeOK
  <2> QED
    BY <1>6, <2>1, NoNewUser DEF Acts, Proceed
<1>7. ASSUME NEW p \in Pages, Drop(p) PROVE Exclusive'
  BY <1>7 DEF Drop, Exclusive, MutexTaken, PagesAreExclusive
<1>8. CASE UNCHANGED vars
  BY <1>8 DEF vars, Exclusive, MutexTaken, PagesAreExclusive
<1> QED
  BY <1>1, <1>2, <1>3, <1>4, <1>5, <1>6, <1>7, <1>8, Steps, StepCases

-------------------------------------------------------------------------------
(* The locks of the list *)

LEMMA ListLocksStep == TypeOK /\ ListLocks /\ [Next]_vars => ListLocks'
<1> SUFFICES ASSUME TypeOK, ListLocks, [Next]_vars PROVE ListLocks'
  OBVIOUS
<1> USE DEF ListLocks, InNewPage, Making
<1>1. ASSUME NEW t \in Threads, LockAllocation(t) PROVE ListLocks'
  <2>1. /\ ~pageAllocationLock /\ pageAllocationLock' /\ pagesLock' = pagesLock
        /\ pc'[t] = "pages"
    BY <1>1 DEF LockAllocation, Goto, TypeOK
  <2> QED
    BY <1>1, <2>1, StepIsLocal DEF Acts, Proceed
<1>2. ASSUME NEW t \in Threads, LockPages(t) \/ Emplace(t) \/ InitPage(t) PROVE ListLocks'
  <2>1. /\ pc[t] \in InNewPage /\ pagesLock' /\ pageAllocationLock' = pageAllocationLock
    BY <1>2 DEF LockPages, Emplace, InitPage, lockVars
  <2> QED
    BY <1>2, <2>1, StepIsLocal DEF Acts, Proceed
<1>3. ASSUME NEW t \in Threads, EmplaceThrows(t) \/ InitThrows(t) \/ Own(t) PROVE ListLocks'
  <2>1. /\ pc[t] \in InNewPage /\ pc'[t] \notin InNewPage
    BY <1>3 DEF EmplaceThrows, InitThrows, Own, Goto, TypeOK
  <2> QED
    BY <1>3, <2>1, StepIsLocal DEF Acts, Proceed
<1>4. ASSUME NEW t \in Threads, UNCHANGED <<pageAllocationLock, pagesLock>>,
             pc'[t] \notin InNewPage, Acts(t)
      PROVE  ListLocks'
  BY <1>4, StepIsLocal
<1>5. ASSUME NEW t \in Threads,
             \/ Call(t) \/ Acquire(t) \/ Skip(t) \/ Advance(t) \/ Finish(t) \/ LockLarge(t)
             \/ CollectLarge(t) \/ Lost(t)
      PROVE  ListLocks'
  <2>1. UNCHANGED <<pageAllocationLock, pagesLock>> /\ pc'[t] \notin InNewPage
    BY <1>5 DEF Call, Acquire, Skip, Advance, Finish, LockLarge, CollectLarge, Lost, Undefine,
                lockVars, Goto, TypeOK
  <2> QED
    BY <1>4, <1>5, <2>1 DEF Acts, Proceed
<1>6. ASSUME NEW t \in Threads,
             \/ TryAllocate(t) \/ TryInVain(t) \/ TakeId(t) \/ CollectOnPage(t)
             \/ DefragmentOnPage(t) \/ Leave(t) \/ Register(t) \/ Throw(t)
      PROVE  ListLocks'
  <2>1. UNCHANGED <<pageAllocationLock, pagesLock>> /\ pc'[t] \notin InNewPage
    BY <1>6 DEF TryAllocate, TryInVain, TakeId, CollectOnPage, DefragmentOnPage, Leave, Register,
                Throw, lockVars, Goto, TypeOK
  <2> QED
    BY <1>4, <1>6, <2>1 DEF Acts, Proceed
<1>7. ASSUME NEW p \in Pages, Drop(p) PROVE ListLocks'
  BY <1>7 DEF Drop, lockVars
<1>8. CASE UNCHANGED vars
  BY <1>8 DEF vars
<1> QED
  BY <1>1, <1>2, <1>3, <1>5, <1>6, <1>7, <1>8, Steps, StepCases

-------------------------------------------------------------------------------
(* The pages of the list *)

LEMMA ListWholeStep ==
    TypeOK /\ ListLocks /\ ListWhole /\ [Next]_vars => ListWhole'
<1> SUFFICES ASSUME TypeOK, ListLocks, ListWhole, [Next]_vars PROVE ListWhole'
  OBVIOUS
<1>1. ASSUME NEW t \in Threads, Acts(t), UNCHANGED listVars,
             pc[t] # "init", pc'[t] \notin Making
      PROVE  ListWhole'
  <2>1. Listed' = Listed
    BY <1>1 DEF Listed, listVars
  <2> QED
    BY <1>1, <2>1, StepIsLocal DEF ListWhole, listVars, Making
<1>2. ASSUME NEW t \in Threads, Emplace(t) PROVE ListWhole'
  <2>1. PICK p \in Pages :
           /\ p \notin Listed /\ pages' = Append(pages, p) /\ memory' = memory \ {p}
           /\ pc[t] = "emplace" /\ pc'[t] = "init" /\ at'[t] = p
    BY <1>2, NewNode DEF TypeOK
  <2>2. /\ Len(pages') = Len(pages) + 1 /\ Len(pages) \in Nat
        /\ pages'[Len(pages')] = p /\ Listed' = Listed \cup {p}
        /\ \A i \in 1..Len(pages) : pages'[i] = pages[i] /\ pages[i] # p
    BY <2>1, AppendListed, ListedPages
  <2>3. \A i, j \in 1..Len(pages') : pages'[i] = pages'[j] => i = j
    BY <2>2 DEF ListWhole
  <2>4. ASSUME NEW u \in Threads, pc'[u] \in Making
        PROVE  Len(pages') > 0 /\ at'[u] = pages'[Len(pages')]
    <3>1. u = t
      BY <1>2, <2>1, <2>4, StepIsLocal DEF Acts, Proceed, ListLocks, InNewPage
    <3> QED
      BY <2>1, <2>2, <3>1
  <2>5. ASSUME NEW q \in Listed'
        PROVE  q \in memory' \/ \E u \in Threads : pc'[u] = "init" /\ at'[u] = q
    <3>1. CASE q = p
      BY <2>1, <3>1
    <3>2. CASE q # p
      <4>1. q \in memory \/ \E u \in Threads : pc[u] = "init" /\ at[u] = q
        BY <2>2, <2>5, <3>2 DEF ListWhole
      <4>2. \A u \in Threads : pc[u] # "init"
        BY <2>1 DEF ListLocks, InNewPage, Making
      <4> QED
        BY <2>1, <3>2, <4>1, <4>2
    <3> QED
      BY <3>1, <3>2
  <2> QED
    BY <2>3, <2>4, <2>5 DEF ListWhole
<1>3. ASSUME NEW t \in Threads, InitThrows(t) PROVE ListWhole'
  <2>1. /\ pc[t] \in Making /\ pc'[t] = "idle" /\ memory' = memory /\ at' = at
        /\ pages' = SubSeq(pages, 1, Len(pages) - 1)
        /\ Len(pages) > 0 /\ at[t] = pages[Len(pages)]
    BY <1>3, MadePage DEF InitThrows, Goto, TypeOK
  <2>2. /\ Len(pages') = Len(pages) - 1 /\ Len(pages) \in Nat
        /\ Listed' = Listed \ {at[t]}
        /\ \A i \in 1..Len(pages') : pages'[i] = pages[i]
    BY <2>1, PopListed, ListedPages
  <2>3. \A i, j \in 1..Len(pages') : pages'[i] = pages'[j] => i = j
    BY <2>2 DEF ListWhole
  <2>4. \A u \in Threads : pc'[u] \notin Making
    BY <1>3, <2>1, StepIsLocal DEF Acts, Proceed, ListLocks, InNewPage, Making
  <2>5. Listed' \subseteq memory'
    BY <2>1, <2>2 DEF ListWhole, ListLocks, InNewPage, Making
  <2> QED
    BY <2>3, <2>4, <2>5 DEF ListWhole
<1>4. ASSUME NEW t \in Threads, InitPage(t) PROVE ListWhole'
  <2>1. /\ pc[t] = "init" /\ pc'[t] = "own" /\ pages' = pages /\ at' = at
        /\ memory' = memory \cup {at[t]}
    BY <1>4 DEF InitPage, Goto, TypeOK
  <2>2. Listed' = Listed
    BY <2>1 DEF Listed
  <2>3. \A u \in Threads : pc'[u] \in Making => pc[u] \in Making
    BY <1>4, <2>1, StepIsLocal DEF Acts, Proceed, Making
  <2>4. Listed \subseteq memory'
    BY <2>1 DEF ListWhole, ListLocks, InNewPage, Making
  <2> QED
    BY <2>1, <2>2, <2>3, <2>4 DEF ListWhole
<1>6. ASSUME NEW t \in Threads,
             \/ Call(t) \/ Acquire(t) \/ Skip(t) \/ Advance(t) \/ Finish(t) \/ LockLarge(t)
             \/ CollectLarge(t)
      PROVE  ListWhole'
  <2>1. UNCHANGED listVars /\ pc[t] \notin Making /\ pc'[t] \notin Making
    BY <1>6 DEF Call, Acquire, Skip, Advance, Finish, LockLarge, CollectLarge,
                Goto, TypeOK, Making
  <2> QED
    BY <1>1, <1>6, <2>1 DEF Acts, Proceed, Making
<1>7. ASSUME NEW t \in Threads,
             \/ TryAllocate(t) \/ TryInVain(t) \/ TakeId(t) \/ CollectOnPage(t)
             \/ DefragmentOnPage(t) \/ Leave(t) \/ Register(t) \/ Throw(t)
      PROVE  ListWhole'
  <2>1. UNCHANGED listVars /\ pc[t] \notin Making /\ pc'[t] \notin Making
    BY <1>7 DEF TryAllocate, TryInVain, TakeId, CollectOnPage, DefragmentOnPage, Leave, Register,
                Throw, Throwing, Goto, TypeOK, Making
  <2> QED
    BY <1>1, <1>7, <2>1 DEF Acts, Proceed, Making
<1>8. ASSUME NEW t \in Threads, LockAllocation(t) \/ LockPages(t) \/ EmplaceThrows(t) \/ Own(t)
      PROVE  ListWhole'
  <2>1. UNCHANGED listVars /\ pc[t] # "init" /\ pc'[t] \notin Making
    BY <1>8 DEF LockAllocation, LockPages, EmplaceThrows, Own, Goto, TypeOK, Making
  <2> QED
    BY <1>1, <1>8, <2>1 DEF Acts, Proceed
\* A thread that makes a page has walked to the end: it does not run into the undefined.
<1>9. ASSUME NEW t \in Threads, Lost(t) PROVE ListWhole'
  <2>1. UNCHANGED listVars /\ pc[t] # "init" /\ pc'[t] \notin Making
    BY <1>9 DEF Lost, Undefine, Goto, TypeOK, Making, Walking, Using
  <2> QED
    BY <1>1, <1>9, <2>1 DEF Acts
<1>10. ASSUME NEW p \in Pages, Drop(p) PROVE ListWhole'
  BY <1>10 DEF Drop, ListWhole, Listed, listVars
<1>11. CASE UNCHANGED vars
  BY <1>11 DEF vars, ListWhole, Listed
<1> QED
  BY <1>2, <1>3, <1>4, <1>6, <1>7, <1>8, <1>9, <1>10, <1>11, Steps, StepCases

-------------------------------------------------------------------------------
(* Somebody is at work under every lock *)

Held ==
    /\ \A p \in Listed \cap locked : \E t \in Threads : pc[t] \in Using /\ at[t] = p
    /\ pageAllocationLock => \E t \in Threads : pc[t] \in InNewPage
    /\ pagesLock => \E t \in Threads : pc[t] \in Making \cup {"emplace"}
    /\ largeObjectsLock => \E t \in Threads : pc[t] \in {"large", "largeCollecting"}

\* What holds a lock holds it until it releases it; who acquires it holds it.
LEMMA HeldOn ==
    ASSUME TypeOK, Held, NEW t \in Threads, Acts(t),
           \A p \in Listed' \cap locked' :
              \/ pc'[t] \in Using /\ at'[t] = p
              \/ p \in Listed \cap locked /\ ~(pc[t] \in Using /\ at[t] = p),
           pageAllocationLock' =>
              pc'[t] \in InNewPage \/ (pageAllocationLock /\ pc[t] \notin InNewPage),
           pagesLock' =>
              \/ pc'[t] \in Making \cup {"emplace"}
              \/ pagesLock /\ pc[t] \notin Making \cup {"emplace"},
           largeObjectsLock' =>
              \/ pc'[t] \in {"large", "largeCollecting"}
              \/ largeObjectsLock /\ pc[t] \notin {"large", "largeCollecting"}
    PROVE  Held'
<1>1. \A p \in Listed' \cap locked' : \E u \in Threads : pc'[u] \in Using /\ at'[u] = p
  <2> SUFFICES ASSUME NEW p \in Listed' \cap locked', ~(pc'[t] \in Using /\ at'[t] = p)
               PROVE  \E u \in Threads : pc'[u] \in Using /\ at'[u] = p
    OBVIOUS
  <2>1. PICK u \in Threads : pc[u] \in Using /\ at[u] = p
    BY DEF Held
  <2>2. u # t
    BY <2>1
  <2> QED
    BY <2>1, <2>2, StepIsLocal
<1>2. pageAllocationLock' => \E u \in Threads : pc'[u] \in InNewPage
  BY StepIsLocal DEF Held
<1>3. pagesLock' => \E u \in Threads : pc'[u] \in Making \cup {"emplace"}
  BY StepIsLocal DEF Held
<1>4. largeObjectsLock' => \E u \in Threads : pc'[u] \in {"large", "largeCollecting"}
  BY StepIsLocal DEF Held
<1> QED
  BY <1>1, <1>2, <1>3, <1>4 DEF Held

LEMMA HeldStep ==
    TypeOK /\ ListWhole /\ NoLockIsLeft /\ [Next]_vars => NoLockIsLeft'
<1> SUFFICES ASSUME TypeOK, ListWhole, NoLockIsLeft, [Next]_vars, Defined' PROVE Held'
  BY DEF NoLockIsLeft, Held
<1>1. ASSUME pages' = pages PROVE Listed' = Listed
  BY <1>1 DEF Listed
<1>2. CASE UNCHANGED vars
  <2>1. Defined
    BY <1>2 DEF vars, Defined
  <2> QED
    BY <1>2, <2>1 DEF vars, Listed, NoLockIsLeft, Held
<1>3. ASSUME NEW p \in Pages, Drop(p), Defined PROVE Held'
  BY <1>3 DEF Drop, listVars, lockVars, Listed, NoLockIsLeft, Held
<1>4. ASSUME NEW t \in Threads, Acts(t), Defined PROVE Held'
  <2> USE <1>4
  <2>1. Held
    BY DEF NoLockIsLeft, Held
  <2>2. ~Lost(t)
    BY DEF Lost, Undefine, Goto, TypeOK, Defined
  <2> USE DEF Using, Making, InNewPage
  <2>3. CASE Acquire(t)
    <3>1. /\ pages' = pages /\ UNCHANGED lockVars /\ at' = at
          /\ pc[t] = "scan" /\ pc'[t] \in Using /\ locked' = locked \cup {at[t]}
      BY <2>3 DEF Acquire, TryAcquire, listVars, Goto, TypeOK
    <3> QED
      BY <1>1, <2>1, <3>1, HeldOn DEF lockVars
  <2>4. CASE Call(t) \/ Skip(t) \/ Advance(t) \/ Finish(t)
    <3>1. /\ pages' = pages /\ UNCHANGED lockVars /\ locked' = locked
          /\ pc[t] \in {"idle", "scan", "next"}
      BY <2>4 DEF Call, Skip, Advance, Finish, listVars, Goto, TypeOK
    <3> QED
      BY <1>1, <2>1, <3>1, HeldOn DEF lockVars
  <2>5. CASE TryAllocate(t) \/ TryInVain(t) \/ CollectOnPage(t) \/ DefragmentOnPage(t)
    <3>1. /\ pages' = pages /\ UNCHANGED lockVars /\ locked' = locked /\ at' = at
          /\ pc[t] \in Using /\ pc'[t] \in Using
      BY <2>5 DEF TryAllocate, TryInVain, CollectOnPage, DefragmentOnPage, listVars, Goto, TypeOK
    <3> QED
      BY <1>1, <2>1, <3>1, HeldOn DEF lockVars
  <2>6. CASE TakeId(t)
    <3>1. /\ pages' = pages /\ UNCHANGED lockVars /\ locked' = locked /\ at' = at
          /\ \/ pc[t] = "collect" /\ pc'[t] = "collecting"
             \/ pc[t] = "large" /\ pc'[t] = "largeCollecting"
      BY <2>6 DEF TakeId, listVars, Goto, TypeOK
    <3> QED
      BY <1>1, <2>1, <3>1, HeldOn DEF lockVars
  <2>7. CASE Leave(t) \/ Register(t) \/ Throw(t)
    <3>1. /\ pages' = pages /\ UNCHANGED lockVars
          /\ pc[t] \in Using /\ locked' = locked \ {at[t]}
      BY <2>7 DEF Leave, Register, Throw, Throwing, Release, listVars, Goto, TypeOK
    <3> QED
      BY <1>1, <2>1, <3>1, HeldOn DEF lockVars
  <2>8. CASE LockLarge(t) \/ CollectLarge(t)
    <3>1. /\ pages' = pages /\ UNCHANGED <<locked, pageAllocationLock, pagesLock>>
          /\ \/ pc[t] = "scan" /\ pc'[t] = "large"
             \/ pc[t] = "largeCollecting" /\ ~largeObjectsLock'
      BY <2>8 DEF LockLarge, CollectLarge, listVars, Goto, TypeOK
    <3> QED
      BY <1>1, <2>1, <3>1, HeldOn
  <2>9. CASE LockAllocation(t) \/ LockPages(t)
    <3>1. /\ pages' = pages /\ UNCHANGED <<locked, largeObjectsLock>>
          /\ \/ pc[t] = "allocation" /\ pc'[t] = "pages" /\ pagesLock' = pagesLock
             \/ /\ pc[t] = "pages" /\ pc'[t] = "emplace"
                /\ pageAllocationLock' = pageAllocationLock
      BY <2>9 DEF LockAllocation, LockPages, listVars, Goto, TypeOK
    <3> QED
      BY <1>1, <2>1, <3>1, HeldOn
  <2>10. CASE Emplace(t)
    <3>1. PICK p \in Pages :
             /\ pages' = Append(pages, p) /\ locked' = locked \ {p} /\ UNCHANGED lockVars
             /\ pc[t] = "emplace" /\ pc' = [pc EXCEPT ![t] = "init"]
      BY <2>10, NewNode DEF lockVars
    <3>2. Listed' = Listed \cup {p}
      BY <3>1, AppendListed
    <3>3. pc'[t] = "init"
      BY <3>1 DEF TypeOK
    <3> QED
      BY <2>1, <3>1, <3>2, <3>3, HeldOn DEF lockVars
  <2>11. CASE EmplaceThrows(t) \/ InitThrows(t)
    <3>1. /\ pages' \in {pages, SubSeq(pages, 1, Len(pages) - 1)}
          /\ (pages' # pages => pc[t] \in Making)
          /\ UNCHANGED <<locked, largeObjectsLock>> /\ ~pageAllocationLock' /\ ~pagesLock'
          /\ pc[t] \in {"emplace", "init", "own"}
      BY <2>11 DEF EmplaceThrows, InitThrows, UnlockBoth, listVars
    <3>2. Listed' \subseteq Listed
      BY <1>1, <3>1, MadePage, PopListed
    <3> QED
      BY <2>1, <3>1, <3>2, HeldOn
  <2>12. CASE InitPage(t)
    <3>1. /\ pages' = pages /\ UNCHANGED lockVars /\ locked' = locked
          /\ pc[t] = "init" /\ pc'[t] = "own"
      BY <2>12 DEF InitPage, Goto, TypeOK
    <3> QED
      BY <1>1, <2>1, <3>1, HeldOn DEF lockVars
  <2>13. CASE Own(t)
    <3>1. /\ pages' = pages /\ UNCHANGED largeObjectsLock /\ at' = at
          /\ ~pageAllocationLock' /\ ~pagesLock'
          /\ pc[t] = "own" /\ pc'[t] = "new" /\ locked' = locked \cup {at[t]}
      BY <2>13 DEF Own, TryAcquire, UnlockBoth, listVars, Goto, TypeOK
    <3> QED
      BY <1>1, <2>1, <3>1, HeldOn
  <2> QED
    BY <2>2, <2>3, <2>4, <2>5, <2>6, <2>7, <2>8, <2>9, <2>10, <2>11, <2>12, <2>13, StepCases
<1> QED
  BY <1>2, <1>3, <1>4, Steps

-------------------------------------------------------------------------------
(* The invariant, and what it is for *)

LEMMA InitOK == Init => IInv
<1> SUFFICES ASSUME Init PROVE IInv
  OBVIOUS
<1>1. TypeOK
  <2>1. 0 \in 0..Room /\ Calls \in 0..Calls /\ 0 \in 0..MaxIds
    BY PageListAssumption
  <2>2. pages \in Seq(Pages)
    BY DEF Init
  <2> QED
    BY <2>1, <2>2 DEF Init, TypeOK, PCs
<1>2. Places /\ Accounts /\ MutexTaken /\ PagesAreExclusive /\ ListLocks
  BY DEF Init, Places, Accounts, MutexTaken, PagesAreExclusive, ListLocks,
         Using, Making, InNewPage
<1>3. ListWhole /\ NoLockIsLeft
  BY DEF Init, ListWhole, Listed, Making, NoLockIsLeft
<1> QED
  BY <1>1, <1>2, <1>3 DEF IInv

LEMMA Invariance == Spec => []IInv
<1>1. Init => IInv
  BY InitOK
<1>2. IInv /\ [Next]_vars => IInv'
  <2> SUFFICES ASSUME IInv, [Next]_vars PROVE IInv'
    OBVIOUS
  <2>1. TypeOK' /\ Places' /\ Accounts'
    BY TypeStep, PlacesStep, AccountsStep DEF IInv
  <2>2. MutexTaken' /\ PagesAreExclusive' /\ ListLocks'
    BY ExclusiveStep, ListLocksStep DEF IInv, Exclusive
  <2>3. ListWhole' /\ NoLockIsLeft'
    BY ListWholeStep, HeldStep DEF IInv
  <2> QED
    BY <2>1, <2>2, <2>3 DEF IInv
<1> QED
  BY <1>1, <1>2, PTL DEF Spec

\* No two threads work on one page at a time, though its mutex has no owner, a new
\* page's mutex is free when the page enters the list (gc.cpp:871-877), and threads
\* that walk the list get there first.
THEOREM OneThreadPerPage == Spec => []PagesAreExclusive
<1>1. IInv => PagesAreExclusive
  BY DEF IInv
<1> QED
  BY <1>1, Invariance, PTL

\* No exception, wherever it is thrown, leaves a page's mutex or a lock of the list
\* to nobody (gc.cpp:81, 122, 806, 865-879).
THEOREM LocksAreReleased == Spec => []NoLockIsLeft
<1>1. IInv => NoLockIsLeft
  BY DEF IInv
<1> QED
  BY <1>1, Invariance, PTL

\* The pages of the list but the one that is being made.
LEMMA ListStep ==
    ASSUME IInv, [Next]_vars, NEW p \in Listed \ BeingMade
    PROVE  p \in memory /\ p \in Listed' /\ p \in memory'
<1>1. TypeOK /\ ListWhole /\ ListLocks
  BY DEF IInv
<1>2. p \in memory
  BY <1>1 DEF ListWhole, BeingMade, Making
<1>3. ASSUME UNCHANGED listVars PROVE p \in Listed' /\ p \in memory'
  BY <1>2, <1>3 DEF listVars, Listed
<1>4. ASSUME NEW t \in Threads, Emplace(t) PROVE p \in Listed' /\ p \in memory'
  <2>1. PICK q \in Pages :
           q \notin Listed /\ pages' = Append(pages, q) /\ memory' = memory \ {q}
    BY <1>1, <1>4, NewNode
  <2> QED
    BY <1>1, <1>2, <2>1, AppendListed
<1>5. ASSUME NEW t \in Threads, InitThrows(t) PROVE p \in Listed' /\ p \in memory'
  <2>1. /\ pc[t] \in Making /\ pages' = SubSeq(pages, 1, Len(pages) - 1)
        /\ memory' = memory
    BY <1>5 DEF InitThrows
  <2>2. Listed' = Listed \ {at[t]}
    BY <1>1, <2>1, MadePage, PopListed
  <2> QED
    BY <1>2, <2>1, <2>2 DEF BeingMade
<1>6. ASSUME NEW t \in Threads, InitPage(t) PROVE p \in Listed' /\ p \in memory'
  BY <1>2, <1>6 DEF InitPage, Listed
<1>7. ASSUME NEW t \in Threads, Quiet(t) PROVE UNCHANGED listVars
  BY <1>1, <1>7, QuietSteps DEF listVars
<1>8. ASSUME NEW t \in Threads,
             Call(t) \/ Advance(t) \/ TryAllocate(t) \/ CollectOnPage(t) \/ Register(t)
      PROVE  UNCHANGED listVars
  BY <1>8 DEF Call, Advance, TryAllocate, CollectOnPage, Register
<1>9. ASSUME NEW q \in Pages, Drop(q) PROVE UNCHANGED listVars
  BY <1>9 DEF Drop
<1>10. CASE UNCHANGED vars
  BY <1>3, <1>10 DEF vars, listVars
<1> QED
  BY <1>2, <1>3, <1>4, <1>5, <1>6, <1>7, <1>8, <1>9, <1>10, Steps, StepKinds

\* A page that has been made stays in the list and keeps its memory, whichever pages
\* are made and given up by other threads (gc.cpp:871-877).
THEOREM OnlyTheNewPageGoes == Spec => MadePagesStay
<1>1. IInv /\ [Next]_vars
        => [\A p \in Listed \ BeingMade : p \in memory /\ p \in Listed' /\ p \in memory']_vars
  BY ListStep
<1> QED
  BY <1>1, Invariance, PTL DEF Spec, MadePagesStay

===============================================================================
