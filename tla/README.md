# A TLA+ model of gca

gca is a garbage collecting allocator for C++: a static library of one source file
(`src/gc.cpp`) and five headers (`src/include/gca/`). These modules describe its locks, its
handles, its collector, its pages, its table of types and its handle storage; TLC checks
them on small instances, and TLAPS proves for every value of the constants what all of them but
the collector promise, and of the collector that its root counts are exact and, for one
thread and data without cycles, that it destroys nothing the program can reach. Line
numbers below are those of `src/`.

    tlc  -config MCGCShared.cfg MCGC.tla     # a run of the list below
    tlapm RWLockProofs.tla                   # the proofs of a module

## 1. The system

| component | where | state | operations |
|---|---|---|---|
| `rw_lock`, `scoped_rw_lock` | gc-util.h:228-423 | an 8-bit word (write bit, 7-bit count of readers); per thread, a set of the locks it has written | acquire, try, upgrade, downgrade, release |
| `atomic_bit_set` | gc-util.h:85-215 | one atomic word of flags or mark bits | set, clear, test |
| `ptr_safe_container` | gc-util.h:476-647 | a list of nodes of fixed capacity, a bit per slot | hand out a slot, `RemoveAt`, `Remove` |
| object headers (`internal_handle`) | gc-internal.h:131-161 | `rootHandleCount`, `referencedBy`, `flags`, `marks`, `objectLock`, `objectAllocation` | changed by all of the following |
| handles (`root_handle`, `pin`, `field`, `dyn::*`) | gc.h, gc.cpp:1095-1223, 336-409 | which handles the program has | `internal::Copy`, `Destroy`, `SetField` |
| collector | gc.cpp:411-688 | `gcCount`, the page's mutex, the marks of a search | `CollectOnPage`, `TryFindRootFor`, `DestroyObject`, `CallDestructorForObject` |
| page | gc.cpp:27-128, 228-334, 767-801; gc-internal.h:42-107 | the allocation list, the lookup from addresses to handles, the bytes | `TryAllocate`, `RemoveAllocation`, `Allocate`, `DefragmentOnPage`, `RelocateObject` |
| page list, `mutex` | gc.cpp:59-127, 803-907; gc-util.h:425-474 | `pages`, `pagesLock`, `pageAllocationLock`, a flag per page | `Allocate`, `NewPage`, `InitPage`, `TryAllocateOnNewPage`, `gc::Collect` |
| large objects | gc.cpp:32-58, 130-226, 488-509 | a list and its lock | `CollectLargeObjectsFast` and `Slow`, `DestroyLargeObject` |
| type registry | gc.cpp:830-859 | a vector of types under `typesLock` | `GetOrRegisterType`, uses of an entry |
| life cycle | gc.cpp:17-25, 909-970, 1047-1092 | the one `gc_impl` | `Init`, `Destroy` |

How they interact: the program only sees handles. Any thread may copy and drop handles
(`Copy`, `Destroy`: atomic counters, sometimes the object's lock), pin objects (the
object's lock for as long as the pin lives), assign fields (`SetField`: the locks of the
new and the old value, one after the other) and allocate. There is no collector thread:
whoever calls `gc::Collect`, or allocates and finds a page full, collects that page while
it holds the page's mutex. Collectors of different pages run at the same time and meet at
objects that refer across pages. The collector decides about an object by its root count,
its garbage flag, and a recursive search through its referrers that takes read accesses on
the way; what it has decided is dead it upgrades to write access, unlinks from its fields,
destroys, and removes from the page.

What is hard in this code: every decision of the collector is made from several reads, at
different times, of counters and lists that the program is changing; locks are taken on
one path and released on another; the search for a root recurses through cycles with
marks; object positions are recorded in four places that relocation changes one after
another; wait loops are spin loops whose exit somebody else must cause. The list of these
places with their lines is `hazards` in `PROJECT.json`; each names the properties that
would catch it going wrong, or says why none does yet.

What makes each component correct, in a sentence: a writer is alone and readers are counted
(`rw_lock`); each change of a bit is reported to one caller (`atomic_bit_set`); elements
are constructed and destroyed once (`ptr_safe_container`); what the program can reach is
never collected, what it cannot reach is, and a collection ends (collector); list, lookup,
handles and bytes agree and nothing pinned moves (page); an index stands for one type for
good (registry).

## 2. Modules

| module | models | extends |
|---|---|---|
| `LockWord` | the values of `rw_lock`'s word and what acquiring and releasing make of it | |
| `RWLock` | every `rw_lock` operation, one step per atomic access | `LockWord` |
| `AbstractRWLock` | what a reader-writer lock promises, without a word | |
| `RWLockProofs` | the theorems about `RWLock` | `RWLock`, `TLAPS` |
| `AtomicBitSet`, `AtomicBitSetProofs` | setting and clearing bits by compare-and-swap | |
| `ObjectGraph` | the state that program and collector share | `LockWord` |
| `LargeObjects` | objects larger than a page, and the destructor of `gc_impl` | `HandleOps`, `Collector` |
| `HandleOps` | root handles and pins: `Copy`, `Destroy`, allocation | `ObjectGraph` |
| `FieldOps` | `SetField` with its locking | `HandleOps` |
| `Collector` | `CollectOnPage`, `CollectLargeObjectsSlow`, `TryFindRootFor`, `DestroyObject` | `ObjectGraph` |
| `GC` | the composition: any thread does either; the properties | `FieldOps`, `LargeObjects` |
| `GCProofs` | the theorems about `GC`: root counts; for one thread back references, survival, assertions and flags | `GC`, `TLAPS` |
| `Handles` | the classes of gc.h: every statement a program can make with them | |
| `HandleValues` | what such statements do to plain pointers: the promise `Handles` implements | |
| `HandlesProofs` | the theorems about `Handles` | `Handles`, `TLAPS` |
| `Page` | a page byte by byte | |
| `PageProofs` | the theorems about `Page` | `Page`, `TLAPS` |
| `PageList` | the list of pages, the walk along it, and making a page | |
| `PageListProofs` | the theorems about `PageList` | `PageList`, `TLAPS` |
| `TypeRegistry` | `GetOrRegisterType` and pointers to entries | `LockWord` |
| `TypeRegistryProofs` | the theorems about `TypeRegistry` | `TypeRegistry`, `TLAPS` |
| `SlotContainer` | `ptr_safe_container` | |
| `SlotContainerProofs` | the theorems about `SlotContainer` | `SlotContainer`, `TLAPS` |

`MC...` modules give the constants values; each `.cfg` is one instance. Definitions marked
"Mutant" are forms of the definition below them that a plausible slip would produce; they
are used by no specification, and each property is known to fail when one takes its
definition's place.

### From code to actions

*`RWLock`*. `word` is `m_Lock`, `rwSet` the thread-local set as seen by this lock, `held`
what each scoped access has. An operation is a sequence of loads (`ReadLoad`,
`ReleaseLoad`) and compare-and-swaps (`ReadGranted`/`ReadRetry`, `ReleaseRead`, ...);
spurious failures and "a number of attempts" are the choice between retrying and refusing.
`LockWord!WriteMask` stands for the 7 bits, so that a word of two readers is already full.

*`ObjectGraph`, `HandleOps`, `FieldOps`*. A step is one atomic access, or a group of accesses
during which the thread holds the lock that protects all of them. The objects' locks appear
with the step that takes effect (`TakeRead`, `TakeWrite`, `TakeUpgrade`, `DropLock`), which
is what `RWLock` justifies. `DropTest`, `DropLockObject`, `DropCount`, `DropFlag` and `DropRelease`
are lines 1195-1223; `FieldOps` follows lines 336-409 and 1143-1175 access by access. `New`
is `Allocate` and `Initialize` in one step: until the constructor of the first root handle
returns nobody else knows the object. It chooses any page whose mutex is free.

*`Collector`*. The scan is `CollectNext` ... `CollectUpgrade`; the recursion of
`TryFindRootFor` is an explicit stack `stk[t]` of frames; of a referrer it reads the root
count (`FindScan`), the flag (`FindDescend`) and takes the lock (`FindLock`), and one without
a root is flagged (`FindReturn`) and released (`FindRelease`) in two steps. The mark bit of a collection is set
exactly for the objects on its stack (`Marked`), since each search clears what it has set.
A failed `GCA_ASSERT` throws: `Abort` records it in `fault` and releases the page.
The list of large objects is one more list (`Large`) with a lock; `Shrunk` says what the two
collections and the destructor make of a list when an object is destroyed.
A destroyed object's handle stays as it is, lock included, because `Remove` returns early
(finding 8 below).

*`Page`*. `mem` holds for every byte which object's byte it is, so that a relocation that
tears or overwrites an object shows. The page's mutex makes allocation, collection and
defragmentation one after the other; pins, initialization and drops by the program come
in between their steps. Objects have no fields here: liveness is `GC`'s subject.

`construction` follows the flags `uninitialized` and `initialization_failed`: an object whose
constructor threw is relocated without being moved. `RelocateObject` is two steps, since
the handle is written after the lock of the lookup is released; `Owners` is what a field
that looks for its object can find in between. Every collection takes an id first (`TakeId`)
and never gives it back, as in the code: a collection too many stays at `pc = "id"`.

`TryAllocate` makes the entries that the code makes. The entry of an allocation in a gap is not
where the object is, and an array of no elements leaves an entry without an object
(finding 7). The history variable `listing` says what that has come to: it is `"right"` until
such an allocation, then `"wrong"`, and `"followed"` once an allocation or a relocation has
been put where a wrong list says. Nothing is forbidden in any of the three; the properties
say which one they are about.

*`LargeObjects`*. `NewLarge`, `FastNext` and `FastEnd` are a large object's way through
`Allocate`; `TearSever`, `TearPages` and `TearLarge` are the three loops of `~gc_impl`. They
run when no handle is left and no thread is in an operation, which the code leaves to its
caller ("it's not my job to ensure that there aren't any", gc.cpp:1087). The code tests only the
count of users; that no handle is left is the caller's part, too, since dropping a handle
afterwards goes through a null `impl`.

*`PageList`*. A page is an amount of room and of garbage. `pages` is a `std::list`: `end()` of a
list is its sentinel, so that a thread which walks with `++it` does see pages that are
appended after it has read `begin` and `end`. `Advance` is that step, and it may go to a page
that is still being made, between gc.cpp:871 and 879. What the code does then it does in the
model: another thread acquires the new page's mutex first, fills the page, or is on it when
it is given up. Where the code leaves what it has defined (the page is gone, has no memory,
or `Unreachable()` is reached; finding 11) the action `Undefine` ends the behaviour, and the
properties cover everything up to there. `TakeId` is the wait for a collector id, which is
final when `gcCount` has come to `MaxIds`. `Throw` and `Register` are the exceptions on a page.
`Fits` and `NoGap` overlap: a page that has room may have no gap for a request, but an empty
page has.

*`Handles`*. An action is a C++ statement with all the calls it makes; `Copy`, `Destroy`,
`SetField` are functions from heaps to heaps, composed as the classes compose them. Other
threads are `HandleOps`' and `FieldOps`' subject. A statement that would wait for its own
thread is not taken. `Owner` tells managed fields from unmanaged ones; `Fits` is the result
of `dynamic_cast`. Destroying an object severs its fields one after the other: `Emptied` is
the heap after all of them, in whatever order. `HandleValues!Next` reads the statement off `stmt` and says what it must
do to the variables; of a moved-from variable it asks that it has nothing or the old value
of the other, whichever the class does.

*`TypeRegistry`*. `buffer` counts reallocations of the vector, so that a pointer that was
taken from an earlier buffer is known.

*`SlotContainer`*. Nodes, their bits, and for each slot how often its element was
constructed and destroyed; allocation of a node or of its list entry may fail. `RemoveFree` is
`Remove` of an element that is not there, which the code destroys (gc-util.h:631-636); `misused`
remembers where that has happened. gc.cpp itself only removes what it holds (505, 626, 755).

### What the program may do

The collector is not correct for every program (section 5). `GC` therefore names what a
program makes use of in the constant `Program`; `HandleOps` lists the capabilities. A run
says with them under which use of the library its properties hold:

* `gc_sequential` uses everything one thread can do except collecting while it has pins
  (finding 5) and building cycles or owners younger than what they own (findings 1 and 2).
* `gc_shared` also collects while it has pins, but never assigns to a field
  that has a value ("overwrite", finding 3), and never drops the last handle of an object
  while something it refers to is otherwise in use ("orphan", findings 3 and 4).

`Edges` says which object may be stored in which: `OwnersFirst` gives acyclic data in
which owners are older. `MaxIds` collections may start unless the run is about what happens
after that (finding 6). `Handles` has a `Program` of its own, of statements that go wrong
(finding 12); the run is about the others.

## 3. Runs

Each is a configuration in `PROJECT.json`, with what it shows; all finish within three
minutes.

| run | instance | distinct states | properties |
|---|---|---|---|
| `rw_lock` | 3 threads, 4 accesses, 2 readers fill the word | 12,977 | `TypeOK`, `Exclusion`, `WordCountsAccesses`, `ThreadLocalSetIsExact`, `ImplementsPromise`, `ObstructionFree` |
| `gc_sequential` | 1 thread, 3 objects with 2 fields, 2 of them large, 1 page, `gc::Destroy` | 1.8 million | `ReachableIsAlive`, `BackReferencesAgree`, `AssertionsHold`, `UnreachableIsFlagged`, `TeardownIsComplete`, `CollectionIsComplete` |
| `gc_shared` | 2 threads, 2 objects with 1 field, 1 of them large, 2 pages | 377,000 | `ReachableIsAlive`, `RootCountsAgree`, `LocksAgree`, `PinsAreExclusive`, `ListsAreComplete` |
| `page` | 10 bytes, 4 requests, 3 ids | 317,000 | `RightListMatches`, `ContentsIntact`, `OwnedAreRegistered`, `FieldsFindOwner`, `AssertionsHold`, `PinnedStay`, `AllocationAnswered` |
| `page_list` | 2 threads with 2 calls each, 3 pages of 2 units, 4 ids | 361,000 | `PagesAreExclusive`, `NoLockIsLeft`, `MadePagesStay`, `CallsEnd` |
| `handles` | 11 variables of all classes, 2 objects | 58,000 | `CountsAgree`, `GarbageIsUnreferenced`, `LocksAgree`, `ImplementsValues` |
| `types` | 3 threads, 3 types | 93,000 | `TypesAreDistinct`, `IndexNamesType`, `NobodyLooksOn`, `OnlyUpgradesCollide` |
| `bits` | 3 threads, 2 bits | 22,500 | `ReportsAddUp` |
| `slots` | 2 nodes of 3 slots | 136,000 | `LifetimesBalance`, `OwnedStaysConstructed`, `NodesAreListed` |
| `gc_child_first`, `gc_rooted_cycle`, `page_birth` | findings 2, 1 and 11 | | one property each, which TLC finds violated |

`MCGCProgress.cfg` passes as well and is kept beside the runs.

The properties worth a second look:

* `ReachableIsAlive` is the reason for the library: it follows handles, pins and fields as
  the program can, with operations half done, and asks that none of it is destroyed *or
  flagged*, since a flagged object is destroyed without another look.
* `PinsAreExclusive` compares the pins with the lock word in every state, also in the middle
  of operations of other threads, which is how a release too many shows.
* `CollectionIsComplete` is about a step: when the only thread ends a scan, everything left
  on the page is reachable.
* `ImplementsPromise` is refinement: `held` of `RWLock` is `held` of `AbstractRWLock`, and
  every compare-and-swap that succeeds is one of its actions, every other step a stutter.
* `ContentsIntact` reads the bytes of every initialized object, with the page in the
  middle of a defragmentation.
* `FieldsFindOwner` is asked between the two steps of a relocation, when the place a handle
  records is one the lookup no longer knows.
* `TeardownIsComplete` is about the order in which the lists are walked for the last time.
* `PagesAreExclusive` is not about the mutex, which has no owner to compare with, but about
  who works on a page; `NoLockIsLeft` says of each lock of the list that somebody is at work
  under it, which no exception may change; `NewPageServes` (`page_birth`) relates a thread's
  request to the page it has made and to what other threads have done to that page in
  between.
* `CallsEnd` and `AllocationAnswered` except what finding 6 breaks, and nothing else: both runs
  go on until the ids are used up, and the properties say that a call ends unless somebody
  is left without an id.
* `RightListMatches` says that a page's list goes wrong by finding 7 and by nothing else; the
  other properties of `Page` also hold while it is wrong, until somebody relies on it.
* `ImplementsValues` of `Handles` compares every statement with its meaning for plain
  pointers, so that one that counts correctly and refers to the wrong object shows, and
  `CountsAgree` the reverse.
* `OnlyUpgradesCollide` says how registering types can get stuck, and that it cannot
  otherwise; that it can is finding 9.

**Bounds.** Two readers fill a lock word: the boundary between count and write bit is
reached with three threads. Three objects are enough for a search that recurses through
two referrers and for an object with two referrers; two threads are a collector and a
mutator, two mutators, or two collectors. `MaxRoots` is the number of root handles of one
thread to one object: with pins and moves the counts reach three. `MaxIds = 2`
collections, possibly at the same time. Page: the four requests of `Mixed` are a byte, an aligned array that a defragmentation moves
over itself, an object that fills the page, with a gap before it that is too small to move it
or large enough, and an aligned one that needs the page collected. The last finds its place
at the end of the page, after a defragmentation or not, or in a gap, and then the run goes on
with a list that is wrong. Arrays fail to be initialized. An allocation takes at most one id
and the program may collect at any time, so that `MaxIds = 3` (8 in the code) is reached.
`page_list`: a request of a whole page and one of half a page, so that two
threads may need a new page at the same time, fill each other's, or share one; four
allocations can take more than the `MaxIds = 4` ids there are. `slots`: callers remove what is
not there at most once from a place that was right (`Misuses = 1`). `handles`: two variables of the classes that are moved, fields of both modes,
and one cast that fails. `SYMMETRY` is used where only invariants are checked and
no definition tells the permuted values apart.

**Fairness.** Weak fairness of `Step(t)`: a thread that is within a call of the library
is scheduled again. No fairness is assumed of the start of a call, and none of the locks:
they are spin loops without a queue, so that `rw_lock` is obstruction-free and nothing
more (`ObstructionFree`). `AllocationAnswered` needs that a page's holder goes on, and
nothing of the program; that a holder without an id waits for ever is in the property.
`CallsEnd` needs the same of every thread; a `scan` that waits for a
mutex which others take again and again could starve, but the calls of the others are
bounded (`Calls`): the property is that nobody is left waiting for somebody who has gone.

**Deadlock.** TLC's deadlock check is off in `rw_lock`, `gc_*`, `types`, `page` and `page_list`. `page_list` ends when all calls are made, when nobody has an id (finding 6) or in the
undefined, which `CallsEnd` covers; `page` stops when a collection has no id and nothing is
left to do for the program. In the others a thread may
wait for itself (a pin that is pinned again, an upgrade over its own second access) or two
upgrades for each other, which the code does not prevent. `OnlyUpgradesCollide` replaces the
check for `types`.

## 4. Proofs

| theorem | says |
|---|---|
| `RWLockProofs!TypesHold` | `Spec => []TypeOK` |
| `RWLockProofs!WordIsExact` | the word is the number of readers, or the write bit alone |
| `RWLockProofs!MutualExclusion` | a write access is the only access |
| `RWLockProofs!ThreadLocalSetsAreExact` | the thread-local sets name the writers |
| `RWLockProofs!Refinement` | every behaviour is one of `AbstractRWLock` |
| `AtomicBitSetProofs!TypesHold` | the same for the bit set |
| `AtomicBitSetProofs!EveryChangeReportedOnce` | each change of a bit is reported to one caller |
| `PageListProofs!OneThreadPerPage` | two threads never use one page at a time |
| `PageListProofs!LocksAreReleased` | under every lock that is taken somebody is at work |
| `PageListProofs!OnlyTheNewPageGoes` | a page that has been made stays and keeps its memory |
| `TypeRegistryProofs!TypesHold` | the table, its lock and the locals keep their types |
| `TypeRegistryProofs!NoTypeTwice` | no type gets two entries |
| `TypeRegistryProofs!RegistersAlone` | whoever adds a type is the only one inside |
| `TypeRegistryProofs!OnlyUpgradesBlock` | where every call waits, two upgrades wait for each other |
| `TypeRegistryProofs!IndicesNameTypes` | with enough indices, an index stands for its type for good |
| `SlotContainerProofs!ElementsAreTheirBits` | the taken slots are the elements that exist, where nobody has removed what was not there |
| `SlotContainerProofs!OwnedElementsExist` | there an element exists until its caller gives it up |
| `SlotContainerProofs!NoNodeLeaks` | no node is lost when memory runs out |
| `GCProofs!CountsAreHandles` | with no operation under way, root counts are root handles and pins |
| `GCProofs!BackReferencesCount` | one thread, any graph: with no operation under way, `referencedBy` has one entry per field that refers to the object |
| `GCProofs!ReachableSurvives` | one thread, no cycles: what the program can reach is never marked as garbage or destroyed |
| `GCProofs!NoAssertionFails` | one thread, no cycles: no `GCA_ASSERT` fails |
| `GCProofs!NothingIsForgotten` | one thread, no cycles: with no operation under way, an object without handles and referrers is marked as garbage |
| `HandlesProofs!StatementsCount` | root counts and back references are those the variables call for |
| `HandlesProofs!LastReferenceFlags` | the statement that drops the last reference flags the object |
| `HandlesProofs!PinsLock` | the locks are those of the pins |
| `HandlesProofs!StatementsAreOfPointers` | every behaviour is one of `HandleValues` |
| `PageProofs!ListLookupAndHandlesAgree` | until a gap is used or an empty array is made, entries are in order, apart, and the regions of the registered objects |
| `PageProofs!ContentsSurviveMoves` | initialized objects keep every byte, until something is put where a wrong entry says |
| `PageProofs!OwnersKeepTheirObjects` | ... objects with a handle stay registered |
| `PageProofs!FieldsFindTheirObject` | ... any address in a pinned object leads to it |
| `PageProofs!NoAssertionFails` | ... no assertion fails, but the one that a scan meets at a wrong entry |
| `PageProofs!PinnedObjectsStay` | no step moves a pinned object |

The first ten hold for every set of threads, every finite set of accesses with an owner each, and
every positive capacity of the word (`AccessAssumption`, `WriteMaskAssumption`), and for
every finite set of threads and every set of bits (`BitSetAssumption`). Those of `PageListProofs`
hold for every set of threads and pages, every room, set of sizes and number of calls
and of ids (`PageListAssumption`), and for threads that walk onto a page that is being made. The others hold for every value of the
constants that the `ASSUME` of their module allows (any threads, types, nodes, object graphs,
variables and requests), under the further hypotheses named below.

*The lock.* None of the properties is inductive. `IInv` is `TypeOK`, `LocalsOf(t)` for every
thread, `WordCountsAccesses` and `ThreadLocalSetIsExact`. `LocalsOf` says that a thread
within a call works for an access of its own and in which state that access is (it holds
nothing while it acquires, reads while it upgrades): without it a compare-and-swap from the
right value could belong to an access that already counts. `WordTellsMode` then lets each
step read off the word which accesses exist; `ReaderJoins`, `ReaderLeaves` and
`OneAccessChanges` do the counting. `Exclusion` follows from `WordCountsAccesses`. The
refinement proof maps each action of `RWLock` to an action of `AbstractRWLock` or to a
stutter, with `IInv` in both states.

*The bit set.* `IInv` is `TypeOK`, `SwapsChange` (a thread between its load and its swap
wants to make a difference) and `ReportsAddUp` (the balance of reports, with the changes that
are made and not yet reported, is the bit). `OneBitAddsUp` reduces a step to the one bit it
is about.

*The list of pages.* `IInv` is `PagesAreExclusive` and `NoLockIsLeft` with what they rest on. `Places`: who
works on a page has one. `MutexTaken`: whoever uses a page has set its flag, so that, with
exclusivity, a release frees the page of the thread that releases it and of nobody else;
this also holds for a thread that gets to a new page before the one that makes it.
`ListLocks`: one thread at a time is in `NewPage`, with the locks of the list. `ListWhole`: the list
has no page twice, the page being made is its last and the only one that may be without
memory; this is why `pop_back` takes off that page and no other (`MadePagesStay`).
`Accounts` keeps `used` and `dead` within their types. A step into the undefined changes no more
than the label of its thread (`Lost`), so that the invariant needs no exception for it, but
`NoLockIsLeft`, which is about defined states.

*The registry.* `IInv` is `TypeOK`, `TypesAreDistinct`, `WordCountsInside` (the word of `typesLock` is
the number of threads inside, or says that its one thread writes) and `CallersWant`. Adding
a type keeps them distinct because the upgrade is granted to a thread that is alone inside,
and the second search comes after it. `OnlyUpgradesBlock` counts: a word that lets nobody in
has somebody inside, and of those only a second one makes an upgrade wait. `IndicesNameTypes`
assumes `EnoughIndices` (there are no more types than indices): without it line 844 lets one
type too many through (finding 9).

*The handle storage.* `IInv` is `TypeOK`, `LifetimesBalance`, `NodesAreListed` and `OwnedIsTaken` (what callers
have been handed is marked as taken). The last is what makes a slot that is given out a
second time impossible. That `Remove` destroys nothing that is there (finding 8) does not
touch these; that it destroys what is not there does, and the theorems say that the damage
stays in that place (`misused`).

*Root counts.* A count and the handles it stands for change in different steps, by different
threads. `RootInv` says what the difference is in between: `CountsExact` adds to the root handles
and pins those handles that a thread has let go of and not yet counted (`Droppers`). It needs
`HandleLocals` (a thread that pins has no pin yet; one that drops has an object), and
`NoHandlesAhead` (nobody refers to an object that is still to be allocated, whose count is
reset). The sets are of any size: `FiniteHandles`, `RootMoved` and their like do the counting.
The theorem assumes nothing of `Program`: no flaw of section 5 makes a root count wrong.

*The collector.* The other four theorems about `GC` are for one thread, which may do whatever
`Program` can name: overwrite fields, drop handles in any order, collect while it has pins,
and end with `gc::Destroy`. The numbers of objects, fields, pages, handles and collections are
arbitrary, and so is which objects are large. One thread does not mean that operations are
atomic: a collection runs inside an allocation, and the theorems hold at each of its steps.
The last three also assume `Acyclic`: `Edges` has a rank that grows from owner to value. Both
hypotheses are needed. With a cycle a search takes an object under test for one without a
root (finding 1, `gc_rooted_cycle`); with two threads a search can miss a root (finding 4),
a read access can go to somebody else (finding 3), a flag can be lost (finding 10) or be seen
too early (finding 13). Cycles do no harm to back references, so `BackReferencesCount` does
without the second one. `Acyclic` asks nothing of ages: a value may be older than its owner,
where a collection can hang (finding 2) but does not destroy the wrong thing.

The inductive invariant is `Kept`, in layers that use those before them:

* `RootInv`, the root counts, and `Placed`: the types of the heap and of the locals of each
  operation, the walk and the stack of a search.
* `Ledger`: the entries of `referencedBy` by an owner are its fields, where the field of an
  assignment under way counts as what `referencedBy` has it for (`Counting`), and an entry
  added before that comes on top (`Pending`); so `Tally` is an equation of
  cardinalities at every step. `Upwards` keeps stored values above their owners. After the
  teardown has cut pages off (`Severed`), `Remains` says what is still true for large objects.
* `Spared`: what is gone (flagged or destroyed) has no root, and nothing outside of it refers
  into it (`Keeps`), so that it is closed against whatever the program can still reach.
  `ReachesNoMore` takes that to `Reachable`.
* `Hunted`: in a search, the objects on the stack have no root, the referrers they are done
  with are garbage, and ranks fall towards the top of the stack. The last is what makes the
  mark bit harmless: no referrer can be marked, so that a search that finds no root
  has really seen that all referrers are garbage (`Condemned`).
* `Listings`: lists have no object twice or in common, and only registered objects; so an entry
  always has its handle, and a collection meets an object once.
* `Locks`: a lock's word says no more than what the thread reads or writes at this step
  (`Reading`, `Writing`), and the candidate's word is 1 while it is searched; so its upgrade
  succeeds. It says "no more", since finding 3 can take a lock away with one thread, too.
* `Flagged`: an object without roots and referrers is garbage, or `DropFlag` is its thread's
  next step; and `fault = {}`.

TLC has checked each layer as an invariant of the instance of `gc_sequential`.

*The classes of gc.h.* A statement is a composition of functions from heaps to heaps, in
whose middle the counts do not agree with the variables: temporaries have counts. The
invariant is therefore stated of a heap and of the temporaries that are still to be
destroyed, `Agrees(h, e, L)`: `CountsFit`, `LocksFit` and `FlagsFit`, with `e` the references that
are counted and in no variable. One lemma per function says how it takes one agreeing heap
and its temporaries to another, and each statement composes them and ends with none
(`HandleInv`). `CarefulProgram` leaves out the statements of finding 12 that count wrongly
(`"copyAssign"`, `"reuse"`), garble locks (`"overPinned"`) or store garbage (`"swapFields"`);
casts that fail may happen, since they lose references and no counts. The refinement
assumes that no flaw is used (`Program = {}`) and that static types are right
(`StaticTypesFit`), which the compiler checks. `Agrees` serves there as well: that a statement
ends at all depends on the locks and flags it finds.

*The page.* The inductive invariant is `Inv`: `IInv` while `listing` is `"right"`, `Settled` while it is
`"wrong"`, and nothing of the page after that.

`IInv` is `Laid` (entries in order and apart, each with the object that the lookup
has in its spot, of the size and alignment its request asks for), `Filled` (the contents),
`Served` (what the program has is registered, a request is not yet), `Scanned` (where a
defragmentation is, and how far it has filled the page), and no assertion has failed. The first two
have a position and a target as parameters: between the two steps of a relocation the spot
of the entry at that position is the target, and everything else is as it was (`BeginLaid`,
`EndLaid`). The target is aligned, behind everything that has been passed and before the
old place (`TargetIsAhead`; unsigned subtraction does not wrap because the scan has seen only
objects further down). Moving an array one element at a time over its own old place is a
recursive function; `Carried` says what k of its steps do to the bytes, and holds for all k
by the least number principle of the library (`LeastNumber`, `AllNumbers`).

An allocation at the end of the page, and one that an exception gives back, keep `IInv`. One
in a gap, or of an empty array, leads to `Settled`, which does without the list: what the
lookup has is in regions that are apart (`Housed`), with its contents (`Kept`), and `Served`
holds. That the region in the gap is apart from the others is where a right list is
needed for the last time. `Settled` is kept by collections, which take an object off by what
the lookup has at an entry's offset, and none that has a handle; by scans that abort at a
wrong entry; and by all that the program does. The next allocation or relocation is put
where the list says, which may be over another object: there the theorems end, since the
code does (finding 7). No theorem restricts the requests. `PinnedObjectsStay` holds after that,
too: `PinInvariant` only says who may be pinned, and that whatever is being relocated is
not.

Only model-checked so far: of `GC`, that a collection misses nothing (`CollectionIsComplete`,
`TeardownIsComplete`), who has which lock (`LocksAgree`, `PinsAreExclusive`), and everything but the
root counts for several threads (`ReachableIsAlive`, `BackReferencesAgree`, `AssertionsHold`,
`UnreachableIsFlagged`, `ListsAreComplete`). With several threads most of them are false without a
discipline of use (section 5), and the invariants that carry them would be about that
discipline. For good: the liveness properties (`ObstructionFree`,
`AllocationAnswered`, `CallsEnd`, `CollectionTerminates`, `CollectionStarts`), which are beyond the
prover. Induction over data can only be had where a first-order fact of the library gives
it, as for the moves of a page; what `ReachFrom` computes stays with TLC.

## 5. Where code and documentation part

Numbers 1, 2 and 11 have a run in `PROJECT.json`. The other configurations are kept beside
them; each ends with the violation that is described.

1. `gc_rooted_cycle` (`ReachableIsAlive`): gc.cpp:634 reads the mark bit of an object whose search
   is under way as "already tested, no root". In a cycle that a root enters elsewhere, the
   members behind it are flagged as garbage and destroyed.
2. `gc_child_first` (`CollectionTerminates`): a dead object that stands on the page before its dead
   owner is destroyed first and stays write-locked; destroying the owner waits for that
   lock for ever at gc.cpp:571. An object that refers to itself (the same run with `MaxObjects`
   = 1 and `OnlyItself` for `Edges`) waits for its own lock. With two threads the order does not matter: a scan that passes over an owner in
   use may destroy what it owns after the owner is dropped.
3. `MCGCOverwritePinned.cfg` (`PinsAreExclusive`): the old value's lock is released at
   gc.cpp:385 and again by the deferred release of line 370 or by line 589; the second one ends somebody's pin.
   (The latter is `PinsAreExclusive` in place of `ReachableIsAlive` in `MCGCRootFromField.cfg`.)
   `MCGCCollidingCollectors.cfg` (`AssertionsHold`): the same release takes the read access of the
   collector of another page, whose assertion at line 461 fails. `gc_shared` therefore
   checks `ListsAreComplete`: the other assertions never fail.
4. `MCGCRootFromField.cfg` (`ReachableIsAlive`): the search reads an object's root count (line 640) before
   its referrers; in between the program turns a field into a root handle and drops the owner.
   The argument of lines 398-408 does not cover this order.
5. `MCGCProgress.cfg` with "collectPinned" added to `Program` (`CollectionTerminates`): a thread that allocates while it has an object pinned
   whose owner is dead waits for its own pin (gc.cpp:567-585).
6. `MCGCExhaustIds.cfg` (`CollectionStarts`): `gcCount` is never decremented; after
   `gc_max_collection_thread_count` collections the next spins at line 417, or 157, with the
   page's mutex or `largeObjectsLock`, and so do the threads that need one of these.
7. `MCPageGap.cfg` (`EntriesMatchHandles`): the entry for an allocation in a gap is computed from the end of
   the allocation behind the gap (gc.cpp:776-782). The same with the requests `Empty`:
   an array of no elements leaves an entry without an object (line 793), at which the next
   scan fails; asked of a collector without pages, it crashes.
8. `MCSlotContainerRemoved.cfg` (`RemovedIsDestroyed`): `Remove` returns early for exactly the
   slots that are taken (gc-util.h:631). `MCSlotContainerRefused.cfg` (`RoomIsUsed`): a node whose
   last slot is taken and a lower one free counts as having room, and throws (507-509).
9. `MCTypeRegistryUpgrade.cfg` (`RegistrationReturns`): two upgrades at gc.cpp:840 wait for each other.
   `MCTypeRegistryTruncate.cfg` (`IndexNamesType`): line 844 lets one type too many through.
   `MCTypeRegistryDangling.cfg` (`PointersAreValid`): pointers to entries outlive the lock (242, 495, 526).
10. `MCGCLostFlag.cfg` (`UnreachableIsFlagged`): two threads that drop the last two root handles both
    see a count of two, take no read access, and the upgrade of the free lock fails: the flag
    is not set (1197-1213), though the collector still finds the object by searching.

11. `page_birth` (`NewPageServes`): a new page is in the list (gc.cpp:871) before its mutex is
    taken (879), and the walk at line 75 does not ask for `pagesLock`. Another thread gets
    there first and fills the page, and the thread that made it reaches `Unreachable()`
    (827). The thread may even be there before the page has memory (889-898), or be left
    on a page that is given up again (876).
12. `Handles` with a flaw in `Program`: "copyAssign" (`CountsAgree`, `ImplementsValues`): the copy
    assignment of a root handle copies the handle's own value (gc.h:217). "swapFields"
    (`ImplementsValues`): the move assignment of a field overwrites the old value, which
    becomes garbage, and then fails to store it in the other field (448). "reuse"
    (`CountsAgree`): an unmanaged `dyn::field` does not give its old value's count back
    (1339-1351). "castMove" (`ImplementsValues`): a move whose cast fails leaves both handles
    null (1257-1268). "castField": a `dyn::field` keeps a value that cannot be cast.
    "overPinned" (`LocksAgree`) is finding 3 with one thread. Without state, and therefore
    no module's subject: `operator!=` of two handles returns whether they are equal
    (663-665), and `SetField` with a null read-only pin follows the null pointer (gc.cpp:1164).
13. `MCGCLargeFlagged.cfg` (`AssertionsHold`): `CollectLargeObjectsFast` takes the garbage flag for a proof
    that the object's lock is free; the thread that has just set it has the lock until
    gc.cpp:1217.
14. `MCGCTeardownHang.cfg` (`TeardownIsComplete`): the destructor destroys the objects on pages first and
    leaves their locks taken; a large object with a field that refers to one of them waits
    for it for ever.
15. An object whose constructor threw is destroyed like one that was constructed
    (gc.cpp:539; gc-test.cpp:1616 asks for that), so that what its constructor had
    constructed, and destroyed again, is destroyed twice.

`MCGCProgress.cfg` (`CollectionTerminates` for chains of three, one thread, owners first) shows
under which use a collection does end.

## 6. Not modelled, and what comes next

Every part of the code that keeps state has a module now. Open are operations and proofs:

1. Proofs about `GC` for every number of threads: `ListsAreComplete` for any program; `LocksAgree`
   and `PinsAreExclusive` for programs that neither overwrite nor orphan. For one thread,
   `TeardownIsComplete`.
2. The composition of `PageList` with `Page` or `GC`: pages are made and collected in different
   modules, at the level of detail each question needs.
3. Fields whose destructor runs after their owner has left the lookup, and which then take
   themselves for unmanaged ones.

Left out: `Init` and the count of users (a plain integer), `SetAll` and `ClearAll` of the bit
sets (a plain store, not called while an object is shared), moving a `ptr_safe_container`
(before it is in use). Left out for good: the default allocator (it forwards to memory
resources; that it may throw is modelled), type traits (compile-time selection), debug
listeners and log messages (they change nothing), element access and comparison of
handles, and the tests. A new object is appended to its page's list in `GC`, also when it
would fill a gap: the order matters to finding 2 only.
