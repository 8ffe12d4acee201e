---------------------------------- MODULE GC ----------------------------------
(***************************************************************************)
(* The garbage collector and the program it works for: any thread may run  *)
(* handle operations and any thread may run collections, one at a time.    *)
(***************************************************************************)
EXTENDS FieldOps, LargeObjects

Step(t) ==
    \/ PinLock(t) \/ PinCount(t)
    \/ Drop(t)
    \/ Assign(t)
    \/ Collect(t)
    \/ AllocateLarge(t)
    \/ TearDown(t)

\* gc::Collect or an Allocate that finds page p full, or all pages.
StartCollection(t, p) ==
    /\ Uses("collectPinned") \/ roPins[t] \cup rwPins[t] = {}
    /\ Uses("exhaustIds") \/ gcCount < MaxIds
    /\ CollectBegin(t, p)

Start(t) ==
    /\ ~\E u \in Threads : GoesDown(u)
    /\ \/ New(t) \/ NewLarge(t) \/ Destroy(t)
       \/ \E p \in Lists : StartCollection(t, p)
       \/ \E o \in 1 .. allocated :
             \/ CopyRoot(t, o)
             \/ DropRoot(t, o)
             \/ Pin(t, o, "ro")
             \/ Pin(t, o, "rw")
             \/ Unpin(t, o)
             \/ \E u \in Threads : MoveRoot(t, u, o)
             \/ \E s \in Slots, x \in {Null} \cup Objects : SetField(t, o, s, x)

Next == \E t \in Threads : Step(t) \/ Start(t)

Spec == Init /\ [][Next]_vars

\* A thread that is inside an operation keeps being scheduled.  Nothing makes a
\* program start one.
FairSpec == Spec /\ \A t \in Threads : WF_vars(Step(t))

-------------------------------------------------------------------------------

Dead == Born \ lookup

\* What the program can still get at: its handles, and the fields of those.  A
\* field counts as overwritten once its old value has been unreferenced: its
\* owner is pinned for writing, and nobody else can read it until it is stored.
BeingStored(t, p, s) ==
    /\ pc[t] \in {"setOldRelease", "setStore"}
    /\ loc[t].obj = p /\ loc[t].slot = s

FieldOf(p, s) ==
    IF \E t \in Threads : BeingStored(t, p, s)
      THEN loc[CHOOSE t \in Threads : BeingStored(t, p, s)].new
      ELSE field[p][s]

HandleSet == {o \in Born : \E t \in Threads : Owns(t, o) \/ Pins(t, o)}

Reachable == ReachFrom(HandleSet, FieldOf)

Quiet == \A t \in Threads : pc[t] = Idle

Labels == {Idle, "pinLock", "pinCount", "dropTest", "dropLock", "dropCount", "dropFlag",
           "dropRelease", "setUpgrade", "setCheck", "setNewLock", "setAdd", "setOldLock",
           "setRemove", "setOldRelease", "setStore", "setDowngrade", "colId", "colNext",
           "colTry", "colUntry", "colRead", "colFlag", "colRelease", "colUpgrade", "findEnter",
           "findFlag", "findScan", "findDescend", "findLock", "findReturn", "findRelease",
           "desUnregister", "desField", "desReacquire", "desClear", "desRelease", "fastNext",
           "tearSever", "tearPages", "tearLarge", "down"}

\* Counters, lock words and lists stay in their types: no root count goes below
\* zero, no lock word leaves its byte.
TypeOK ==
    /\ rootCount \in [Objects -> Nat]
    /\ \A o \in Objects : \A i \in DOMAIN refBy[o] : refBy[o][i] \in Objects
    /\ garbage \subseteq Objects
    /\ word \in [Objects -> Words]
    /\ rwSet \in [Threads -> SUBSET Objects]
    /\ field \in [Objects -> [Slots -> Objects \cup {Null}]]
    /\ allocated \in 0 .. MaxObjects
    /\ lookup \subseteq Born
    /\ \A p \in Lists : \A i \in DOMAIN allocations[p] : allocations[p][i] \in Born
    /\ pageLock \in [Lists -> BOOLEAN]
    /\ gcCount \in 0 .. MaxIds
    /\ roots \in [Threads -> [Objects -> 0 .. MaxRoots]]
    /\ roPins \in [Threads -> SUBSET Objects]
    /\ rwPins \in [Threads -> SUBSET Objects]
    /\ pc \in [Threads -> Labels]

\* What a collector is for: an object the program can still reach is neither
\* destroyed nor marked to be (CollectOnPage, TryFindRootFor, Destroy, SetField).
ReachableIsAlive == Reachable \cap (garbage \cup Dead) = {}

\* With no operation under way, the root count of a live object is the number of
\* root handles and pins to it (gc.cpp:1095-1223).
Pinners(o) == {t \in Threads : o \in roPins[t] \cup rwPins[t]}
RootHandles(o) == {h \in Threads \X (1 .. MaxRoots) : h[2] <= roots[h[1]][o]}
RootsTo(o) == Cardinality(RootHandles(o))

RootCountsAgree ==
    Quiet => \A o \in lookup : rootCount[o] = RootsTo(o) + Cardinality(Pinners(o))

\* With no operation under way, a live object's referencedBy has exactly one
\* entry per field that holds it (gc.cpp:336-409, 551-592).
BackReferencesAgree ==
    Quiet =>
      \A x \in lookup, p \in Born :
         Cardinality({i \in DOMAIN refBy[x] : refBy[x][i] = p})
           = Cardinality({s \in Slots : field[p][s] = x})

\* With no operation under way, the lock of an object the program can reach is
\* held by its pins and by nothing else, and every thread knows which it has
\* written (README.md:42-43).
LocksAgree ==
    Quiet =>
      \A o \in Reachable :
         /\ word[o] = IF \E t \in Threads : o \in rwPins[t] THEN WriteHeld
                      ELSE Cardinality({t \in Threads : o \in roPins[t]})
         /\ \A t \in Threads : o \in rwSet[t] <=> o \in rwPins[t]

\* No GCA_ASSERT of the handle operations or of the collection ever fails.
AssertionsHold == fault = {}

\* Wherever the objects are and whoever collects: every entry of a page has its
\* handle (gc.cpp:430) and every value of a field of a dying object has its back
\* reference (gc.cpp:372).  Of the assertions only the one on locks may fail, when
\* collectors of two pages meet.
ListsAreComplete == fault \subseteq {"unreleased lock(s) to dead object"}

\* Whatever other threads, and other operations of its own thread, do meanwhile: a
\* read-write pin is the only pin of its object and a read-only pin counts as one
\* read access, until the pin is gone (README.md:42-43).  SetField may upgrade
\* the only read-only pin for a while.
Upgraded(t, o) ==
    /\ pc[t] \in {"setCheck", "setNewLock", "setAdd", "setOldLock", "setRemove",
                  "setOldRelease", "setStore", "setDowngrade"}
    /\ loc[t].role = "ro_pin" /\ loc[t].new = o

PinsAreExclusive ==
    \A o \in lookup :
       LET readers == {t \in Threads : o \in roPins[t]}
           writers == {t \in Threads : o \in rwPins[t]}
       IN  /\ writers # {} => word[o] = WriteHeld /\ Cardinality(writers \cup readers) = 1
           /\ readers # {} => \/ word[o] \in Cardinality(readers) .. WriteMask
                              \/ word[o] = WriteHeld /\ \E t \in readers : readers = {t} /\ Upgraded(t, o)

\* gc.cpp:133-134 takes for granted that the garbage flag is set for non-cyclic
\* objects the moment they become unreachable: with no operation under way, an
\* object without roots and referrers has it.
UnreachableIsFlagged ==
    Quiet => \A o \in lookup : rootCount[o] = 0 /\ refBy[o] = <<>> => o \in garbage

\* A collection by the only thread there is leaves nothing unreachable on the
\* page it has scanned (CollectOnPage).
CollectionIsComplete ==
    [][\A t \in Threads :
          pc[t] = "colNext" /\ pc'[t] = Idle =>
             \A i \in DOMAIN allocations[col[t].page] :
                allocations[col[t].page][i] \in Reachable]_vars

\* gc::Destroy leaves no object behind, and waits for no lock, which nobody would
\* release: the list of large objects is walked after the pages' objects have been
\* destroyed, and is not shrunk by what is destroyed (gc.cpp:909-970).
TeardownIsComplete ==
    \A t \in Threads :
       /\ pc[t] = "down" => lookup = {}
       /\ TearsDown(t) /\ pc[t] = "desField" /\ ~FieldsDone(t) /\ FieldValue(t) # Null =>
            word[FieldValue(t)] = Free

\* A collection that has begun to scan its page comes to an end.
CollectionTerminates == \A t \in Threads : pc[t] = "colNext" ~> pc[t] = Idle

\* A collection that has been requested gets to scan its page.
CollectionStarts == \A t \in Threads : pc[t] = "colId" ~> pc[t] = "colNext"

===============================================================================
