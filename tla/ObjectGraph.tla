----------------------------- MODULE ObjectGraph ------------------------------
(***************************************************************************)
(* The state that the mutators and the collector of gca share: one         *)
(* internal_handle per object (include/gca/gc-internal.h:131-161), the     *)
(* pages' allocation lists, the allocation-to-handle lookup, and what the  *)
(* client program owns.                                                    *)
(*                                                                         *)
(* Objects are numbered in the order in which they are allocated; their    *)
(* place on a page is their place in its allocation list.  The list of     *)
(* large objects, with its lock, is one more list of this kind.            *)
(* The bytes of a page and its gaps are the subject of module Page.        *)
(***************************************************************************)
EXTENDS LockWord, SequencesExt

CONSTANTS
    Threads,
    MaxObjects,   \* how many objects the program allocates
    Slots,        \* 1 .. the number of fields of an object
    Pages,
    LargeObjects, \* the objects that do not fit on a page
    Edges,        \* <<p, x>>: the program may store x in a field of p
    MaxRoots,     \* root handles one thread keeps to one object
    MaxIds        \* gc_max_collection_thread_count

Objects == 1 .. MaxObjects
Null == 0

\* largeObjects is a list like that of a page, for which largeObjectsLock is what
\* allocationLock is for a page.
Large == "largeObjects"
Lists == Pages \cup IF LargeObjects = {} THEN {} ELSE {Large}

ASSUME GraphAssumption ==
    /\ MaxObjects \in Nat \ {0} /\ MaxRoots \in Nat \ {0} /\ MaxIds \in Nat \ {0}
    /\ Slots \subseteq Nat /\ IsFiniteSet(Slots) /\ IsFiniteSet(Threads)
    /\ Edges \subseteq Objects \X Objects /\ LargeObjects \subseteq Objects
    /\ Large \notin Pages

VARIABLES
    \* the object headers
    rootCount,   \* rootHandleCount
    refBy,       \* referencedBy, a vector with one entry per referring field
    garbage,     \* the objects whose garbage flag is set
    word,        \* objectLock
    rwSet,       \* per thread: the locks it believes to have written (thread_local)
    field,       \* the GC fields inside the objects
    \* the gc_impl
    allocated,   \* how many objects have been allocated so far
    lookup,      \* the objects in allocationToHandleLookup
    allocations, \* per page: page::allocations; and largeObjects
    pageLock,    \* per page: allocationLock is taken; and largeObjectsLock
    gcCount,
    fault,       \* the GCA_ASSERTs that have failed
    \* the client program
    roots,       \* per thread and object: root handles it owns
    roPins,      \* per thread: the objects it has a read-only pin on
    rwPins,      \* per thread: the objects it has a read-write pin on
    \* the threads
    pc,          \* where a thread is
    loc,         \* the locals of a handle operation
    col,         \* the locals of a collection
    stk          \* the recursion stack of TryFindRootFor

headerVars == <<rootCount, refBy, garbage, field>>
lockVars   == <<word, rwSet>>
heapVars   == <<allocated, lookup, allocations>>
implVars   == <<pageLock, gcCount, fault>>
clientVars == <<roots, roPins, rwPins>>
opVars     == <<loc>>
colVars    == <<col, stk>>
vars == <<headerVars, lockVars, heapVars, implVars, clientVars, pc, opVars, colVars>>

Idle == "idle"
NoLocals == [obj |-> Null]

Init ==
    /\ rootCount = [o \in Objects |-> 0]
    /\ refBy = [o \in Objects |-> <<>>]
    /\ garbage = {}
    /\ word = [o \in Objects |-> Free]
    /\ rwSet = [t \in Threads |-> {}]
    /\ field = [o \in Objects |-> [s \in Slots |-> Null]]
    /\ allocated = 0
    /\ lookup = {}
    /\ allocations = [p \in Lists |-> <<>>]
    /\ pageLock = [p \in Lists |-> FALSE]
    /\ gcCount = 0
    /\ fault = {}
    /\ roots = [t \in Threads |-> [o \in Objects |-> 0]]
    /\ roPins = [t \in Threads |-> {}]
    /\ rwPins = [t \in Threads |-> {}]
    /\ pc = [t \in Threads |-> Idle]
    /\ loc = [t \in Threads |-> NoLocals]
    /\ col = [t \in Threads |-> NoLocals]
    /\ stk = [t \in Threads |-> <<>>]

Goto(t, label) == pc' = [pc EXCEPT ![t] = label]

-------------------------------------------------------------------------------
(* The operations of an object's rw_lock, each as the one step that takes    *)
(* effect; module RWLock has the same operations CAS by CAS.                 *)

TakeWrite(t, o) ==
    /\ word[o] = Free
    /\ word' = [word EXCEPT ![o] = WriteHeld]
    /\ rwSet' = [rwSet EXCEPT ![t] = @ \cup {o}]

TakeRead(o) ==
    /\ Readable(word[o])
    /\ word' = [word EXCEPT ![o] = @ + 1]
    /\ UNCHANGED rwSet

\* Upgrade and TryUpgrade: from one reader, or nothing to do for a written word.
TakeUpgrade(t, o) ==
    \/ /\ word[o] = 1
       /\ word' = [word EXCEPT ![o] = WriteHeld]
       /\ rwSet' = [rwSet EXCEPT ![t] = @ \cup {o}]
    \/ word[o] = WriteHeld /\ UNCHANGED lockVars

CanUpgrade(o) == word[o] \in {1, WriteHeld}

DropLock(t, o) ==
    /\ word' = [word EXCEPT ![o] = Released(@)]
    /\ rwSet' = [rwSet EXCEPT ![t] = @ \ {o}]

\* Mutant: std::erase, which takes out every entry.
SwapRemoveAll(seq, e) == SelectSeq(seq, LAMBDA x : x # e)

\* std::ranges::find, swap with back(), pop_back: one entry of seq for e is gone.
SwapRemove(seq, e) ==
    LET first == CHOOSE i \in DOMAIN seq : seq[i] = e /\ \A j \in 1 .. i - 1 : seq[j] # e
    IN  [i \in 1 .. Len(seq) - 1 |-> IF i = first THEN seq[Len(seq)] ELSE seq[i]]

Refers(p, o) == \E i \in DOMAIN refBy[o] : refBy[o][i] = p

\* Mutant: does not look at the root handles of the old value.
UnreferenceIgnoringRoots(t, p, old) ==
    LET rest == SwapRemove(refBy[old], p)
    IN  /\ refBy' = [refBy EXCEPT ![old] = rest]
        /\ garbage' = IF rest = <<>> THEN garbage \cup {old} ELSE garbage
        /\ DropLock(t, old)

\* The part of SetField that takes p out of the referencedBy of its old value,
\* garbage flag included, up to the explicit Release (gc.cpp:372-385).
Unreference(t, p, old) ==
    LET rest == SwapRemove(refBy[old], p)
    IN  /\ refBy' = [refBy EXCEPT ![old] = rest]
        /\ garbage' = IF rest = <<>> /\ rootCount[old] = 0 THEN garbage \cup {old} ELSE garbage
        /\ DropLock(t, old)

===============================================================================
